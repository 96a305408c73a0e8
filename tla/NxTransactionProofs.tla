------------------------- MODULE NxTransactionProofs -------------------------
(***************************************************************************)
(* Proofs about NxTransaction, for every number of commit paths, of runs   *)
(* and of mishaps.                                                         *)
(***************************************************************************)
EXTENDS NxTransactionInv, TLAPS

USE ConstantsAssumption DEF Path, Object, NoFile, Stale, Sound

-----------------------------------------------------------------------------
(* Type correctness *)

LEMMA LabelFacts ==
  /\ "idle" \in Labels
  /\ "recover" \in Labels
  /\ "ready" \in Labels
  /\ "extract" \in Labels
  /\ "commit" \in Labels
  /\ "created" \in Labels
  /\ "backup" \in Labels
  /\ "move-out" \in Labels
  /\ "moved-out" \in Labels
  /\ "install" \in Labels
  /\ "move-in" \in Labels
  /\ "moved-in" \in Labels
  /\ "verify" \in Labels
  /\ "publish" \in Labels
  /\ "published" \in Labels
  /\ "sync" \in Labels
  /\ "rollback" \in Labels
  /\ "discard-backup" \in Labels
  /\ "discard-stage" \in Labels
  /\ "discard-journal" \in Labels
  /\ "finished" \in Labels
  BY DEF Labels

LEMMA RecordFacts ==
  /\ Nowhere \in [Path -> Object]
  /\ NoJournal \in Journals
  /\ NoMarker \in Markers
  /\ \A r \in 1..MaxRelease : RecipeOf[r] \in Nat
  BY DEF Nowhere, NoJournal, NoMarker, Journals, Markers, Phase

LEMMA PhaseFacts ==
  ASSUME journal \in Journals,
         NEW phase \in Phase, NEW q
  PROVE  [journal EXCEPT !.phase[q] = phase] \in Journals
  BY DEF Journals

LEMMA MarkerFacts ==
  ASSUME NEW id \in Nat, NEW r \in Nat, NEW f \in [Path -> Object]
  PROVE  [id |-> id, release |-> r, seal |-> f] \in Markers
  BY DEF Markers

LEMMA ExitType ==
  ASSUME NEW status \in {"ok", "failed", "crashed"}, Exit(status)
  PROVE  ProcType'
  <1>1. pc' \in Labels /\ caller' \in {"none", "recover", "commit"}
    BY LabelFacts DEF Exit
  <1>2. i' \in 0..N /\ result' \in {"none", "running", "ok", "failed", "crashed"}
    BY DEF Exit
  <1>3. complete' \in BOOLEAN /\ force' \in BOOLEAN
    BY ZenonT(20) DEF Exit
  <1>. QED
    BY <1>1, <1>2, <1>3 DEF ProcType

LEMMA InitType == Init => TypeOK
  <1> SUFFICES ASSUME Init PROVE TypeOK
    OBVIOUS
  <1>1. DiskType
    BY RecordFacts DEF Init, DiskType
  <1>2. complete \in BOOLEAN /\ force \in BOOLEAN
    BY ZenonT(20) DEF Init
  <1>3. ProcType
    BY <1>2, LabelFacts DEF Init, ProcType
  <1>4. RunType
    BY DEF Init, RunType
  <1>. QED
    BY <1>1, <1>3, <1>4 DEF TypeOK

LEMMA NextType == TypeOK /\ [Next]_vars => TypeOK'
  <1> SUFFICES ASSUME TypeOK, [Next]_vars PROVE TypeOK'
    OBVIOUS
  <1> USE DEF TypeOK
  <1>1. CASE Start
    <2>1. DiskType'
      BY <1>1 DEF DiskType, disk, Goto, Exit, Start
    <2>2. ProcType'
      BY <1>1, LabelFacts DEF ProcType, Goto, Exit, Start
    <2>3. RunType'
      BY <1>1 DEF RunType, Unharmed, Start
    <2>. QED
      BY <2>1, <2>2, <2>3
  <1>2. CASE RecoverNothing
    <2>1. DiskType'
      BY <1>2 DEF DiskType, disk, Goto, Exit, RecoverNothing
    <2>2. ProcType'
      BY <1>2, LabelFacts DEF ProcType, Goto, Exit, RecoverNothing
    <2>3. RunType'
      BY <1>2 DEF RunType, Unharmed, RecoverNothing
    <2>. QED
      BY <2>1, <2>2, <2>3
  <1>3. CASE RecoverPublished
    <2>1. DiskType'
      BY <1>3 DEF DiskType, disk, Goto, Exit, RecoverPublished
    <2>2. ProcType'
      BY <1>3, LabelFacts DEF ProcType, Goto, Exit, RecoverPublished
    <2>3. RunType'
      BY <1>3 DEF RunType, Unharmed, RecoverPublished
    <2>. QED
      BY <2>1, <2>2, <2>3
  <1>4. CASE RecoverUnpublished
    <2>1. DiskType'
      BY <1>4 DEF DiskType, disk, Goto, Exit, RecoverUnpublished
    <2>2. ProcType'
      BY <1>4, LabelFacts DEF ProcType, Goto, Exit, RecoverUnpublished
    <2>3. RunType'
      BY <1>4 DEF RunType, Unharmed, RecoverUnpublished
    <2>. QED
      BY <2>1, <2>2, <2>3
  <1>5. CASE RecoverMisread
    <2>1. DiskType'
      BY <1>5 DEF DiskType, disk, Goto, Exit, RecoverMisread
    <2>2. ProcType'
      BY <1>5, LabelFacts DEF ProcType, Goto, Exit, RecoverMisread
    <2>3. RunType'
      BY <1>5 DEF RunType, Unharmed, RecoverMisread
    <2>. QED
      BY <2>1, <2>2, <2>3
  <1>6. CASE FastPath
    <2>1. DiskType'
      BY <1>6 DEF DiskType, disk, Goto, Exit, FastPath
    <2>2. ProcType'
      BY <1>6, ExitType DEF FastPath
    <2>3. RunType'
      BY <1>6 DEF RunType, Unharmed, FastPath
    <2>. QED
      BY <2>1, <2>2, <2>3
  <1>7. CASE Adopt \/ AdoptMisread
    <2>0. marker' \in Markers
      <3>1. run \in Nat /\ release \in Nat /\ live \in [Path -> Object]
        BY DEF DiskType, RunType
      <3>2. marker' = [id |-> run, release |-> release, seal |-> live]
        BY <1>7 DEF Adopt, AdoptMisread, AdoptLive
      <3>. QED
        BY <3>1, <3>2, MarkerFacts
    <2>1. DiskType'
      BY <1>7, <2>0 DEF DiskType, Adopt, AdoptMisread, AdoptLive
    <2>2. ProcType'
      BY <1>7, LabelFacts DEF ProcType, Goto, Exit, Adopt, AdoptMisread, AdoptLive
    <2>3. RunType'
      BY <1>7 DEF RunType, Unharmed, Adopt, AdoptMisread, AdoptLive
    <2>. QED
      BY <2>1, <2>2, <2>3
  <1>8. CASE ResumeStage
    <2>1. DiskType'
      BY <1>8 DEF DiskType, disk, Goto, Exit, ResumeStage, KeepSome
    <2>2. ProcType'
      BY <1>8, LabelFacts DEF ProcType, Goto, Exit, ResumeStage, KeepSome
    <2>3. RunType'
      BY <1>8 DEF RunType, Unharmed, ResumeStage, KeepSome
    <2>. QED
      BY <2>1, <2>2, <2>3
  <1>9. CASE ReadyMisread
    <2>1. DiskType'
      BY <1>9 DEF DiskType, disk, Goto, Exit, ReadyMisread, KeepSome
    <2>2. ProcType'
      BY <1>9, LabelFacts DEF ProcType, Goto, Exit, ReadyMisread, KeepSome
    <2>3. RunType'
      BY <1>9 DEF RunType, Unharmed, ReadyMisread, KeepSome
    <2>. QED
      BY <2>1, <2>2, <2>3
  <1>10. CASE ExtractItem
    <2>1. DiskType'
      BY <1>10 DEF DiskType, RunType, disk, ExtractItem, Extracted
    <2>2. ProcType'
      BY <1>10, LabelFacts DEF ProcType, Goto, Exit, ExtractItem
    <2>3. RunType'
      BY <1>10 DEF RunType, Unharmed, ExtractItem
    <2>. QED
      BY <2>1, <2>2, <2>3
  <1>11. CASE StageValidated
    <2>1. DiskType'
      BY <1>11 DEF DiskType, disk, Goto, Exit, StageValidated
    <2>2. ProcType'
      BY <1>11, LabelFacts DEF ProcType, Goto, Exit, StageValidated
    <2>3. RunType'
      BY <1>11 DEF RunType, Unharmed, StageValidated
    <2>. QED
      BY <2>1, <2>2, <2>3
  <1>12. CASE StageRejected
    <2>1. DiskType'
      BY <1>12, RecordFacts DEF DiskType, disk, Goto, Exit, StageRejected
    <2>2. ProcType'
      BY <1>12, ExitType DEF StageRejected
    <2>3. RunType'
      BY <1>12 DEF RunType, Unharmed, StageRejected
    <2>. QED
      BY <2>1, <2>2, <2>3
  <1>13. CASE CommitBegin
    <2>1. DiskType'
      BY <1>13, RecordFacts DEF DiskType, RunType, disk, CommitBegin, Journals
    <2>2. ProcType'
      BY <1>13, LabelFacts DEF ProcType, Goto, Exit, CommitBegin
    <2>3. RunType'
      BY <1>13 DEF RunType, Unharmed, CommitBegin
    <2>. QED
      BY <2>1, <2>2, <2>3
  <1>14. CASE EnterLoop
    <2>1. DiskType'
      BY <1>14 DEF DiskType, disk, Goto, Exit, EnterLoop
    <2>2. ProcType'
      BY <1>14, LabelFacts DEF ProcType, Goto, Exit, EnterLoop
    <2>3. RunType'
      BY <1>14 DEF RunType, Unharmed, EnterLoop
    <2>. QED
      BY <2>1, <2>2, <2>3
  <1>15. CASE BackupIntent
    <2>1. DiskType'
      BY <1>15, PhaseFacts DEF DiskType, disk, Goto, Exit, BackupIntent,
         RecordPhase, Phase
    <2>2. ProcType'
      BY <1>15, LabelFacts DEF ProcType, Goto, Exit, BackupIntent
    <2>3. RunType'
      BY <1>15 DEF RunType, Unharmed, BackupIntent, RecordPhase
    <2>. QED
      BY <2>1, <2>2, <2>3
  <1>16. CASE BackupSkipped
    <2>1. DiskType'
      BY <1>16, PhaseFacts DEF DiskType, disk, Goto, Exit, BackupSkipped,
         RecordPhase, Phase
    <2>2. ProcType'
      BY <1>16, LabelFacts DEF ProcType, Goto, Exit, BackupSkipped
    <2>3. RunType'
      BY <1>16 DEF RunType, Unharmed, BackupSkipped, RecordPhase
    <2>. QED
      BY <2>1, <2>2, <2>3
  <1>17. CASE BackupRename
    <2>1. DiskType'
      BY <1>17 DEF DiskType, disk, Goto, Exit, BackupRename
    <2>2. ProcType'
      BY <1>17, LabelFacts DEF ProcType, Goto, Exit, BackupRename
    <2>3. RunType'
      BY <1>17 DEF RunType, Unharmed, BackupRename
    <2>. QED
      BY <2>1, <2>2, <2>3
  <1>18. CASE BackupRecorded
    <2>1. DiskType'
      BY <1>18, PhaseFacts DEF DiskType, disk, Goto, Exit, BackupRecorded,
         RecordPhase, Phase
    <2>2. ProcType'
      BY <1>18, LabelFacts DEF ProcType, Goto, Exit, BackupRecorded
    <2>3. RunType'
      BY <1>18 DEF RunType, Unharmed, BackupRecorded, RecordPhase
    <2>. QED
      BY <2>1, <2>2, <2>3
  <1>19. CASE InstallIntent
    <2>1. DiskType'
      BY <1>19, PhaseFacts DEF DiskType, disk, Goto, Exit, InstallIntent,
         RecordPhase, Phase
    <2>2. ProcType'
      BY <1>19, LabelFacts DEF ProcType, Goto, Exit, InstallIntent
    <2>3. RunType'
      BY <1>19 DEF RunType, Unharmed, InstallIntent, RecordPhase
    <2>. QED
      BY <2>1, <2>2, <2>3
  <1>20. CASE InstallRename
    <2>1. DiskType'
      BY <1>20 DEF DiskType, disk, Goto, Exit, InstallRename
    <2>2. ProcType'
      BY <1>20, LabelFacts DEF ProcType, Goto, Exit, InstallRename
    <2>3. RunType'
      BY <1>20 DEF RunType, Unharmed, InstallRename
    <2>. QED
      BY <2>1, <2>2, <2>3
  <1>21. CASE InstallRecorded
    <2>1. DiskType'
      BY <1>21, PhaseFacts DEF DiskType, disk, Goto, Exit, InstallRecorded,
         RecordPhase, Phase
    <2>2. ProcType'
      BY <1>21, LabelFacts DEF ProcType, Goto, Exit, InstallRecorded
    <2>3. RunType'
      BY <1>21 DEF RunType, Unharmed, InstallRecorded, RecordPhase
    <2>. QED
      BY <2>1, <2>2, <2>3
  <1>22. CASE PayloadValidated
    <2>1. DiskType'
      BY <1>22 DEF DiskType, disk, Goto, Exit, PayloadValidated
    <2>2. ProcType'
      BY <1>22, LabelFacts DEF ProcType, Goto, Exit, PayloadValidated
    <2>3. RunType'
      BY <1>22 DEF RunType, Unharmed, PayloadValidated
    <2>. QED
      BY <2>1, <2>2, <2>3
  <1>23. CASE WriteMarker
    <2>0. marker' \in Markers
      <3>1. journal.id \in Nat /\ release \in Nat /\ live \in [Path -> Object]
        BY DEF DiskType, RunType, Journals
      <3>2. marker' = [id |-> journal.id, release |-> release, seal |-> live]
        BY <1>23 DEF WriteMarker, NewMarker
      <3>. QED
        BY <3>1, <3>2, MarkerFacts
    <2>1. DiskType'
      BY <1>23, <2>0 DEF DiskType, WriteMarker
    <2>2. ProcType'
      BY <1>23, LabelFacts DEF ProcType, Goto, Exit, WriteMarker
    <2>3. RunType'
      BY <1>23 DEF RunType, Unharmed, WriteMarker
    <2>. QED
      BY <2>1, <2>2, <2>3
  <1>24. CASE WriteMarkerUnsynced
    <2>0. marker' \in Markers
      <3>1. journal.id \in Nat /\ release \in Nat /\ live \in [Path -> Object]
        BY DEF DiskType, RunType, Journals
      <3>2. marker' = [id |-> journal.id, release |-> release, seal |-> live]
        BY <1>24 DEF WriteMarkerUnsynced, NewMarker
      <3>. QED
        BY <3>1, <3>2, MarkerFacts
    <2>1. DiskType'
      BY <1>24, <2>0 DEF DiskType, WriteMarkerUnsynced
    <2>2. ProcType'
      BY <1>24, LabelFacts DEF ProcType, Goto, Exit, WriteMarkerUnsynced
    <2>3. RunType'
      BY <1>24 DEF RunType, Unharmed, WriteMarkerUnsynced
    <2>. QED
      BY <2>1, <2>2, <2>3
  <1>25. CASE MarkPublished
    <2>1. DiskType'
      BY <1>25 DEF DiskType, disk, Goto, Exit, MarkPublished, Journals
    <2>2. ProcType'
      BY <1>25, LabelFacts DEF ProcType, Goto, Exit, MarkPublished
    <2>3. RunType'
      BY <1>25 DEF RunType, Unharmed, MarkPublished
    <2>. QED
      BY <2>1, <2>2, <2>3
  <1>26. CASE SyncGameDir
    <2>1. DiskType'
      BY <1>26 DEF DiskType, disk, Goto, Exit, SyncGameDir
    <2>2. ProcType'
      BY <1>26, LabelFacts DEF ProcType, Goto, Exit, SyncGameDir
    <2>3. RunType'
      BY <1>26 DEF RunType, Unharmed, SyncGameDir
    <2>. QED
      BY <2>1, <2>2, <2>3
  <1>27. CASE CommitFails
    <2>1. DiskType'
      BY <1>27 DEF DiskType, disk, Goto, Exit, CommitFails
    <2>2. ProcType'
      BY <1>27, LabelFacts DEF ProcType, Goto, Exit, CommitFails
    <2>3. RunType'
      BY <1>27 DEF RunType, Unharmed, CommitFails
    <2>. QED
      BY <2>1, <2>2, <2>3
  <1>28. CASE RollbackUnstage
    <2>1. DiskType'
      BY <1>28 DEF DiskType, disk, Goto, Exit, RollbackUnstage
    <2>2. ProcType'
      BY <1>28, LabelFacts DEF ProcType, Goto, Exit, RollbackUnstage
    <2>3. RunType'
      BY <1>28 DEF RunType, Unharmed, RollbackUnstage
    <2>. QED
      BY <2>1, <2>2, <2>3
  <1>29. CASE RollbackRestore
    <2>1. DiskType'
      BY <1>29 DEF DiskType, disk, Goto, Exit, RollbackRestore
    <2>2. ProcType'
      BY <1>29, LabelFacts DEF ProcType, Goto, Exit, RollbackRestore
    <2>3. RunType'
      BY <1>29 DEF RunType, Unharmed, RollbackRestore
    <2>. QED
      BY <2>1, <2>2, <2>3
  <1>30. CASE RollbackKeep
    <2>1. DiskType'
      BY <1>30 DEF DiskType, disk, Goto, Exit, RollbackKeep
    <2>2. ProcType'
      BY <1>30, LabelFacts DEF ProcType, Goto, Exit, RollbackKeep
    <2>3. RunType'
      BY <1>30 DEF RunType, Unharmed, RollbackKeep
    <2>. QED
      BY <2>1, <2>2, <2>3
  <1>31. CASE RollbackDone
    <2>1. DiskType'
      BY <1>31, RecordFacts DEF DiskType, disk, Goto, Exit, RollbackDone
    <2>2. ProcType'
      BY <1>31, LabelFacts, ExitType DEF ProcType, RollbackDone
    <2>3. RunType'
      BY <1>31 DEF RunType, Unharmed, RollbackDone
    <2>. QED
      BY <2>1, <2>2, <2>3
  <1>32. CASE DiscardBackup
    <2>1. DiskType'
      BY <1>32 DEF DiskType, disk, Goto, Exit, DiscardBackup
    <2>2. ProcType'
      BY <1>32, LabelFacts DEF ProcType, Goto, Exit, DiscardBackup
    <2>3. RunType'
      BY <1>32 DEF RunType, Unharmed, DiscardBackup
    <2>. QED
      BY <2>1, <2>2, <2>3
  <1>33. CASE BackupDiscarded
    <2>1. DiskType'
      BY <1>33 DEF DiskType, disk, Goto, Exit, BackupDiscarded
    <2>2. ProcType'
      BY <1>33, LabelFacts DEF ProcType, Goto, Exit, BackupDiscarded
    <2>3. RunType'
      BY <1>33 DEF RunType, Unharmed, BackupDiscarded
    <2>. QED
      BY <2>1, <2>2, <2>3
  <1>34. CASE DiscardStage
    <2>1. DiskType'
      BY <1>34, RecordFacts DEF DiskType, disk, Goto, Exit, DiscardStage
    <2>2. ProcType'
      BY <1>34, LabelFacts DEF ProcType, Goto, Exit, DiscardStage
    <2>3. RunType'
      BY <1>34 DEF RunType, Unharmed, DiscardStage
    <2>. QED
      BY <2>1, <2>2, <2>3
  <1>35. CASE KeepScratch
    <2>1. DiskType'
      BY <1>35 DEF DiskType, disk, Goto, Exit, KeepScratch
    <2>2. ProcType'
      BY <1>35, LabelFacts DEF ProcType, Goto, Exit, KeepScratch
    <2>3. RunType'
      BY <1>35 DEF RunType, Unharmed, KeepScratch
    <2>. QED
      BY <2>1, <2>2, <2>3
  <1>36. CASE DiscardJournal
    <2>1. DiskType'
      BY <1>36, RecordFacts DEF DiskType, disk, Goto, Exit, DiscardJournal
    <2>2. ProcType'
      BY <1>36, LabelFacts DEF ProcType, Goto, Exit, DiscardJournal
    <2>3. RunType'
      BY <1>36 DEF RunType, Unharmed, DiscardJournal
    <2>. QED
      BY <2>1, <2>2, <2>3
  <1>37. CASE Finish
    <2>1. DiskType'
      BY <1>37 DEF DiskType, disk, Goto, Exit, Finish
    <2>2. ProcType'
      BY <1>37, ExitType DEF Finish
    <2>3. RunType'
      BY <1>37 DEF RunType, Unharmed, Finish
    <2>. QED
      BY <2>1, <2>2, <2>3
  <1>38. CASE Raise
    <2>1. DiskType'
      BY <1>38 DEF DiskType, disk, Goto, Exit, Raise
    <2>2. ProcType'
      BY <1>38, ExitType DEF Raise
    <2>3. RunType'
      BY <1>38 DEF RunType, Unharmed, Raise
    <2>. QED
      BY <2>1, <2>2, <2>3
  <1>39. CASE Crash
    <2>1. DiskType'
      BY <1>39 DEF DiskType, disk, Goto, Exit, Crash
    <2>2. ProcType'
      BY <1>39, ExitType DEF Crash
    <2>3. RunType'
      BY <1>39 DEF RunType, Unharmed, Crash
    <2>. QED
      BY <2>1, <2>2, <2>3
  <1>40. CASE Upgrade
    <2>1. DiskType'
      BY <1>40 DEF DiskType, disk, Goto, Exit, Upgrade
    <2>2. ProcType'
      BY <1>40, LabelFacts DEF ProcType, Goto, Exit, Upgrade
    <2>3. RunType'
      BY <1>40 DEF RunType, Unharmed, Upgrade
    <2>. QED
      BY <2>1, <2>2, <2>3
  <1>41. CASE UNCHANGED vars
    BY <1>41 DEF vars, proc, disk, DiskType, ProcType, RunType
  <1>. QED
    BY <1>1, <1>2, <1>3, <1>4, <1>5, <1>6, <1>7, <1>8, <1>9, <1>10, <1>11,
       <1>12, <1>13, <1>14, <1>15, <1>16, <1>17, <1>18, <1>19, <1>20, <1>21,
       <1>22, <1>23, <1>24, <1>25, <1>26, <1>27, <1>28, <1>29, <1>30, <1>31,
       <1>32, <1>33, <1>34, <1>35, <1>36, <1>37, <1>38, <1>39, <1>40, <1>41
    DEF Next, Extractor, Recover, Prepare, Commit, Rollback, Finalize, Mishap

\* Every variable of the transaction keeps to its type.
THEOREM TypeCorrect == Spec => []TypeOK
  BY InitType, NextType, PTL DEF Spec

-----------------------------------------------------------------------------
(* A backup is never orphaned *)

LEMMA InitBackup == Init => BackupInv
  BY DEF Init, BackupInv, BackupEmpty, CommitPc

LEMMA NextBackup == TypeOK /\ BackupInv /\ [Next]_vars => BackupInv'
  <1> SUFFICES ASSUME TypeOK, BackupInv, [Next]_vars PROVE BackupInv'
    OBVIOUS
  <1> USE DEF BackupInv, BackupEmpty, HasJournal, CommitPc, disk, Goto, Exit,
              Unharmed
  <1>1. CASE Start
    BY <1>1 DEF Start, TypeOK, RunType
  <1>2. CASE RecoverNothing
    BY <1>2 DEF RecoverNothing
  <1>3. CASE RecoverPublished
    BY <1>3 DEF RecoverPublished
  <1>4. CASE RecoverUnpublished
    BY <1>4 DEF RecoverUnpublished
  <1>5. CASE RecoverMisread
    BY <1>5 DEF RecoverMisread
  <1>6. CASE FastPath
    BY <1>6 DEF FastPath
  <1>7. CASE Adopt \/ AdoptMisread
    BY <1>7 DEF Adopt, AdoptMisread, AdoptLive
  <1>8. CASE ResumeStage
    BY <1>8 DEF ResumeStage, KeepSome
  <1>9. CASE ReadyMisread
    BY <1>9 DEF ReadyMisread, KeepSome
  <1>10. CASE ExtractItem
    BY <1>10 DEF ExtractItem
  <1>11. CASE StageValidated
    BY <1>11 DEF StageValidated
  <1>12. CASE StageRejected
    BY <1>12 DEF StageRejected
  <1>13. CASE CommitBegin
    BY <1>13 DEF CommitBegin, NoJournal, TypeOK, RunType
  <1>14. CASE EnterLoop
    BY <1>14 DEF EnterLoop
  <1>15. CASE BackupIntent
    BY <1>15 DEF BackupIntent, RecordPhase, TypeOK, DiskType, Journals
  <1>16. CASE BackupSkipped
    BY <1>16 DEF BackupSkipped, RecordPhase, TypeOK, DiskType, Journals
  <1>17. CASE BackupRename
    BY <1>17 DEF BackupRename
  <1>18. CASE BackupRecorded
    BY <1>18 DEF BackupRecorded, RecordPhase, TypeOK, DiskType, Journals
  <1>19. CASE InstallIntent
    BY <1>19 DEF InstallIntent, RecordPhase, TypeOK, DiskType, Journals
  <1>20. CASE InstallRename
    BY <1>20 DEF InstallRename
  <1>21. CASE InstallRecorded
    BY <1>21 DEF InstallRecorded, RecordPhase, TypeOK, DiskType, Journals
  <1>22. CASE PayloadValidated
    BY <1>22 DEF PayloadValidated
  <1>23. CASE WriteMarker
    BY <1>23 DEF WriteMarker
  <1>24. CASE WriteMarkerUnsynced
    BY <1>24 DEF WriteMarkerUnsynced
  <1>25. CASE MarkPublished
    BY <1>25 DEF MarkPublished, TypeOK, DiskType, Journals
  <1>26. CASE SyncGameDir
    BY <1>26 DEF SyncGameDir
  <1>27. CASE CommitFails
    BY <1>27 DEF CommitFails
  <1>28. CASE RollbackUnstage
    BY <1>28 DEF RollbackUnstage
  <1>29. CASE RollbackRestore
    BY <1>29 DEF RollbackRestore, TypeOK, DiskType, Nowhere
  <1>30. CASE RollbackKeep
    BY <1>30 DEF RollbackKeep
  <1>31. CASE RollbackDone
    BY <1>31 DEF RollbackDone
  <1>32. CASE DiscardBackup
    BY <1>32 DEF DiscardBackup, TypeOK, DiskType, Nowhere
  <1>33. CASE BackupDiscarded
    BY <1>33 DEF BackupDiscarded
  <1>34. CASE DiscardStage
    BY <1>34 DEF DiscardStage
  <1>35. CASE KeepScratch
    BY <1>35 DEF KeepScratch
  <1>36. CASE DiscardJournal
    BY <1>36 DEF DiscardJournal
  <1>37. CASE Finish
    BY <1>37 DEF Finish
  <1>38. CASE Raise
    BY <1>38 DEF Raise
  <1>39. CASE Crash
    BY <1>39 DEF Crash
  <1>40. CASE Upgrade
    BY <1>40 DEF Upgrade
  <1>41. CASE UNCHANGED vars
    BY <1>41 DEF vars, proc
  <1>. QED
    BY <1>1, <1>2, <1>3, <1>4, <1>5, <1>6, <1>7, <1>8, <1>9, <1>10, <1>11,
       <1>12, <1>13, <1>14, <1>15, <1>16, <1>17, <1>18, <1>19, <1>20, <1>21,
       <1>22, <1>23, <1>24, <1>25, <1>26, <1>27, <1>28, <1>29, <1>30, <1>31,
       <1>32, <1>33, <1>34, <1>35, <1>36, <1>37, <1>38, <1>39, <1>40, <1>41
    DEF Next, Extractor, Recover, Prepare, Commit, Rollback, Finalize, Mishap

\* A file of the old payload is in backup only while a journal tells how to
\* bring it back, whatever crashes, errors, misreadings and upgrades occur.
THEOREM BackupNeverOrphaned == Spec => []NoOrphanBackup
  <1>1. BackupInv => NoOrphanBackup
    BY DEF BackupInv, NoOrphanBackup
  <1>. QED
    BY <1>1, InitType, NextType, InitBackup, NextBackup, PTL DEF Spec

-----------------------------------------------------------------------------
(* The payload is never mixed and a rollback is never blocked, as long as   *)
(* one release stays installed and reading the payload back is reliable.    *)

\* The invariants read the journal's id and had_live only, not its phases.
LEMMA Frame ==
  ASSUME journal'.id = journal.id, journal'.had_live = journal.had_live,
         UNCHANGED <<live, stage, backup, marker, release>>
  PROVE  /\ HasJournal' = HasJournal
         /\ Published' = Published
         /\ Whole(marker.seal)' = Whole(marker.seal)
         /\ Whole(live)' = Whole(live)
         /\ Whole(Restored)' = Whole(Restored)
         /\ \A p \in Path : Undoable(p)' = Undoable(p)
  <1>1. HasJournal' = HasJournal
    BY DEF HasJournal
  <1>2. Published' = Published
    BY DEF Published, MarkerAccepts, MarkerMatches, ValidOutputs, Good
  <1>3. Restored' = Restored
    BY DEF Restored
  <1>4. \A p \in Path : Undoable(p)' = Undoable(p)
    BY DEF Undoable
  <1>. QED
    BY <1>1, <1>2, <1>3, <1>4 DEF Whole

LEMMA PhaseFrame ==
  ASSUME TypeOK, NEW phase, RecordPhase(phase)
  PROVE  /\ journal'.id = journal.id
         /\ journal'.had_live = journal.had_live
         /\ UNCHANGED <<live, stage, backup, marker, release>>
  BY DEF TypeOK, DiskType, Journals, RecordPhase, Unharmed

LEMMA InitInductive == Init => IInv
  <1> SUFFICES ASSUME Init PROVE IInv
    OBVIOUS
  <1>1. ~HasJournal /\ pc = "idle"
    BY DEF Init, HasJournal, NoJournal
  <1>2. StageInv
    BY <1>1 DEF Init, StageInv, Nowhere
  <1>3. Whole(live) /\ Whole(marker.seal)
    <2>1. \A p \in Path : live[p] <= Sound
      BY DEF Init
    <2>2. marker.seal = Nowhere
      BY DEF Init, NoMarker
    <2>. QED
      BY <2>1, <2>2 DEF Whole, Nowhere
  <1>4. WholeInv
    BY <1>1, <1>3 DEF WholeInv, Open
  <1>5. JournalInv /\ LoopInv /\ RollbackInv
    BY <1>1 DEF JournalInv, Open, LoopInv, LoopPc, RollbackInv, CommitPc,
                PublishedPc
  <1>. QED
    BY <1>2, <1>4, <1>5, InitBackup DEF IInv

\* The steps that move no file and write no marker.
LEMMA FrameSteps ==
  ASSUME TypeOK, IInv,
         \/ Start \/ RecoverNothing \/ RecoverPublished \/ RecoverUnpublished
         \/ FastPath \/ StageValidated \/ EnterLoop \/ PayloadValidated
         \/ SyncGameDir \/ CommitFails \/ RollbackKeep \/ BackupDiscarded
         \/ KeepScratch \/ Finish \/ Raise \/ Crash
         \/ BackupIntent \/ BackupSkipped \/ BackupRecorded \/ InstallIntent
         \/ InstallRecorded \/ MarkPublished \/ UNCHANGED vars
  PROVE  StageInv' /\ WholeInv' /\ JournalInv' /\ LoopInv' /\ RollbackInv'
  <1> USE DEF IInv, disk, Goto, Exit, Unharmed
  <1>1. CASE Start
    <2>1. /\ journal'.id = journal.id /\ journal'.had_live = journal.had_live
          /\ UNCHANGED <<live, stage, backup, marker, release>>
      BY <1>1 DEF Start
    <2>2. StageInv' /\ WholeInv' /\ JournalInv'
      BY <1>1, <2>1, Frame
      DEF Start, StageInv, WholeInv, JournalInv, Open, CommitPc, PublishedPc
    <2>3. LoopInv' /\ RollbackInv'
      BY <1>1, <2>1 DEF Start, LoopInv, RollbackInv, LoopPc, TypeOK, ProcType
    <2>. QED
      BY <2>2, <2>3
  <1>2. CASE RecoverNothing
    <2>1. /\ journal'.id = journal.id /\ journal'.had_live = journal.had_live
          /\ UNCHANGED <<live, stage, backup, marker, release>>
      BY <1>2 DEF RecoverNothing
    <2>2. StageInv' /\ WholeInv' /\ JournalInv'
      BY <1>2, <2>1, Frame
      DEF RecoverNothing, StageInv, WholeInv, JournalInv, Open, CommitPc,
          PublishedPc
    <2>3. LoopInv' /\ RollbackInv'
      BY <1>2, <2>1 DEF RecoverNothing, LoopInv, RollbackInv, LoopPc, TypeOK,
         ProcType
    <2>. QED
      BY <2>2, <2>3
  <1>3. CASE RecoverPublished
    <2>1. /\ journal'.id = journal.id /\ journal'.had_live = journal.had_live
          /\ UNCHANGED <<live, stage, backup, marker, release>>
      BY <1>3 DEF RecoverPublished
    <2>2. StageInv' /\ WholeInv' /\ JournalInv'
      BY <1>3, <2>1, Frame
      DEF RecoverPublished, Published, StageInv, WholeInv, JournalInv, Open,
          CommitPc, PublishedPc
    <2>3. LoopInv' /\ RollbackInv'
      BY <1>3, <2>1 DEF RecoverPublished, LoopInv, RollbackInv, LoopPc,
         TypeOK, ProcType
    <2>. QED
      BY <2>2, <2>3
  <1>4. CASE RecoverUnpublished
    <2>1. /\ journal'.id = journal.id /\ journal'.had_live = journal.had_live
          /\ UNCHANGED <<live, stage, backup, marker, release>>
      BY <1>4 DEF RecoverUnpublished
    <2>2. StageInv' /\ WholeInv' /\ JournalInv'
      BY <1>4, <2>1, Frame
      DEF RecoverUnpublished, Published, StageInv, WholeInv, JournalInv, Open,
          CommitPc, PublishedPc
    <2>3. LoopInv' /\ RollbackInv'
      BY <1>4, <2>1 DEF RecoverUnpublished, LoopInv, RollbackInv, LoopPc,
         TypeOK, ProcType
    <2>. QED
      BY <2>2, <2>3
  <1>5. CASE FastPath
    <2>1. /\ journal'.id = journal.id /\ journal'.had_live = journal.had_live
          /\ UNCHANGED <<live, stage, backup, marker, release>>
      BY <1>5 DEF FastPath
    <2>2. StageInv' /\ WholeInv' /\ JournalInv'
      BY <1>5, <2>1, Frame
      DEF FastPath, StageInv, WholeInv, JournalInv, Open, CommitPc, PublishedPc
    <2>3. LoopInv' /\ RollbackInv'
      BY <1>5, <2>1 DEF FastPath, LoopInv, RollbackInv, LoopPc, TypeOK, ProcType
    <2>. QED
      BY <2>2, <2>3
  <1>6. CASE StageValidated
    <2>1. /\ journal'.id = journal.id /\ journal'.had_live = journal.had_live
          /\ UNCHANGED <<live, stage, backup, marker, release>>
      BY <1>6 DEF StageValidated
    <2>2. StageInv' /\ WholeInv' /\ JournalInv'
      BY <1>6, <2>1, Frame
      DEF StageValidated, ValidOutputs, Good, StageInv, WholeInv, JournalInv,
          Open, CommitPc, PublishedPc
    <2>3. LoopInv' /\ RollbackInv'
      BY <1>6, <2>1 DEF StageValidated, LoopInv, RollbackInv, LoopPc, TypeOK,
         ProcType
    <2>. QED
      BY <2>2, <2>3
  <1>7. CASE EnterLoop
    <2>1. /\ journal'.id = journal.id /\ journal'.had_live = journal.had_live
          /\ UNCHANGED <<live, stage, backup, marker, release>>
      BY <1>7 DEF EnterLoop
    <2>2. StageInv' /\ WholeInv' /\ JournalInv'
      BY <1>7, <2>1, Frame
      DEF EnterLoop, StageInv, WholeInv, JournalInv, Open, CommitPc, PublishedPc
    <2>3. LoopInv' /\ RollbackInv'
      BY <1>7, <2>1 DEF EnterLoop, LoopInv, RollbackInv, LoopPc, TypeOK,
         ProcType
    <2>. QED
      BY <2>2, <2>3
  <1>8. CASE PayloadValidated
    <2>1. /\ journal'.id = journal.id /\ journal'.had_live = journal.had_live
          /\ UNCHANGED <<live, stage, backup, marker, release>>
      BY <1>8 DEF PayloadValidated
    <2>2. StageInv' /\ WholeInv' /\ JournalInv'
      BY <1>8, <2>1, Frame
      DEF PayloadValidated, StageInv, WholeInv, JournalInv, Open, CommitPc,
          PublishedPc
    <2>3. LoopInv' /\ RollbackInv'
      BY <1>8, <2>1 DEF PayloadValidated, LoopInv, RollbackInv, LoopPc,
         TypeOK, ProcType
    <2>. QED
      BY <2>2, <2>3
  <1>9. CASE SyncGameDir
    <2>1. /\ journal'.id = journal.id /\ journal'.had_live = journal.had_live
          /\ UNCHANGED <<live, stage, backup, marker, release>>
      BY <1>9 DEF SyncGameDir
    <2>2. StageInv' /\ WholeInv' /\ JournalInv'
      BY <1>9, <2>1, Frame
      DEF SyncGameDir, StageInv, WholeInv, JournalInv, Open, CommitPc,
          PublishedPc
    <2>3. LoopInv' /\ RollbackInv'
      BY <1>9, <2>1 DEF SyncGameDir, LoopInv, RollbackInv, LoopPc, TypeOK,
         ProcType
    <2>. QED
      BY <2>2, <2>3
  <1>10. CASE CommitFails
    <2>1. /\ journal'.id = journal.id /\ journal'.had_live = journal.had_live
          /\ UNCHANGED <<live, stage, backup, marker, release>>
      BY <1>10 DEF CommitFails
    <2>2. StageInv' /\ WholeInv' /\ JournalInv'
      BY <1>10, <2>1, Frame
      DEF CommitFails, StageInv, WholeInv, JournalInv, Open, CommitPc,
          PublishedPc
    <2>3. LoopInv' /\ RollbackInv'
      BY <1>10, <2>1 DEF CommitFails, LoopInv, RollbackInv, LoopPc, TypeOK,
         ProcType
    <2>. QED
      BY <2>2, <2>3
  <1>11. CASE RollbackKeep
    <2>1. /\ journal'.id = journal.id /\ journal'.had_live = journal.had_live
          /\ UNCHANGED <<live, stage, backup, marker, release>>
      BY <1>11 DEF RollbackKeep
    <2>2. StageInv' /\ WholeInv' /\ JournalInv'
      BY <1>11, <2>1, Frame
      DEF RollbackKeep, StageInv, WholeInv, JournalInv, Open, CommitPc,
          PublishedPc
    <2>3. LoopInv' /\ RollbackInv'
      BY <1>11, <2>1 DEF RollbackKeep, LoopInv, RollbackInv, LoopPc, TypeOK,
         ProcType
    <2>. QED
      BY <2>2, <2>3
  <1>12. CASE BackupDiscarded
    <2>1. /\ journal'.id = journal.id /\ journal'.had_live = journal.had_live
          /\ UNCHANGED <<live, stage, backup, marker, release>>
      BY <1>12 DEF BackupDiscarded
    <2>2. StageInv' /\ WholeInv' /\ JournalInv'
      BY <1>12, <2>1, Frame
      DEF BackupDiscarded, StageInv, WholeInv, JournalInv, Open, CommitPc,
          PublishedPc
    <2>3. LoopInv' /\ RollbackInv'
      BY <1>12, <2>1 DEF BackupDiscarded, LoopInv, RollbackInv, LoopPc,
         TypeOK, ProcType
    <2>. QED
      BY <2>2, <2>3
  <1>13. CASE KeepScratch
    <2>1. /\ journal'.id = journal.id /\ journal'.had_live = journal.had_live
          /\ UNCHANGED <<live, stage, backup, marker, release>>
      BY <1>13 DEF KeepScratch
    <2>2. StageInv' /\ WholeInv' /\ JournalInv'
      BY <1>13, <2>1, Frame
      DEF KeepScratch, StageInv, WholeInv, JournalInv, Open, CommitPc,
          PublishedPc
    <2>3. LoopInv' /\ RollbackInv'
      BY <1>13, <2>1 DEF KeepScratch, LoopInv, RollbackInv, LoopPc, TypeOK,
         ProcType
    <2>. QED
      BY <2>2, <2>3
  <1>14. CASE Finish
    <2>1. /\ journal'.id = journal.id /\ journal'.had_live = journal.had_live
          /\ UNCHANGED <<live, stage, backup, marker, release>>
      BY <1>14 DEF Finish
    <2>2. StageInv' /\ WholeInv' /\ JournalInv'
      BY <1>14, <2>1, Frame
      DEF Finish, StageInv, WholeInv, JournalInv, Open, CommitPc, PublishedPc
    <2>3. LoopInv' /\ RollbackInv'
      BY <1>14, <2>1 DEF Finish, LoopInv, RollbackInv, LoopPc, TypeOK, ProcType
    <2>. QED
      BY <2>2, <2>3
  <1>15. CASE Raise
    <2>1. /\ journal'.id = journal.id /\ journal'.had_live = journal.had_live
          /\ UNCHANGED <<live, stage, backup, marker, release>>
      BY <1>15 DEF Raise
    <2>2. StageInv' /\ WholeInv' /\ JournalInv'
      BY <1>15, <2>1, Frame
      DEF Raise, StageInv, WholeInv, JournalInv, Open, CommitPc, PublishedPc
    <2>3. LoopInv' /\ RollbackInv'
      BY <1>15, <2>1 DEF Raise, LoopInv, RollbackInv, LoopPc, TypeOK, ProcType
    <2>. QED
      BY <2>2, <2>3
  <1>16. CASE Crash
    <2>1. /\ journal'.id = journal.id /\ journal'.had_live = journal.had_live
          /\ UNCHANGED <<live, stage, backup, marker, release>>
      BY <1>16 DEF Crash
    <2>2. StageInv' /\ WholeInv' /\ JournalInv'
      BY <1>16, <2>1, Frame
      DEF Crash, StageInv, WholeInv, JournalInv, Open, CommitPc, PublishedPc
    <2>3. LoopInv' /\ RollbackInv'
      BY <1>16, <2>1 DEF Crash, LoopInv, RollbackInv, LoopPc, TypeOK, ProcType
    <2>. QED
      BY <2>2, <2>3
  <1>17. CASE BackupIntent
    <2>1. /\ journal'.id = journal.id /\ journal'.had_live = journal.had_live
          /\ UNCHANGED <<live, stage, backup, marker, release>>
      BY <1>17, PhaseFrame DEF BackupIntent
    <2>2. StageInv' /\ WholeInv' /\ JournalInv'
      BY <1>17, <2>1, Frame
      DEF BackupIntent, RecordPhase, StageInv, WholeInv, JournalInv, Open,
          CommitPc, PublishedPc
    <2>3. LoopInv' /\ RollbackInv'
      BY <1>17, <2>1 DEF BackupIntent, RecordPhase, LoopInv, RollbackInv,
         LoopPc, TypeOK, ProcType
    <2>. QED
      BY <2>2, <2>3
  <1>18. CASE BackupSkipped
    <2>1. /\ journal'.id = journal.id /\ journal'.had_live = journal.had_live
          /\ UNCHANGED <<live, stage, backup, marker, release>>
      BY <1>18, PhaseFrame DEF BackupSkipped
    <2>2. StageInv' /\ WholeInv' /\ JournalInv'
      BY <1>18, <2>1, Frame
      DEF BackupSkipped, RecordPhase, StageInv, WholeInv, JournalInv, Open,
          CommitPc, PublishedPc
    <2>3. LoopInv' /\ RollbackInv'
      BY <1>18, <2>1 DEF BackupSkipped, RecordPhase, LoopInv, RollbackInv,
         LoopPc, TypeOK, ProcType
    <2>. QED
      BY <2>2, <2>3
  <1>19. CASE BackupRecorded
    <2>1. /\ journal'.id = journal.id /\ journal'.had_live = journal.had_live
          /\ UNCHANGED <<live, stage, backup, marker, release>>
      BY <1>19, PhaseFrame DEF BackupRecorded
    <2>2. StageInv' /\ WholeInv' /\ JournalInv'
      BY <1>19, <2>1, Frame
      DEF BackupRecorded, RecordPhase, StageInv, WholeInv, JournalInv, Open,
          CommitPc, PublishedPc
    <2>3. LoopInv' /\ RollbackInv'
      BY <1>19, <2>1 DEF BackupRecorded, RecordPhase, LoopInv, RollbackInv,
         LoopPc, TypeOK, ProcType
    <2>. QED
      BY <2>2, <2>3
  <1>20. CASE InstallIntent
    <2>1. /\ journal'.id = journal.id /\ journal'.had_live = journal.had_live
          /\ UNCHANGED <<live, stage, backup, marker, release>>
      BY <1>20, PhaseFrame DEF InstallIntent
    <2>2. StageInv' /\ WholeInv' /\ JournalInv'
      BY <1>20, <2>1, Frame
      DEF InstallIntent, RecordPhase, StageInv, WholeInv, JournalInv, Open,
          CommitPc, PublishedPc
    <2>3. LoopInv' /\ RollbackInv'
      BY <1>20, <2>1 DEF InstallIntent, RecordPhase, LoopInv, RollbackInv,
         LoopPc, TypeOK, ProcType
    <2>. QED
      BY <2>2, <2>3
  <1>21. CASE InstallRecorded
    <2>1. /\ journal'.id = journal.id /\ journal'.had_live = journal.had_live
          /\ UNCHANGED <<live, stage, backup, marker, release>>
      BY <1>21, PhaseFrame DEF InstallRecorded
    <2>2. StageInv' /\ WholeInv' /\ JournalInv'
      BY <1>21, <2>1, Frame
      DEF InstallRecorded, RecordPhase, StageInv, WholeInv, JournalInv, Open,
          CommitPc, PublishedPc
    <2>3. LoopInv' /\ RollbackInv'
      BY <1>21, <2>1 DEF InstallRecorded, RecordPhase, LoopInv, RollbackInv,
         LoopPc, TypeOK, ProcType
    <2>. QED
      BY <2>2, <2>3
  <1>22. CASE MarkPublished
    <2>1. /\ journal'.id = journal.id /\ journal'.had_live = journal.had_live
          /\ UNCHANGED <<live, stage, backup, marker, release>>
      BY <1>22 DEF MarkPublished, TypeOK, DiskType, Journals
    <2>2. StageInv' /\ WholeInv' /\ JournalInv'
      BY <1>22, <2>1, Frame
      DEF MarkPublished, StageInv, WholeInv, JournalInv, Open, CommitPc,
          PublishedPc
    <2>3. LoopInv' /\ RollbackInv'
      BY <1>22, <2>1 DEF MarkPublished, LoopInv, RollbackInv, LoopPc, TypeOK,
         ProcType
    <2>. QED
      BY <2>2, <2>3
  <1>23. CASE UNCHANGED vars
    BY <1>23, Frame
    DEF vars, proc, StageInv, WholeInv, JournalInv, LoopInv, RollbackInv,
        Open, CommitPc, LoopPc, PublishedPc
  <1>. QED
    BY <1>1, <1>2, <1>3, <1>4, <1>5, <1>6, <1>7, <1>8, <1>9, <1>10, <1>11,
       <1>12, <1>13, <1>14, <1>15, <1>16, <1>17, <1>18, <1>19, <1>20, <1>21,
       <1>22, <1>23

\* Extraction and adoption: the game directory and the journal stay as they
\* are, and no transaction is open.
LEMMA PrepareSteps ==
  ASSUME TypeOK, IInv,
         Adopt \/ ResumeStage \/ ExtractItem \/ StageRejected
  PROVE  StageInv' /\ WholeInv' /\ JournalInv' /\ LoopInv' /\ RollbackInv'
  <1> USE DEF IInv, Goto, Exit, Unharmed
  <1>1. /\ HasJournal' = HasJournal /\ Whole(live)' = Whole(live)
        /\ pc \in {"ready", "extract"} /\ pc' \in {"finished", "extract", "idle"}
        /\ UNCHANGED <<live, backup, journal, release>>
    BY DEF Adopt, AdoptLive, ResumeStage, ExtractItem, StageRejected, KeepSome,
           HasJournal, Whole
  <1>2. HasJournal => Published
    BY <1>1 DEF JournalInv, CommitPc
  <1>3. LoopInv' /\ RollbackInv'
    BY <1>1 DEF LoopInv, RollbackInv, LoopPc
  <1>4. CASE Adopt
    <2>1. ~HasJournal
      BY <1>2, <1>4 DEF Adopt, AdoptLive, Published
    <2>2. marker'.seal = live /\ UNCHANGED stage
      BY <1>4 DEF Adopt, AdoptLive
    <2>3. StageInv' /\ JournalInv' /\ WholeInv'
      BY <1>1, <2>1, <2>2
      DEF StageInv, JournalInv, WholeInv, Whole, Open, CommitPc, PublishedPc
    <2>. QED
      BY <1>3, <2>3
  <1>5. CASE ResumeStage \/ ExtractItem \/ StageRejected
    <2>1. UNCHANGED marker
      BY <1>5 DEF ResumeStage, ExtractItem, StageRejected, KeepSome
    <2>2. Published' = Published
      BY <1>1, <2>1
      DEF Published, MarkerAccepts, MarkerMatches, ValidOutputs, Good
    <2>3. JournalInv' /\ WholeInv'
      BY <1>1, <1>2, <2>1, <2>2
      DEF JournalInv, WholeInv, Whole, Open, CommitPc, PublishedPc
    <2>4. StageInv'
      <3>1. pc' # "commit"
        BY <1>1
      <3>2. CASE ResumeStage
        BY <3>1, <3>2 DEF StageInv, ResumeStage, KeepSome
      <3>3. CASE ExtractItem
        <4>1. PICK p \in Path : stage' = [stage EXCEPT ![p] = Extracted(run)]
          BY <3>3 DEF ExtractItem
        <4>2. pc = "extract" /\ stage \in [Path -> Object]
          BY <3>3 DEF ExtractItem, TypeOK, DiskType
        <4>3. Extracted(run) > Sound
          BY <4>2 DEF BackupInv, Extracted, Sound, TypeOK, RunType
        <4>4. \A q \in Path : stage'[q] = NoFile \/ stage'[q] > Sound
          BY <4>1, <4>2, <4>3 DEF StageInv
        <4>. QED
          BY <3>1, <4>4 DEF StageInv
      <3>4. CASE StageRejected
        BY <3>1, <3>4 DEF StageInv, StageRejected, Nowhere
      <3>. QED
        BY <1>5, <3>2, <3>3, <3>4
    <2>. QED
      BY <1>3, <2>3, <2>4
  <1>. QED
    BY <1>4, <1>5

LEMMA CommitBeginStep ==
  ASSUME TypeOK, IInv, CommitBegin
  PROVE  StageInv' /\ WholeInv' /\ JournalInv' /\ LoopInv' /\ RollbackInv'
  <1> USE DEF IInv, Goto, Unharmed
  <1>1. /\ pc = "commit" /\ pc' = "created" /\ ~HasJournal
        /\ UNCHANGED <<live, stage, backup, marker>>
        /\ backup = Nowhere
    BY DEF CommitBegin, BackupEmpty
  <1>2. /\ journal'.had_live = [p \in Path |-> live[p] # NoFile]
        /\ journal'.id = run
    BY DEF CommitBegin, NoJournal
  <1>3. HasJournal'
    BY <1>1, <1>2 DEF HasJournal, BackupInv
  <1>4. \A p \in Path : Undoable(p)'
    BY <1>1, <1>2 DEF Undoable, StageInv, Nowhere
  <1>5. \A p \in Path : Restored'[p] = live[p]
    BY <1>1, <1>2 DEF Restored, Nowhere, TypeOK, DiskType
  <1>6. Whole(Restored)' /\ Whole(marker.seal)'
    BY <1>1, <1>5 DEF Whole, WholeInv
  <1>7. StageInv' /\ WholeInv' /\ JournalInv'
    BY <1>1, <1>3, <1>4, <1>6
    DEF StageInv, WholeInv, JournalInv, CommitPc, PublishedPc
  <1>8. LoopInv' /\ RollbackInv'
    BY <1>1 DEF LoopInv, RollbackInv, LoopPc
  <1>. QED
    BY <1>7, <1>8

\* The two renames of commit_stage and those of rollback_transaction keep the
\* journal and what would be restored.
LEMMA MoveFrame ==
  ASSUME TypeOK, IInv, UNCHANGED <<journal, marker>>,
         HasJournal, pc' \in CommitPc \cup {"rollback"},
         StageInv', LoopInv', RollbackInv',
         \A p \in Path : Undoable(p)',
         \A p \in Path : Restored'[p] = Restored[p],
         pc \in CommitPc \cup {"rollback"}
  PROVE  StageInv' /\ WholeInv' /\ JournalInv' /\ LoopInv' /\ RollbackInv'
  <1>1. HasJournal' /\ Whole(marker.seal)' = Whole(marker.seal)
    BY DEF HasJournal, Whole
  <1>2. Whole(Restored)'
    BY DEF IInv, WholeInv, Open, Whole
  <1>3. WholeInv' /\ JournalInv'
    BY <1>1, <1>2 DEF IInv, WholeInv, JournalInv, CommitPc, PublishedPc
  <1>. QED
    BY <1>3

LEMMA BackupRenameStep ==
  ASSUME TypeOK, IInv, BackupRename
  PROVE  StageInv' /\ WholeInv' /\ JournalInv' /\ LoopInv' /\ RollbackInv'
  <1> USE DEF IInv, Goto, Unharmed
  <1>1. /\ pc = "move-out" /\ pc' = "moved-out" /\ UNCHANGED <<stage, journal, marker, i>>
        /\ live[i] # NoFile /\ backup[i] = NoFile
        /\ backup' = [backup EXCEPT ![i] = live[i]]
        /\ live' = [live EXCEPT ![i] = NoFile]
    BY DEF BackupRename
  <1>2. i \in Path /\ journal.had_live[i] /\ HasJournal
    BY <1>1 DEF LoopInv, LoopPc, JournalInv, CommitPc
  <1>3. \A p \in Path : Undoable(p)
    BY <1>1, <1>2 DEF JournalInv, Open, CommitPc
  <1>4. \A p \in Path : Undoable(p)'
    BY <1>1, <1>2, <1>3 DEF Undoable, TypeOK, DiskType
  <1>5. \A p \in Path : Restored'[p] = Restored[p]
    BY <1>1, <1>2 DEF Restored, TypeOK, DiskType
  <1>6. StageInv' /\ LoopInv' /\ RollbackInv'
    BY <1>1, <1>2 DEF StageInv, LoopInv, LoopPc, RollbackInv, TypeOK, DiskType
  <1>. QED
    BY <1>1, <1>2, <1>4, <1>5, <1>6, MoveFrame DEF CommitPc

LEMMA InstallRenameStep ==
  ASSUME TypeOK, IInv, InstallRename
  PROVE  StageInv' /\ WholeInv' /\ JournalInv' /\ LoopInv' /\ RollbackInv'
  <1> USE DEF IInv, Goto, Unharmed
  <1>1. /\ pc = "move-in" /\ pc' = "moved-in" /\ UNCHANGED <<backup, journal, marker, i>>
        /\ stage[i] # NoFile /\ live[i] = NoFile
        /\ live' = [live EXCEPT ![i] = stage[i]]
        /\ stage' = [stage EXCEPT ![i] = NoFile]
    BY DEF InstallRename
  <1>2. i \in Path /\ HasJournal /\ stage[i] > Sound
    BY <1>1 DEF LoopInv, LoopPc, JournalInv, CommitPc, StageInv
  <1>3. \A p \in Path : Undoable(p)
    BY <1>1, <1>2 DEF JournalInv, Open, CommitPc
  <1>4. \A p \in Path : Undoable(p)'
    BY <1>1, <1>2, <1>3 DEF Undoable, TypeOK, DiskType
  <1>5. \A p \in Path : Restored'[p] = Restored[p]
    BY <1>1, <1>2, <1>3 DEF Restored, Undoable, TypeOK, DiskType
  <1>6. StageInv' /\ LoopInv' /\ RollbackInv'
    BY <1>1, <1>2 DEF StageInv, LoopInv, LoopPc, RollbackInv, TypeOK, DiskType
  <1>. QED
    BY <1>1, <1>2, <1>4, <1>5, <1>6, MoveFrame DEF CommitPc

LEMMA WriteMarkerSteps ==
  ASSUME TypeOK, IInv, WriteMarker \/ WriteMarkerUnsynced
  PROVE  StageInv' /\ WholeInv' /\ JournalInv' /\ LoopInv' /\ RollbackInv'
  <1> USE DEF IInv, Goto, Unharmed
  <1>1. /\ pc = "publish" /\ UNCHANGED <<live, stage, backup, journal, release>>
        /\ marker'.id = journal.id /\ marker'.release = release
        /\ marker'.seal = live
    BY DEF WriteMarker, WriteMarkerUnsynced, NewMarker
  <1>2. HasJournal /\ HasJournal' /\ \A q \in Path : live[q] > Sound
    BY <1>1 DEF HasJournal, JournalInv, CommitPc, LoopInv
  <1>3. (\A p \in Path : Undoable(p)) /\ Whole(Restored)
    BY <1>1, <1>2 DEF JournalInv, WholeInv, Open, CommitPc
  <1>4. /\ \A p \in Path : Undoable(p)' = Undoable(p)
        /\ Restored' = Restored
    BY <1>1 DEF Undoable, Restored
  <1>5. Whole(marker.seal)' /\ Whole(Restored)'
    BY <1>1, <1>2, <1>3, <1>4 DEF Whole
  <1>6. Published'
    <2>1. ValidOutputs(live)'
      BY <1>1, <1>2 DEF ValidOutputs, Good, TypeOK, DiskType
    <2>. QED
      BY <1>1, <1>2, <2>1 DEF Published, MarkerAccepts, MarkerMatches,
         HasJournal
  <1>7. pc' \in {"published", "rollback"} /\ (pc' = "rollback" => i' = N)
    BY DEF WriteMarker, WriteMarkerUnsynced
  <1>8. StageInv' /\ LoopInv' /\ RollbackInv'
    BY <1>1, <1>7 DEF StageInv, LoopInv, LoopPc, RollbackInv
  <1>9. WholeInv' /\ JournalInv'
    BY <1>2, <1>3, <1>4, <1>5, <1>6, <1>7
    DEF WholeInv, JournalInv, CommitPc, PublishedPc
  <1>. QED
    BY <1>8, <1>9

LEMMA RollbackMoveSteps ==
  ASSUME TypeOK, IInv, RollbackUnstage \/ RollbackRestore
  PROVE  StageInv' /\ WholeInv' /\ JournalInv' /\ LoopInv' /\ RollbackInv'
  <1> USE DEF IInv, Goto, Unharmed
  <1>1. /\ pc = "rollback" /\ pc' = "rollback" /\ UNCHANGED <<journal, marker>>
        /\ i > 0 /\ i \in Path
    BY DEF RollbackUnstage, RollbackRestore, TypeOK, ProcType
  <1>2. HasJournal /\ \A p \in Path : Undoable(p)
    BY <1>1 DEF JournalInv, Open, CommitPc
  <1>3. CASE RollbackUnstage
    <2>1. /\ live[i] # NoFile /\ stage[i] = NoFile
          /\ journal.had_live[i] <=> backup[i] # NoFile
          /\ stage' = [stage EXCEPT ![i] = live[i]]
          /\ live' = [live EXCEPT ![i] = NoFile]
          /\ UNCHANGED <<backup, i>>
      BY <1>3 DEF RollbackUnstage
    <2>2. live[i] > Sound
      BY <1>1, <1>2, <2>1 DEF Undoable
    <2>3. \A p \in Path : Undoable(p)'
      BY <1>1, <1>2, <2>1, <2>2 DEF Undoable, TypeOK, DiskType
    <2>4. \A p \in Path : Restored'[p] = Restored[p]
      BY <1>1, <2>1 DEF Restored, TypeOK, DiskType
    <2>5. StageInv' /\ LoopInv' /\ RollbackInv'
      BY <1>1, <2>1, <2>2
      DEF StageInv, LoopInv, LoopPc, RollbackInv, TypeOK, DiskType
    <2>. QED
      BY <1>1, <1>2, <2>3, <2>4, <2>5, MoveFrame
  <1>4. CASE RollbackRestore
    <2>1. /\ journal.had_live[i] /\ backup[i] # NoFile /\ live[i] = NoFile
          /\ live' = [live EXCEPT ![i] = backup[i]]
          /\ backup' = [backup EXCEPT ![i] = NoFile]
          /\ i' = i - 1 /\ UNCHANGED stage
      BY <1>4 DEF RollbackRestore
    <2>2. stage[i] # NoFile
      BY <1>1, <1>2, <2>1 DEF Undoable
    <2>3. \A p \in Path : Undoable(p)'
      BY <1>1, <1>2, <2>1, <2>2 DEF Undoable, TypeOK, DiskType
    <2>4. \A p \in Path : Restored'[p] = Restored[p]
      BY <1>1, <2>1 DEF Restored, TypeOK, DiskType
    <2>5. StageInv' /\ LoopInv'
      BY <1>1, <2>1 DEF StageInv, LoopInv, LoopPc
    <2>6. RollbackInv'
      <3>1. ASSUME NEW p \in Path, p > i - 1
            PROVE  backup'[p] = NoFile /\ (~journal.had_live[p] => live'[p] = NoFile)
        <4>1. p = i \/ p > i
          BY <1>1, <3>1
        <4>. QED
          BY <1>1, <2>1, <4>1 DEF RollbackInv, TypeOK, DiskType
      <3>. QED
        BY <1>1, <2>1, <3>1 DEF RollbackInv
    <2>. QED
      BY <1>1, <1>2, <2>3, <2>4, <2>5, <2>6, MoveFrame
  <1>. QED
    BY <1>3, <1>4

LEMMA RollbackDoneStep ==
  ASSUME TypeOK, IInv, RollbackDone
  PROVE  StageInv' /\ WholeInv' /\ JournalInv' /\ LoopInv' /\ RollbackInv'
  <1> USE DEF IInv, Exit, Unharmed
  <1>1. /\ pc = "rollback" /\ i = 0 /\ backup = Nowhere
        /\ pc' \in {"ready", "idle"} /\ ~(HasJournal')
        /\ UNCHANGED <<live, stage, marker>>
    BY DEF RollbackDone, BackupEmpty, HasJournal, NoJournal
  <1>2. Whole(Restored)
    BY <1>1 DEF WholeInv, JournalInv, Open
  <1>3. \A p \in Path : Restored[p] = live[p]
    BY <1>1 DEF Restored, RollbackInv, Nowhere
  <1>4. Whole(live)' /\ Whole(marker.seal)'
    BY <1>1, <1>2, <1>3 DEF Whole, WholeInv
  <1>. QED
    BY <1>1, <1>4
    DEF StageInv, WholeInv, JournalInv, Open, LoopInv, LoopPc, RollbackInv,
        CommitPc, PublishedPc

LEMMA DiscardSteps ==
  ASSUME TypeOK, IInv, DiscardBackup \/ DiscardStage \/ DiscardJournal
  PROVE  StageInv' /\ WholeInv' /\ JournalInv' /\ LoopInv' /\ RollbackInv'
  <1> USE DEF IInv, Goto, Unharmed
  <1>1. /\ pc \in {"discard-backup", "discard-stage", "discard-journal"}
        /\ pc' \in {"discard-backup", "discard-journal", "ready", "finished"}
        /\ UNCHANGED <<live, marker, release>>
    BY DEF DiscardBackup, DiscardStage, DiscardJournal
  <1>2. HasJournal /\ Published /\ Whole(marker.seal)
    BY <1>1 DEF JournalInv, WholeInv, CommitPc, PublishedPc
  <1>3. Whole(live)
    BY <1>2 DEF Published, MarkerAccepts
  <1>4. Whole(live)' /\ Whole(marker.seal)'
    BY <1>1, <1>2, <1>3 DEF Whole
  <1>5. HasJournal' => Published'
    BY <1>1, <1>2
    DEF DiscardBackup, DiscardStage, DiscardJournal, NoJournal, HasJournal,
        Published, MarkerAccepts, MarkerMatches, ValidOutputs, Good
  <1>6. pc' \in {"discard-backup", "discard-journal"} => HasJournal'
    BY <1>2 DEF DiscardBackup, DiscardStage, DiscardJournal, HasJournal
  <1>7. StageInv'
    BY <1>1 DEF StageInv, DiscardBackup, DiscardStage, DiscardJournal, Nowhere
  <1>8. WholeInv' /\ JournalInv'
    BY <1>1, <1>4, <1>5, <1>6
    DEF WholeInv, JournalInv, Open, CommitPc, PublishedPc
  <1>9. LoopInv' /\ RollbackInv'
    BY <1>1 DEF LoopInv, LoopPc, RollbackInv
  <1>. QED
    BY <1>7, <1>8, <1>9

\* One release and reliable reads: no Upgrade and no misreading.
Calm == MaxRelease = 1 /\ ~TransientReads

LEMMA NextInductive ==
  ASSUME Calm, TypeOK, IInv, [Next]_vars
  PROVE  IInv'
  <1>1. ~Upgrade /\ ~RecoverMisread /\ ~AdoptMisread /\ ~ReadyMisread
    BY DEF Calm, Upgrade, RecoverMisread, AdoptMisread, ReadyMisread, TypeOK, RunType
  <1>2. StageInv' /\ WholeInv' /\ JournalInv' /\ LoopInv' /\ RollbackInv'
    BY <1>1, FrameSteps, PrepareSteps, CommitBeginStep, BackupRenameStep,
       InstallRenameStep, WriteMarkerSteps, RollbackMoveSteps,
       RollbackDoneStep, DiscardSteps
    DEF Next, Extractor, Recover, Prepare, Commit, Rollback, Finalize, Mishap
  <1>3. BackupInv'
    BY NextBackup DEF IInv
  <1>. QED
    BY <1>2, <1>3 DEF IInv

LEMMA Inductive == ASSUME Calm PROVE Spec => [](TypeOK /\ IInv)
  <1>1. Init => TypeOK /\ IInv
    BY InitType, InitInductive
  <1>2. TypeOK /\ IInv /\ [Next]_vars => (TypeOK /\ IInv)'
    BY NextType, NextInductive
  <1>. QED
    BY <1>1, <1>2, PTL DEF Spec

\* While one release stays installed and the payload can be read back, the
\* payload a launch may rely on never mixes old and extracted data.
THEOREM PayloadNeverMixed == ASSUME Calm PROVE Spec => []NeverMixed
  <1>1. IInv => NeverMixed
    <2> SUFFICES ASSUME IInv PROVE Whole(Payload)
      BY DEF NeverMixed
    <2>1. CASE Undone
      BY <2>1 DEF IInv, WholeInv, Open, Undone, Payload
    <2>2. CASE ~Undone /\ ~HasJournal
      BY <2>2 DEF IInv, WholeInv, Payload
    <2>3. CASE ~Undone /\ HasJournal
      BY <2>3 DEF IInv, WholeInv, Undone, Payload, Published, MarkerAccepts
    <2>. QED
      BY <2>1, <2>2, <2>3
  <1>. QED
    BY <1>1, Inductive, PTL

\* Under the same condition no sequence of crashes and errors leaves a path in
\* a state on which rollback_transaction gives up.
THEOREM RollbackAlwaysPossible == ASSUME Calm PROVE Spec => []RollbackNeverBlocked
  <1>1. TypeOK /\ IInv => RollbackNeverBlocked
    <2> SUFFICES ASSUME TypeOK, IInv, pc = "rollback" PROVE ~RollbackBlocked
      BY DEF RollbackNeverBlocked
    <2>1. CASE i = 0
      <3>1. \A p \in Path : backup[p] = NoFile
        BY <2>1 DEF IInv, RollbackInv
      <3>2. backup = Nowhere
        BY <3>1 DEF Nowhere, TypeOK, DiskType
      <3>. QED
        BY <2>1, <3>2 DEF RollbackBlocked, BackupEmpty
    <2>2. CASE i # 0
      <3>1. i \in Path
        BY <2>2 DEF TypeOK, ProcType
      <3>2. Undoable(i)
        BY <3>1 DEF IInv, JournalInv, Open
      <3>. QED
        BY <2>2, <3>2 DEF RollbackBlocked, Undoable
    <2>. QED
      BY <2>1, <2>2
  <1>. QED
    BY <1>1, Inductive, PTL

-----------------------------------------------------------------------------
(* What a status of 0 means, and when the old payload may go *)

\* Whether a marker vouches for the payload depends on these alone.
LEMMA CertFrame ==
  ASSUME UNCHANGED <<live, marker, release>>, journal'.id = journal.id
  PROVE  /\ HasJournal' = HasJournal
         /\ Published' = Published
         /\ MarkerAccepts' = MarkerAccepts
         /\ ValidOutputs(live)' = ValidOutputs(live)
  BY DEF HasJournal, Published, MarkerAccepts, MarkerMatches, ValidOutputs, Good

\* A marker written over a valid payload vouches for it.
LEMMA MarkerSound ==
  ASSUME ValidOutputs(live), UNCHANGED <<live, release>>,
         marker'.id # 0, marker'.release = release, marker'.seal = live
  PROVE  MarkerAccepts'
  BY DEF MarkerAccepts, MarkerMatches, ValidOutputs, Good

LEMMA InitCert == Init => CertInv
  BY DEF Init, CertInv, PublishedPc

LEMMA NextCert == TypeOK /\ BackupInv /\ CertInv /\ [Next]_vars => CertInv'
  <1> SUFFICES ASSUME TypeOK, BackupInv, CertInv, [Next]_vars PROVE CertInv'
    OBVIOUS
  <1> USE DEF CertInv, PublishedPc, disk, Goto, Exit, Unharmed
  <1>1. CASE Start
    BY <1>1, CertFrame DEF Start
  <1>2. CASE RecoverNothing
    BY <1>2, CertFrame DEF RecoverNothing
  <1>3. CASE RecoverPublished
    BY <1>3, CertFrame DEF RecoverPublished, Published
  <1>4. CASE RecoverUnpublished
    BY <1>4, CertFrame DEF RecoverUnpublished
  <1>5. CASE RecoverMisread
    BY <1>5, CertFrame DEF RecoverMisread
  <1>6. CASE FastPath
    BY <1>6, CertFrame DEF FastPath
  <1>7. CASE Adopt \/ AdoptMisread
    <2>1. run # 0 /\ ValidOutputs(live)
      BY <1>7 DEF Adopt, AdoptMisread, MarkerAccepts, BackupInv, TypeOK, RunType
    <2>2. /\ marker'.id = run /\ marker'.release = release
          /\ marker'.seal = live /\ UNCHANGED <<live, release>>
      BY <1>7 DEF Adopt, AdoptMisread, AdoptLive
    <2>3. MarkerAccepts'
      BY <2>1, <2>2, MarkerSound
    <2>. QED
      BY <1>7, <2>3 DEF Adopt, AdoptMisread, AdoptLive
  <1>8. CASE ResumeStage
    BY <1>8, CertFrame DEF ResumeStage, KeepSome
  <1>9. CASE ReadyMisread
    BY <1>9, CertFrame DEF ReadyMisread, KeepSome
  <1>10. CASE ExtractItem
    BY <1>10, CertFrame DEF ExtractItem
  <1>11. CASE StageValidated
    BY <1>11, CertFrame DEF StageValidated
  <1>12. CASE StageRejected
    BY <1>12, CertFrame DEF StageRejected
  <1>13. CASE CommitBegin
    BY <1>13 DEF CommitBegin
  <1>14. CASE EnterLoop
    BY <1>14, CertFrame DEF EnterLoop
  <1>15. CASE BackupIntent
    BY <1>15, PhaseFrame, CertFrame DEF BackupIntent, RecordPhase
  <1>16. CASE BackupSkipped
    BY <1>16, PhaseFrame, CertFrame DEF BackupSkipped, RecordPhase
  <1>17. CASE BackupRename
    BY <1>17 DEF BackupRename
  <1>18. CASE BackupRecorded
    BY <1>18, PhaseFrame, CertFrame DEF BackupRecorded, RecordPhase
  <1>19. CASE InstallIntent
    BY <1>19, PhaseFrame, CertFrame DEF InstallIntent, RecordPhase
  <1>20. CASE InstallRename
    BY <1>20 DEF InstallRename
  <1>21. CASE InstallRecorded
    BY <1>21, PhaseFrame, CertFrame DEF InstallRecorded, RecordPhase
  <1>22. CASE PayloadValidated
    BY <1>22, CertFrame DEF PayloadValidated
  <1>23. CASE WriteMarker
    <2>1. ValidOutputs(live) /\ HasJournal
      BY <1>23 DEF WriteMarker, BackupInv, CommitPc
    <2>2. /\ marker'.id = journal.id /\ marker'.release = release
          /\ marker'.seal = live /\ UNCHANGED <<live, release, journal>>
      BY <1>23 DEF WriteMarker, NewMarker
    <2>3. MarkerAccepts' /\ HasJournal' /\ Published'
      BY <2>1, <2>2, MarkerSound DEF HasJournal, Published
    <2>. QED
      BY <1>23, <2>3 DEF WriteMarker
  <1>24. CASE WriteMarkerUnsynced
    BY <1>24 DEF WriteMarkerUnsynced
  <1>25. CASE MarkPublished
    <2>1. UNCHANGED <<live, marker, release>> /\ journal'.id = journal.id
      BY <1>25 DEF MarkPublished, TypeOK, DiskType, Journals
    <2>. QED
      BY <1>25, <2>1, CertFrame DEF MarkPublished
  <1>26. CASE SyncGameDir
    BY <1>26, CertFrame DEF SyncGameDir
  <1>27. CASE CommitFails
    BY <1>27, CertFrame DEF CommitFails
  <1>28. CASE RollbackUnstage
    BY <1>28 DEF RollbackUnstage
  <1>29. CASE RollbackRestore
    BY <1>29 DEF RollbackRestore
  <1>30. CASE RollbackKeep
    BY <1>30, CertFrame DEF RollbackKeep
  <1>31. CASE RollbackDone
    BY <1>31 DEF RollbackDone
  <1>32. CASE DiscardBackup
    BY <1>32, CertFrame DEF DiscardBackup
  <1>33. CASE BackupDiscarded
    BY <1>33, CertFrame DEF BackupDiscarded
  <1>34. CASE DiscardStage
    BY <1>34, CertFrame DEF DiscardStage
  <1>35. CASE KeepScratch
    BY <1>35, CertFrame DEF KeepScratch
  <1>36. CASE DiscardJournal
    <2>1. MarkerAccepts /\ UNCHANGED <<live, marker, release>>
      BY <1>36 DEF DiscardJournal, Published
    <2>2. MarkerAccepts'
      BY <2>1 DEF MarkerAccepts, MarkerMatches, ValidOutputs, Good
    <2>. QED
      BY <1>36, <2>2 DEF DiscardJournal
  <1>37. CASE Finish
    BY <1>37, CertFrame DEF Finish
  <1>38. CASE Raise
    BY <1>38, CertFrame DEF Raise
  <1>39. CASE Crash
    BY <1>39, CertFrame DEF Crash
  <1>40. CASE Upgrade
    BY <1>40 DEF Upgrade
  <1>41. CASE UNCHANGED vars
    BY <1>41, CertFrame DEF vars, proc
  <1>. QED
    BY <1>1, <1>2, <1>3, <1>4, <1>5, <1>6, <1>7, <1>8, <1>9, <1>10, <1>11,
       <1>12, <1>13, <1>14, <1>15, <1>16, <1>17, <1>18, <1>19, <1>20, <1>21,
       <1>22, <1>23, <1>24, <1>25, <1>26, <1>27, <1>28, <1>29, <1>30, <1>31,
       <1>32, <1>33, <1>34, <1>35, <1>36, <1>37, <1>38, <1>39, <1>40, <1>41
    DEF Next, Extractor, Recover, Prepare, Commit, Rollback, Finalize, Mishap

LEMMA CertInvariant == Spec => [](TypeOK /\ BackupInv /\ CertInv)
  BY InitType, NextType, InitBackup, NextBackup, InitCert, NextCert,
     PTL DEF Spec

\* Exit status 0 means that a marker vouches for what is in the game directory,
\* whatever crashes, errors, misreadings and upgrades came before.
THEOREM OkIsInstalled == Spec => []OkMeansInstalled
  <1>1. CertInv => OkMeansInstalled
    BY DEF CertInv, OkMeansInstalled
  <1>. QED
    BY <1>1, CertInvariant, PTL

\* Whatever goes wrong, a file of the old payload leaves backup only for its
\* place in the game directory, until the new payload is published.
THEOREM OldPayloadStays == Spec => OldPayloadKept
  <1> DEFINE Kept == \A p \in Path :
                       backup[p] # NoFile /\ backup'[p] = NoFile =>
                         live'[p] = backup[p] \/ (HasJournal /\ Published)
  <1>1. ASSUME TypeOK, BackupInv, CertInv, [Next]_vars PROVE Kept
    <2>1. CASE RollbackRestore
      BY <1>1, <2>1 DEF RollbackRestore, TypeOK, ProcType, DiskType
    <2>2. CASE DiscardBackup
      BY <1>1, <2>2 DEF DiscardBackup, CertInv, PublishedPc
    <2>3. CASE BackupRename
      BY <1>1, <2>3 DEF BackupRename, TypeOK, DiskType
    <2>4. CASE ~(RollbackRestore \/ DiscardBackup \/ BackupRename)
      <3>1. UNCHANGED backup
        BY <1>1, <2>4 DEF Next, Extractor, Recover, Prepare, Commit, Rollback,
          Finalize, Mishap, vars, disk, Start, RecoverNothing,
          RecoverPublished, RecoverUnpublished, RecoverMisread, FastPath,
          Adopt, AdoptMisread, AdoptLive, ResumeStage, ReadyMisread,
          ExtractItem, StageValidated,
          StageRejected, CommitBegin, EnterLoop, BackupIntent, BackupSkipped,
          BackupRecorded, InstallIntent, InstallRename, InstallRecorded,
          PayloadValidated, WriteMarker, WriteMarkerUnsynced, MarkPublished,
          SyncGameDir, CommitFails, RollbackUnstage, RollbackKeep,
          RollbackDone, BackupDiscarded, DiscardStage, KeepScratch,
          DiscardJournal, Finish, Raise, Crash, Upgrade, KeepSome, RecordPhase
      <3>. QED
        BY <3>1
    <2>. QED
      BY <2>1, <2>2, <2>3, <2>4
  <1>. QED
    BY <1>1, CertInvariant, PTL DEF Spec, OldPayloadKept

-----------------------------------------------------------------------------
(* The transaction implements AtomicInstall, under the same condition *)

\* The steps that may be disregarded when Calm holds.
LEMMA CalmSteps ==
  ASSUME Calm, TypeOK
  PROVE  ~Upgrade /\ ~RecoverMisread /\ ~AdoptMisread /\ ~ReadyMisread
  BY DEF Calm, Upgrade, RecoverMisread, AdoptMisread, ReadyMisread, TypeOK, RunType

LEMMA InitRefine == Init => RefineInv
  <1> SUFFICES ASSUME Init PROVE RefineInv
    OBVIOUS
  <1>1. FreshInv
    <2>1. /\ run = 0 /\ marker.id = 0 /\ journal.id = 0
          /\ pc = "idle" /\ caller = "none"
      BY DEF Init, NoMarker, NoJournal
    <2>2. Extracted(run) = Sound
      BY <2>1 DEF Extracted
    <2>3. \A p \in Path : live[p] <= Sound /\ backup[p] <= Sound /\ stage[p] <= Sound
      BY DEF Init, Nowhere
    <2>. QED
      BY <2>1, <2>2, <2>3 DEF FreshInv, NothingNewer, CleaningUp, StageOlder, GameOlder
  <1>2. DisjointInv
    BY DEF Init, DisjointInv, Nowhere
  <1>3. MovedInv /\ BoundaryInv
    BY DEF Init, MovedInv, BoundaryInv, LoopPc, CommitPc, Open, HasJournal,
           NoJournal
  <1>. QED
    BY <1>1, <1>2, <1>3 DEF RefineInv

LEMMA FilesAreNumbers ==
  ASSUME TypeOK
  PROVE  /\ run \in Nat /\ marker.id \in Nat /\ journal.id \in Nat
         /\ \A p \in Path : live[p] \in Nat /\ stage[p] \in Nat /\ backup[p] \in Nat
         /\ Extracted(run) = run + 2
  BY DEF TypeOK, DiskType, RunType, Markers, Journals, Extracted

\* A new run is newer than every file.
LEMMA StartFresh ==
  ASSUME TypeOK, NothingNewer, Start
  PROVE  NothingNewer' /\ StageOlder' /\ GameOlder'
  <1>1. /\ run' = run + 1 /\ run \in Nat
        /\ UNCHANGED <<live, stage, backup, journal, marker>>
    BY DEF Start, disk, TypeOK, RunType
  <1>2. /\ Extracted(run') = run + 3 /\ Extracted(run) = run + 2
    BY <1>1 DEF Extracted
  <1>3. /\ marker.id <= run /\ journal.id <= run
        /\ marker.id \in Nat /\ journal.id \in Nat
    BY FilesAreNumbers DEF NothingNewer
  <1>4. marker'.id < run' /\ marker'.id <= run' /\ journal'.id <= run'
    BY <1>1, <1>3
  <1>5. ASSUME NEW p \in Path
        PROVE  /\ live'[p] < Extracted(run') /\ live'[p] <= Extracted(run')
               /\ stage'[p] < Extracted(run') /\ stage'[p] <= Extracted(run')
               /\ backup'[p] < Extracted(run') /\ backup'[p] <= Extracted(run')
    <2>1. /\ live[p] <= run + 2 /\ stage[p] <= run + 2 /\ backup[p] <= run + 2
          /\ live[p] \in Nat /\ stage[p] \in Nat /\ backup[p] \in Nat
      BY <1>2, FilesAreNumbers DEF NothingNewer
    <2>. QED
      BY <1>1, <1>2, <2>1
  <1>. QED
    BY <1>4, <1>5 DEF NothingNewer, StageOlder, GameOlder

\* A step that only empties the stage or extracts to it.
LEMMA StageBounded ==
  ASSUME TypeOK, NothingNewer, UNCHANGED <<live, backup, journal, marker, run>>,
         \A p \in Path : stage'[p] \in {NoFile, stage[p], Extracted(run)}
  PROVE  NothingNewer'
  <1>1. Extracted(run') = Extracted(run)
    BY DEF Extracted
  <1>2. ASSUME NEW p \in Path PROVE stage'[p] <= Extracted(run')
    <2>1. stage[p] <= Extracted(run) /\ stage[p] \in Nat /\ Extracted(run) = run + 2
          /\ run \in Nat
      BY FilesAreNumbers DEF NothingNewer
    <2>2. stage'[p] = NoFile \/ stage'[p] = stage[p] \/ stage'[p] = Extracted(run)
      OBVIOUS
    <2>. QED
      BY <1>1, <2>1, <2>2
  <1>. QED
    BY <1>1, <1>2 DEF NothingNewer

\* What extracting takes the place of.
LEMMA ExtractItemStep ==
  ASSUME TypeOK, ExtractItem
  PROVE  /\ UNCHANGED <<live, backup, journal, marker, run>>
         /\ \A p \in Path : stage'[p] \in {NoFile, stage[p], Extracted(run)}
  BY DEF ExtractItem, Unharmed, TypeOK, DiskType

LEMMA ResumeStageStep ==
  ASSUME ResumeStage
  PROVE  /\ UNCHANGED <<live, backup, journal, marker, run>>
         /\ \A p \in Path : stage'[p] \in {NoFile, stage[p], Extracted(run)}
  BY DEF ResumeStage, KeepSome, Unharmed

LEMMA NextFresh ==
  ASSUME Calm, TypeOK, IInv, RefineInv, [Next]_vars
  PROVE  FreshInv'
  <1> USE CalmSteps DEF FreshInv, NothingNewer, CleaningUp, StageOlder, GameOlder,
        RefineInv, IInv, BackupInv, Extracted, disk, Goto, Exit, Unharmed, TypeOK,
        DiskType, RunType, ProcType
  <1>1. CASE Start
    <2>1. NothingNewer' /\ StageOlder' /\ GameOlder'
      BY <1>1, StartFresh
    <2>2. CleaningUp'
      BY <1>1 DEF Start
    <2>. QED
      BY <2>1, <2>2
  <1>2. CASE RecoverNothing
    BY <1>2 DEF RecoverNothing
  <1>3. CASE RecoverPublished
    BY <1>3 DEF RecoverPublished
  <1>4. CASE RecoverUnpublished
    BY <1>4 DEF RecoverUnpublished
  <1>5. CASE FastPath
    BY <1>5 DEF FastPath
  <1>6. CASE Adopt
    BY <1>6 DEF Adopt, AdoptLive
  <1>7. CASE ResumeStage
    <2>1. NothingNewer'
      BY <1>7, ResumeStageStep, StageBounded
    <2>2. CleaningUp'
      BY <1>7 DEF ResumeStage, KeepSome
    <2>3. StageOlder'
      BY <1>7 DEF ResumeStage, KeepSome
    <2>4. GameOlder'
      BY <1>7 DEF ResumeStage, KeepSome
    <2>. QED
      BY <2>1, <2>2, <2>3, <2>4
  <1>8. CASE ExtractItem
    <2>1. NothingNewer'
      BY <1>8, ExtractItemStep, StageBounded
    <2>2. CleaningUp'
      BY <1>8 DEF ExtractItem
    <2>3. StageOlder'
      BY <1>8 DEF ExtractItem
    <2>4. GameOlder'
      BY <1>8 DEF ExtractItem
    <2>. QED
      BY <2>1, <2>2, <2>3, <2>4
  <1>9. CASE StageValidated
    BY <1>9 DEF StageValidated
  <1>10. CASE StageRejected
    <2>1. NothingNewer'
      <3>1. /\ UNCHANGED <<live, backup, journal, marker, run>>
            /\ \A p \in Path : stage'[p] = NoFile
        BY <1>10 DEF StageRejected, Nowhere
      <3>. QED
        BY <3>1, StageBounded
    <2>2. CleaningUp'
      BY <1>10 DEF StageRejected, Nowhere
    <2>3. StageOlder'
      BY <1>10 DEF StageRejected, Nowhere
    <2>4. GameOlder'
      BY <1>10 DEF StageRejected, Nowhere
    <2>. QED
      BY <2>1, <2>2, <2>3, <2>4
  <1>11. CASE CommitBegin
    <2>1. NothingNewer'
      BY <1>11 DEF CommitBegin, NoJournal, Journals
    <2>2. CleaningUp'
      BY <1>11 DEF CommitBegin, NoJournal, Journals
    <2>3. StageOlder'
      BY <1>11 DEF CommitBegin, NoJournal, Journals
    <2>4. GameOlder'
      BY <1>11 DEF CommitBegin, NoJournal, Journals
    <2>. QED
      BY <2>1, <2>2, <2>3, <2>4
  <1>12. CASE EnterLoop
    BY <1>12 DEF EnterLoop
  <1>13. CASE BackupIntent
    BY <1>13 DEF BackupIntent, RecordPhase, Journals
  <1>14. CASE BackupSkipped
    BY <1>14 DEF BackupSkipped, RecordPhase, Journals
  <1>15. CASE BackupRename
    BY <1>15 DEF BackupRename
  <1>16. CASE BackupRecorded
    BY <1>16 DEF BackupRecorded, RecordPhase, Journals
  <1>17. CASE InstallIntent
    BY <1>17 DEF InstallIntent, RecordPhase, Journals
  <1>18. CASE InstallRename
    BY <1>18 DEF InstallRename
  <1>19. CASE InstallRecorded
    BY <1>19 DEF InstallRecorded, RecordPhase, Journals
  <1>20. CASE PayloadValidated
    BY <1>20 DEF PayloadValidated
  <1>21. CASE WriteMarker
    BY <1>21 DEF WriteMarker, NewMarker
  <1>22. CASE WriteMarkerUnsynced
    BY <1>22 DEF WriteMarkerUnsynced, NewMarker
  <1>23. CASE MarkPublished
    BY <1>23 DEF MarkPublished, NoJournal, Journals
  <1>24. CASE SyncGameDir
    BY <1>24 DEF SyncGameDir
  <1>25. CASE CommitFails
    BY <1>25 DEF CommitFails
  <1>26. CASE RollbackUnstage
    BY <1>26 DEF RollbackUnstage
  <1>27. CASE RollbackRestore
    BY <1>27 DEF RollbackRestore
  <1>28. CASE RollbackKeep
    BY <1>28 DEF RollbackKeep
  <1>29. CASE RollbackDone
    <2>1. NothingNewer'
      BY <1>29 DEF RollbackDone, NoJournal, Journals
    <2>2. CleaningUp'
      BY <1>29 DEF RollbackDone, NoJournal, Journals
    <2>3. StageOlder'
      BY <1>29 DEF RollbackDone, NoJournal, Journals
    <2>4. GameOlder'
      BY <1>29 DEF RollbackDone, NoJournal, Journals
    <2>. QED
      BY <2>1, <2>2, <2>3, <2>4
  <1>30. CASE DiscardBackup
    <2>1. NothingNewer'
      BY <1>30 DEF DiscardBackup
    <2>2. CleaningUp'
      BY <1>30 DEF DiscardBackup
    <2>3. StageOlder'
      BY <1>30 DEF DiscardBackup
    <2>4. GameOlder'
      BY <1>30 DEF DiscardBackup
    <2>. QED
      BY <2>1, <2>2, <2>3, <2>4
  <1>31. CASE BackupDiscarded
    <2>1. NothingNewer'
      BY <1>31 DEF BackupDiscarded
    <2>2. CleaningUp'
      BY <1>31 DEF BackupDiscarded
    <2>3. StageOlder'
      BY <1>31 DEF BackupDiscarded
    <2>4. GameOlder'
      BY <1>31 DEF BackupDiscarded
    <2>. QED
      BY <2>1, <2>2, <2>3, <2>4
  <1>32. CASE DiscardStage
    <2>1. NothingNewer'
      <3>1. /\ UNCHANGED <<live, backup, journal, marker, run>>
            /\ \A p \in Path : stage'[p] = NoFile
        BY <1>32 DEF DiscardStage, Nowhere
      <3>. QED
        BY <3>1, StageBounded
    <2>2. CleaningUp'
      BY <1>32 DEF DiscardStage, Nowhere
    <2>3. StageOlder'
      BY <1>32 DEF DiscardStage, Nowhere
    <2>4. GameOlder'
      BY <1>32 DEF DiscardStage, Nowhere
    <2>. QED
      BY <2>1, <2>2, <2>3, <2>4
  <1>33. CASE KeepScratch
    BY <1>33 DEF KeepScratch
  <1>34. CASE DiscardJournal
    BY <1>34 DEF DiscardJournal, NoJournal, Journals
  <1>35. CASE Finish
    BY <1>35 DEF Finish
  <1>36. CASE Raise
    BY <1>36 DEF Raise
  <1>37. CASE Crash
    BY <1>37 DEF Crash
  <1>38. CASE UNCHANGED vars
    BY <1>38 DEF vars, proc
  <1>. QED
    BY <1>1, <1>2, <1>3, <1>4, <1>5, <1>6, <1>7, <1>8, <1>9, <1>10, <1>11,
       <1>12, <1>13, <1>14, <1>15, <1>16, <1>17, <1>18, <1>19, <1>20, <1>21,
       <1>22, <1>23, <1>24, <1>25, <1>26, <1>27, <1>28, <1>29, <1>30, <1>31,
       <1>32, <1>33, <1>34, <1>35, <1>36, <1>37, <1>38, CalmSteps
    DEF Next, Extractor, Recover, Prepare, Commit, Rollback, Finalize, Mishap

LEMMA ExtractDisjoint ==
  ASSUME TypeOK, FreshInv, DisjointInv, ExtractItem
  PROVE  DisjointInv'
  <1>1. PICK p \in Path : stage' = [stage EXCEPT ![p] = Extracted(run)]
    BY DEF ExtractItem
  <1>2. pc = "extract" /\ UNCHANGED <<live, backup>>
    BY DEF ExtractItem
  <1>3. live[p] < Extracted(run) /\ backup[p] < Extracted(run)
    BY <1>2 DEF FreshInv, GameOlder
  <1>4. stage'[p] = Extracted(run) /\ \A q \in Path \ {p} : stage'[q] = stage[q]
    BY <1>1 DEF TypeOK, DiskType
  <1>5. stage'[p] # live[p] /\ stage'[p] # backup[p]
    <2>1. live[p] \in Nat /\ backup[p] \in Nat /\ Extracted(run) = run + 2 /\ run \in Nat
      BY FilesAreNumbers
    <2>. QED
      BY <1>3, <1>4, <2>1
  <1>. QED
    BY <1>2, <1>4, <1>5 DEF DisjointInv

LEMMA NextDisjoint ==
  ASSUME Calm, TypeOK, IInv, RefineInv, [Next]_vars
  PROVE  DisjointInv'
  <1> USE DEF DisjointInv, RefineInv, TypeOK, DiskType, RunType, ProcType
  <1>1. CASE Start
    BY <1>1 DEF Start, disk
  <1>2. CASE RecoverNothing
    BY <1>2 DEF RecoverNothing, disk
  <1>3. CASE RecoverPublished
    BY <1>3 DEF RecoverPublished, disk
  <1>4. CASE RecoverUnpublished
    BY <1>4 DEF RecoverUnpublished, disk
  <1>5. CASE FastPath
    BY <1>5 DEF FastPath, disk
  <1>6. CASE Adopt
    BY <1>6 DEF Adopt, AdoptLive, disk
  <1>7. CASE ResumeStage
    BY <1>7 DEF ResumeStage, KeepSome, disk
  <1>8. CASE ExtractItem
    BY <1>8, ExtractDisjoint
  <1>9. CASE StageValidated
    BY <1>9 DEF StageValidated, disk
  <1>10. CASE StageRejected
    BY <1>10 DEF StageRejected, Nowhere, disk
  <1>11. CASE CommitBegin
    BY <1>11 DEF CommitBegin, disk
  <1>12. CASE EnterLoop
    BY <1>12 DEF EnterLoop, disk
  <1>13. CASE BackupIntent
    BY <1>13 DEF BackupIntent, RecordPhase, disk
  <1>14. CASE BackupSkipped
    BY <1>14 DEF BackupSkipped, RecordPhase, disk
  <1>15. CASE BackupRename
    BY <1>15 DEF BackupRename, IInv, LoopInv, LoopPc
  <1>16. CASE BackupRecorded
    BY <1>16 DEF BackupRecorded, RecordPhase, disk
  <1>17. CASE InstallIntent
    BY <1>17 DEF InstallIntent, RecordPhase, disk
  <1>18. CASE InstallRename
    BY <1>18 DEF InstallRename, IInv, LoopInv, LoopPc
  <1>19. CASE InstallRecorded
    BY <1>19 DEF InstallRecorded, RecordPhase, disk
  <1>20. CASE PayloadValidated
    BY <1>20 DEF PayloadValidated, disk
  <1>21. CASE WriteMarker
    BY <1>21 DEF WriteMarker, disk
  <1>22. CASE WriteMarkerUnsynced
    BY <1>22 DEF WriteMarkerUnsynced, disk
  <1>23. CASE MarkPublished
    BY <1>23 DEF MarkPublished, disk
  <1>24. CASE SyncGameDir
    BY <1>24 DEF SyncGameDir, disk
  <1>25. CASE CommitFails
    BY <1>25 DEF CommitFails, disk
  <1>26. CASE RollbackUnstage
    BY <1>26 DEF RollbackUnstage
  <1>27. CASE RollbackRestore
    BY <1>27 DEF RollbackRestore
  <1>28. CASE RollbackKeep
    BY <1>28 DEF RollbackKeep, disk
  <1>29. CASE RollbackDone
    BY <1>29 DEF RollbackDone, disk
  <1>30. CASE DiscardBackup
    BY <1>30 DEF DiscardBackup, disk
  <1>31. CASE BackupDiscarded
    BY <1>31 DEF BackupDiscarded, disk
  <1>32. CASE DiscardStage
    BY <1>32 DEF DiscardStage, Nowhere, disk
  <1>33. CASE KeepScratch
    BY <1>33 DEF KeepScratch, disk
  <1>34. CASE DiscardJournal
    BY <1>34 DEF DiscardJournal, disk
  <1>35. CASE Finish
    BY <1>35 DEF Finish, disk
  <1>36. CASE Raise
    BY <1>36 DEF Raise, disk
  <1>37. CASE Crash
    BY <1>37 DEF Crash, disk
  <1>38. CASE UNCHANGED vars
    BY <1>38 DEF vars, disk
  <1>. QED
    BY <1>1, <1>2, <1>3, <1>4, <1>5, <1>6, <1>7, <1>8, <1>9, <1>10, <1>11,
       <1>12, <1>13, <1>14, <1>15, <1>16, <1>17, <1>18, <1>19, <1>20, <1>21,
       <1>22, <1>23, <1>24, <1>25, <1>26, <1>27, <1>28, <1>29, <1>30, <1>31,
       <1>32, <1>33, <1>34, <1>35, <1>36, <1>37, <1>38, CalmSteps
    DEF Next, Extractor, Recover, Prepare, Commit, Rollback, Finalize, Mishap

LEMMA NextMoved ==
  ASSUME Calm, TypeOK, IInv, RefineInv, [Next]_vars
  PROVE  MovedInv'
  <1> USE DEF MovedInv, RefineInv, LoopPc, disk, Goto, Exit, Unharmed
  <1>1. CASE Start
    BY <1>1 DEF Start
  <1>2. CASE RecoverNothing
    BY <1>2 DEF RecoverNothing
  <1>3. CASE RecoverPublished
    BY <1>3 DEF RecoverPublished
  <1>4. CASE RecoverUnpublished
    BY <1>4 DEF RecoverUnpublished
  <1>5. CASE FastPath
    BY <1>5 DEF FastPath
  <1>6. CASE Adopt
    BY <1>6 DEF Adopt, AdoptLive
  <1>7. CASE ResumeStage
    BY <1>7 DEF ResumeStage, KeepSome
  <1>8. CASE ExtractItem
    BY <1>8 DEF ExtractItem
  <1>9. CASE StageValidated
    BY <1>9 DEF StageValidated
  <1>10. CASE StageRejected
    BY <1>10 DEF StageRejected
  <1>11. CASE CommitBegin
    BY <1>11 DEF CommitBegin
  <1>12. CASE EnterLoop
    BY <1>12 DEF EnterLoop
  <1>13. CASE BackupIntent
    BY <1>13 DEF BackupIntent, RecordPhase, IInv, LoopInv, TypeOK, DiskType
  <1>14. CASE BackupSkipped
    BY <1>14 DEF BackupSkipped, RecordPhase, IInv, LoopInv, TypeOK, DiskType
  <1>15. CASE BackupRename
    BY <1>15 DEF BackupRename, RecordPhase, IInv, LoopInv, TypeOK, DiskType
  <1>16. CASE BackupRecorded
    BY <1>16 DEF BackupRecorded, RecordPhase, IInv, LoopInv, TypeOK, DiskType
  <1>17. CASE InstallIntent
    BY <1>17 DEF InstallIntent, RecordPhase, IInv, LoopInv, TypeOK, DiskType
  <1>18. CASE InstallRename
    BY <1>18 DEF InstallRename, RecordPhase, IInv, LoopInv, TypeOK, DiskType
  <1>19. CASE InstallRecorded
    BY <1>19 DEF InstallRecorded, RecordPhase, IInv, LoopInv, TypeOK, DiskType
  <1>20. CASE PayloadValidated
    BY <1>20 DEF PayloadValidated
  <1>21. CASE WriteMarker
    BY <1>21 DEF WriteMarker
  <1>22. CASE WriteMarkerUnsynced
    BY <1>22 DEF WriteMarkerUnsynced
  <1>23. CASE MarkPublished
    BY <1>23 DEF MarkPublished
  <1>24. CASE SyncGameDir
    BY <1>24 DEF SyncGameDir
  <1>25. CASE CommitFails
    BY <1>25 DEF CommitFails
  <1>26. CASE RollbackUnstage
    BY <1>26 DEF RollbackUnstage
  <1>27. CASE RollbackRestore
    BY <1>27 DEF RollbackRestore
  <1>28. CASE RollbackKeep
    BY <1>28 DEF RollbackKeep
  <1>29. CASE RollbackDone
    BY <1>29 DEF RollbackDone
  <1>30. CASE DiscardBackup
    BY <1>30 DEF DiscardBackup
  <1>31. CASE BackupDiscarded
    BY <1>31 DEF BackupDiscarded
  <1>32. CASE DiscardStage
    BY <1>32 DEF DiscardStage
  <1>33. CASE KeepScratch
    BY <1>33 DEF KeepScratch
  <1>34. CASE DiscardJournal
    BY <1>34 DEF DiscardJournal
  <1>35. CASE Finish
    BY <1>35 DEF Finish
  <1>36. CASE Raise
    BY <1>36 DEF Raise
  <1>37. CASE Crash
    BY <1>37 DEF Crash
  <1>38. CASE UNCHANGED vars
    BY <1>38 DEF vars, proc
  <1>. QED
    BY <1>1, <1>2, <1>3, <1>4, <1>5, <1>6, <1>7, <1>8, <1>9, <1>10, <1>11,
       <1>12, <1>13, <1>14, <1>15, <1>16, <1>17, <1>18, <1>19, <1>20, <1>21,
       <1>22, <1>23, <1>24, <1>25, <1>26, <1>27, <1>28, <1>29, <1>30, <1>31,
       <1>32, <1>33, <1>34, <1>35, <1>36, <1>37, <1>38, CalmSteps
    DEF Next, Extractor, Recover, Prepare, Commit, Rollback, Finalize, Mishap

\* What undoing would leave, and what decides whether to undo, depend on these.
LEMMA StillFrame ==
  ASSUME UNCHANGED <<live, backup, marker, release>>,
         journal'.id = journal.id, journal'.had_live = journal.had_live
  PROVE  /\ HasJournal' = HasJournal
         /\ Published' = Published
         /\ Restored' = Restored
  BY CertFrame DEF Restored

\* The steps that touch none of them.
Still ==
  \/ Start \/ RecoverNothing \/ RecoverPublished
  \/ RecoverUnpublished \/ FastPath \/ ResumeStage \/ ExtractItem
  \/ StageValidated \/ StageRejected \/ EnterLoop \/ BackupIntent
  \/ BackupSkipped \/ BackupRecorded \/ InstallIntent
  \/ InstallRecorded \/ PayloadValidated \/ MarkPublished
  \/ SyncGameDir \/ CommitFails \/ RollbackKeep \/ BackupDiscarded
  \/ DiscardStage \/ KeepScratch \/ Finish \/ Raise \/ Crash
  \/ UNCHANGED vars

LEMMA StillSteps ==
  ASSUME TypeOK, Still
  PROVE  /\ UNCHANGED <<live, backup, marker, release>>
         /\ journal'.id = journal.id /\ journal'.had_live = journal.had_live
  <1> USE DEF disk, Goto, Exit, Unharmed
  <1>1. CASE Start
    BY <1>1 DEF Start
  <1>2. CASE RecoverNothing
    BY <1>2 DEF RecoverNothing
  <1>3. CASE RecoverPublished
    BY <1>3 DEF RecoverPublished
  <1>4. CASE RecoverUnpublished
    BY <1>4 DEF RecoverUnpublished
  <1>5. CASE FastPath
    BY <1>5 DEF FastPath
  <1>6. CASE ResumeStage
    BY <1>6 DEF ResumeStage, KeepSome
  <1>7. CASE ExtractItem
    BY <1>7 DEF ExtractItem
  <1>8. CASE StageValidated
    BY <1>8 DEF StageValidated
  <1>9. CASE StageRejected
    BY <1>9 DEF StageRejected
  <1>10. CASE EnterLoop
    BY <1>10 DEF EnterLoop
  <1>11. CASE BackupIntent
    BY <1>11, PhaseFrame DEF BackupIntent
  <1>12. CASE BackupSkipped
    BY <1>12, PhaseFrame DEF BackupSkipped
  <1>13. CASE BackupRecorded
    BY <1>13, PhaseFrame DEF BackupRecorded
  <1>14. CASE InstallIntent
    BY <1>14, PhaseFrame DEF InstallIntent
  <1>15. CASE InstallRecorded
    BY <1>15, PhaseFrame DEF InstallRecorded
  <1>16. CASE PayloadValidated
    BY <1>16 DEF PayloadValidated
  <1>17. CASE MarkPublished
    BY <1>17 DEF MarkPublished, TypeOK, DiskType, Journals
  <1>18. CASE SyncGameDir
    BY <1>18 DEF SyncGameDir
  <1>19. CASE CommitFails
    BY <1>19 DEF CommitFails
  <1>20. CASE RollbackKeep
    BY <1>20 DEF RollbackKeep
  <1>21. CASE BackupDiscarded
    BY <1>21 DEF BackupDiscarded
  <1>22. CASE DiscardStage
    BY <1>22 DEF DiscardStage
  <1>23. CASE KeepScratch
    BY <1>23 DEF KeepScratch
  <1>24. CASE Finish
    BY <1>24 DEF Finish
  <1>25. CASE Raise
    BY <1>25 DEF Raise
  <1>26. CASE Crash
    BY <1>26 DEF Crash
  <1>27. CASE UNCHANGED vars
    BY <1>27 DEF vars
  <1>. QED
    BY <1>1, <1>2, <1>3, <1>4, <1>5, <1>6, <1>7, <1>8, <1>9, <1>10, <1>11,
       <1>12, <1>13, <1>14, <1>15, <1>16, <1>17, <1>18, <1>19, <1>20, <1>21,
       <1>22, <1>23, <1>24, <1>25, <1>26, <1>27 DEF Still

Move == BackupRename \/ InstallRename \/ RollbackUnstage \/ RollbackRestore

\* The four renames keep what undoing would leave.
LEMMA MoveSteps ==
  ASSUME TypeOK, IInv, Move
  PROVE  /\ UNCHANGED <<journal, marker, release>> /\ Restored' = Restored
         /\ pc \in CommitPc \cup {"rollback"}
         /\ pc \in CommitPc => pc' \in CommitPc
         /\ pc = "rollback" => pc' = "rollback"
  <1> USE DEF IInv, Goto, Unharmed
  <1>1. /\ UNCHANGED <<journal, marker, release>>
        /\ pc \in {"move-out", "move-in", "rollback"} /\ i \in Path
        /\ pc \in CommitPc => pc' \in CommitPc
        /\ pc = "rollback" => pc' = "rollback"
    BY DEF Move, BackupRename, InstallRename, RollbackUnstage,
           RollbackRestore, LoopInv, LoopPc, CommitPc, TypeOK, ProcType
  <1>2. \A p \in Path : Undoable(p)
    BY <1>1 DEF JournalInv, Open, CommitPc
  <1>3. \A p \in Path : Restored'[p] = Restored[p]
    <2>1. CASE BackupRename
      BY <1>1, <2>1 DEF BackupRename, LoopInv, Restored, TypeOK, DiskType
    <2>2. CASE InstallRename
      BY <1>1, <1>2, <2>2
      DEF InstallRename, Undoable, Restored, TypeOK, DiskType
    <2>3. CASE RollbackUnstage
      BY <1>1, <2>3 DEF RollbackUnstage, Restored, TypeOK, DiskType
    <2>4. CASE RollbackRestore
      BY <1>1, <2>4 DEF RollbackRestore, Restored, TypeOK, DiskType
    <2>. QED
      BY <2>1, <2>2, <2>3, <2>4 DEF Move
  <1>4. Restored' = Restored
    BY <1>3 DEF Restored
  <1>. QED
    BY <1>1, <1>4 DEF CommitPc

\* When a transaction publishes, every path holds a file that undoing would
\* not leave there.
LEMMA AllReplaced ==
  ASSUME TypeOK, IInv, RefineInv, pc = "publish"
  PROVE  /\ HasJournal /\ ~Published
         /\ \A p \in Path : live[p] > Sound /\ live[p] # Restored[p]
  <1>1. HasJournal /\ ~Published
    BY DEF IInv, JournalInv, CommitPc, RefineInv, BoundaryInv, Published
  <1>2. ASSUME NEW p \in Path PROVE live[p] > Sound /\ live[p] # Restored[p]
    <2>1. live[p] > Sound /\ stage[p] = NoFile /\ Undoable(p)
      BY <1>1 DEF IInv, LoopInv, JournalInv, Open, RefineInv, MovedInv
    <2>. QED
      BY <2>1 DEF Undoable, Restored, RefineInv, DisjointInv, TypeOK, DiskType
  <1>. QED
    BY <1>1, <1>2

LEMMA NextBoundary ==
  ASSUME Calm, TypeOK, IInv, RefineInv, [Next]_vars
  PROVE  BoundaryInv'
  <1> USE DEF BoundaryInv, RefineInv
  <1>1. CASE Still
    <2>1. /\ UNCHANGED marker /\ journal'.id = journal.id
          /\ HasJournal' = HasJournal /\ Published' = Published
          /\ Restored' = Restored
      BY <1>1, StillSteps, StillFrame
    <2>2. pc' \in CommitPc => pc \in CommitPc
      BY <1>1 DEF Still, CommitPc, disk, vars, proc, Goto, Exit, Unharmed,
        Start, RecoverNothing, RecoverPublished, RecoverUnpublished, FastPath,
        ResumeStage, ExtractItem, StageValidated, StageRejected, EnterLoop,
        BackupIntent, BackupSkipped, BackupRecorded, InstallIntent,
        InstallRecorded, PayloadValidated, MarkPublished, SyncGameDir,
        CommitFails, RollbackKeep, BackupDiscarded, DiscardStage, KeepScratch,
        Finish, Raise, Crash, KeepSome
    <2>3. pc' = "rollback" => pc \in CommitPc \cup {"rollback"} \/ ~Published
      BY <1>1 DEF Still, CommitPc, disk, vars, proc, Goto, Exit, Unharmed,
        Start, RecoverNothing, RecoverPublished, RecoverUnpublished, FastPath,
        ResumeStage, ExtractItem, StageValidated, StageRejected, EnterLoop,
        BackupIntent, BackupSkipped, BackupRecorded, InstallIntent,
        InstallRecorded, PayloadValidated, MarkPublished, SyncGameDir,
        CommitFails, RollbackKeep, BackupDiscarded, DiscardStage, KeepScratch,
        Finish, Raise, Crash, KeepSome, Published
    <2>. QED
      BY <2>1, <2>2, <2>3 DEF Open
  <1>2. CASE Move
    BY <1>2, MoveSteps DEF Open, HasJournal, CommitPc
  <1>3. CASE Adopt
    <2>1. ~HasJournal
      BY <1>3 DEF Adopt, AdoptLive, IInv, JournalInv, CommitPc, Published
    <2>. QED
      BY <1>3, <2>1 DEF Adopt, AdoptLive, Goto, CommitPc, Open, HasJournal
  <1>4. CASE CommitBegin
    <2>1. journal'.id = run /\ marker' = marker /\ pc = "commit"
      BY <1>4 DEF CommitBegin, NoJournal
    <2>2. marker.id < run
      BY <2>1 DEF FreshInv, GameOlder
    <2>3. marker'.id # journal'.id
      BY <2>1, <2>2, FilesAreNumbers
    <2>. QED
      BY <2>3
  <1>5. CASE WriteMarker
    <2>1. pc' = "published" /\ HasJournal' /\ Published'
      <3>1. pc = "publish" /\ UNCHANGED <<live, release, journal>>
        BY <1>5 DEF WriteMarker, Unharmed
      <3>2. ValidOutputs(live) /\ HasJournal
        <4>1. HasJournal /\ \A p \in Path : live[p] > Sound
          BY <3>1, AllReplaced
        <4>2. \A p \in Path : live[p] \in Nat
          BY FilesAreNumbers
        <4>. QED
          BY <4>1, <4>2 DEF ValidOutputs, Good
      <3>3. /\ marker'.id = journal.id /\ marker'.release = release
            /\ marker'.seal = live
        BY <1>5 DEF WriteMarker, NewMarker
      <3>. QED
        BY <1>5, <3>1, <3>2, <3>3, MarkerSound
        DEF WriteMarker, Goto, HasJournal, Published
    <2>. QED
      BY <2>1 DEF Open, CommitPc
  <1>6. CASE WriteMarkerUnsynced
    <2>1. /\ pc = "publish" /\ pc' = "rollback" /\ marker'.seal = live
          /\ UNCHANGED <<live, backup, journal>>
      BY <1>6 DEF WriteMarkerUnsynced, NewMarker
    <2>2. Restored' = Restored
      BY <2>1 DEF Restored
    <2>. QED
      BY <2>1, <2>2, AllReplaced DEF CommitPc
  <1>7. CASE RollbackDone
    BY <1>7 DEF RollbackDone, Exit, NoJournal, Open, HasJournal, CommitPc
  <1>8. CASE DiscardBackup \/ DiscardJournal
    <2>1. /\ HasJournal /\ Published
          /\ pc' \in {"discard-backup", "ready", "finished"}
          /\ UNCHANGED <<live, marker, release>>
          /\ HasJournal' => journal'.id = journal.id
      BY <1>8 DEF DiscardBackup, DiscardJournal, IInv, JournalInv, CommitPc,
        PublishedPc, NoJournal, HasJournal, Goto, Unharmed
    <2>2. HasJournal' => Published'
      BY <2>1, CertFrame
    <2>. QED
      BY <2>1, <2>2 DEF Open, CommitPc
  <1>. QED
    BY <1>1, <1>2, <1>3, <1>4, <1>5, <1>6, <1>7, <1>8, CalmSteps
    DEF Still, Move, Next, Extractor, Recover, Prepare, Commit, Rollback,
        Finalize, Mishap

LEMMA RefineInvariant == ASSUME Calm PROVE Spec => [](TypeOK /\ IInv /\ RefineInv)
  <1>1. TypeOK /\ IInv /\ RefineInv /\ [Next]_vars => RefineInv'
    BY NextFresh, NextDisjoint, NextMoved, NextBoundary DEF RefineInv
  <1>. QED
    BY <1>1, InitType, InitInductive, InitRefine, NextType, NextInductive, PTL
    DEF Spec

\* A step is a stutter of AtomicInstall if it neither changes what decides nor
\* brings a published transaction into or out of the rollback.
LEMMA Stutter ==
  ASSUME UNCHANGED <<live, marker, release>>, HasJournal' = HasJournal,
         Published' = Published, Restored' = Restored,
         ((pc = "rollback") <=> (pc' = "rollback")) \/ ~Published
  PROVE  UNCHANGED <<Payload, Certified>>
  <1>1. Undone' = Undone
    BY DEF Undone
  <1>2. Payload' = Payload
    BY <1>1 DEF Payload, Undone
  <1>3. Certified' = Certified
    BY <1>2 DEF Certified, MarkerMatches
  <1>. QED
    BY <1>2, <1>3

LEMMA PayloadType == TypeOK => Payload \in [Path -> Object]
  <1> SUFFICES ASSUME TypeOK PROVE Payload \in [Path -> Object]
    OBVIOUS
  <1>1. Restored \in [Path -> Object] /\ live \in [Path -> Object]
    BY DEF Restored, TypeOK, DiskType
  <1>. QED
    BY <1>1 DEF Payload

\* The initial states are initial states of AtomicInstall.
LEMMA InitSimulates == Init => Abstract!Init
  <1> SUFFICES ASSUME Init PROVE Abstract!Init
    OBVIOUS
  <1>1. Payload \in [Path -> Object]
    BY InitType, PayloadType
  <1>2. Certified = FALSE
    BY DEF Init, Certified, MarkerMatches, NoMarker
  <1>. QED
    BY <1>1, <1>2 DEF Abstract!Init

\* Every step is a step of AtomicInstall or a stutter.
LEMMA NextSimulates ==
  ASSUME Calm, TypeOK, IInv, RefineInv, [Next]_vars
  PROVE  [Abstract!Next]_<<Payload, Certified>>
  <1> USE DEF RefineInv
  <1>0. TypeOK' /\ live' \in [Path -> Object] /\ live \in [Path -> Object]
    BY NextType DEF TypeOK, DiskType
  <1>1. ASSUME HasJournal, Published, pc = "rollback", pc' = "idle",
               HasJournal', Published', UNCHANGED <<live, marker, release>>,
               journal'.id = journal.id
        PROVE  Abstract!Replace
    <2>1. Payload = Restored /\ Payload' = live
      BY <1>1 DEF Payload, Undone
    <2>2. \A p \in Path : live[p] # NoFile /\ live[p] # Restored[p]
      BY <1>1 DEF Published, MarkerAccepts, ValidOutputs, Good, BoundaryInv,
         Open
    <2>3. Certified'
      BY <1>1, <2>1 DEF Certified, Published, MarkerAccepts
    <2>4. Certified' = TRUE
      BY <2>3 DEF Certified, MarkerMatches
    <2>. QED
      BY <1>0, <2>1, <2>2, <2>4 DEF Abstract!Replace, Abstract!Complete
  <1>2. CASE Still
    <2>1. /\ UNCHANGED <<live, backup, marker, release>>
          /\ journal'.id = journal.id
          /\ HasJournal' = HasJournal /\ Published' = Published
          /\ Restored' = Restored
      BY <1>2, StillSteps, StillFrame
    <2>2. pc = "rollback" => pc' \in {"rollback", "idle"}
      BY <1>2 DEF Still, disk, vars, proc, Goto, Exit, Unharmed,
        Start, RecoverNothing, RecoverPublished, RecoverUnpublished, FastPath,
        ResumeStage, ExtractItem, StageValidated, StageRejected, EnterLoop,
        BackupIntent, BackupSkipped, BackupRecorded, InstallIntent,
        InstallRecorded, PayloadValidated, MarkPublished, SyncGameDir,
        CommitFails, RollbackKeep, BackupDiscarded, DiscardStage, KeepScratch,
        Finish, Raise, Crash, KeepSome
    <2>3. pc' = "rollback" => pc \in CommitPc \cup {"rollback"} \/ ~Published
      BY <1>2 DEF Still, CommitPc, disk, vars, proc, Goto, Exit, Unharmed,
        Start, RecoverNothing, RecoverPublished, RecoverUnpublished, FastPath,
        ResumeStage, ExtractItem, StageValidated, StageRejected, EnterLoop,
        BackupIntent, BackupSkipped, BackupRecorded, InstallIntent,
        InstallRecorded, PayloadValidated, MarkPublished, SyncGameDir,
        CommitFails, RollbackKeep, BackupDiscarded, DiscardStage, KeepScratch,
        Finish, Raise, Crash, KeepSome, Published
    <2>4. pc \in CommitPc => ~Published
      BY DEF BoundaryInv, Published
    <2>5. pc = "rollback" => HasJournal
      BY DEF IInv, JournalInv
    <2>6. CASE ~((pc = "rollback") <=> (pc' = "rollback")) /\ Published
      BY <1>1, <2>1, <2>2, <2>3, <2>4, <2>5, <2>6 DEF Abstract!Next
    <2>7. CASE ((pc = "rollback") <=> (pc' = "rollback")) \/ ~Published
      BY <2>1, <2>7, Stutter
    <2>. QED
      BY <2>6, <2>7
  <1>3. CASE Move
    <2>1. /\ UNCHANGED <<journal, marker, release>> /\ Restored' = Restored
          /\ pc \in CommitPc \cup {"rollback"}
          /\ pc \in CommitPc => pc' \in CommitPc
          /\ pc = "rollback" => pc' = "rollback"
      BY <1>3, MoveSteps
    <2>2. HasJournal /\ HasJournal'
      BY <2>1 DEF IInv, JournalInv, HasJournal
    <2>3. Undone /\ Undone'
      BY <2>1, <2>2 DEF Undone, Published, BoundaryInv, CommitPc
    <2>. QED
      BY <2>1, <2>3 DEF Payload, Certified, MarkerMatches
  <1>4. CASE Adopt
    <2>1. ~HasJournal /\ ~(HasJournal')
      BY <1>4 DEF Adopt, AdoptLive, IInv, JournalInv, CommitPc, Published,
                  HasJournal
    <2>2. Payload = live /\ Payload' = live /\ ValidOutputs(live)
      BY <1>4, <2>1 DEF Payload, Undone, Adopt, AdoptLive
    <2>3. MarkerMatches' /\ marker'.seal = live
      BY <1>4 DEF Adopt, AdoptLive, MarkerMatches, IInv, BackupInv, TypeOK, RunType,
        Unharmed
    <2>4. Certified' = TRUE
      BY <2>2, <2>3 DEF Certified, MarkerMatches
    <2>5. Abstract!Certify
      BY <2>2, <2>4 DEF Abstract!Certify, Abstract!Complete, ValidOutputs, Good
    <2>. QED
      BY <2>5 DEF Abstract!Next
  <1>5. CASE CommitBegin
    <2>1. /\ ~HasJournal /\ HasJournal' /\ backup = Nowhere
          /\ UNCHANGED <<live, backup, marker, release>>
          /\ journal'.had_live = [p \in Path |-> live[p] # NoFile]
      BY <1>5 DEF CommitBegin, BackupEmpty, NoJournal, HasJournal, IInv,
        BackupInv, Unharmed
    <2>2. marker'.id # journal'.id
      BY <1>5, NextBoundary DEF BoundaryInv, CommitBegin, Goto, CommitPc
    <2>3. Restored' = live
      BY <1>0, <2>1 DEF Restored, Nowhere
    <2>4. Payload = live /\ Payload' = live
      BY <2>1, <2>2, <2>3 DEF Payload, Undone, Published
    <2>. QED
      BY <2>1, <2>4 DEF Certified, MarkerMatches
  <1>6. CASE WriteMarker
    <2>1. /\ pc = "publish" /\ pc' = "published"
          /\ UNCHANGED <<live, release, journal>>
          /\ marker'.id = journal.id /\ marker'.release = release
          /\ marker'.seal = live
      BY <1>6 DEF WriteMarker, Unharmed, Goto, NewMarker
    <2>2. HasJournal /\ \A p \in Path : live[p] > Sound /\ live[p] # Restored[p]
      BY <2>1, AllReplaced
    <2>3. ValidOutputs(live)
      BY <1>0, <2>2 DEF ValidOutputs, Good
    <2>4. MarkerAccepts' /\ Published'
      BY <2>1, <2>2, <2>3, MarkerSound DEF Published, HasJournal
    <2>5. Payload = Restored /\ Payload' = live
      BY <2>1, <2>4, AllReplaced DEF Payload, Undone
    <2>6. Certified' = TRUE
      BY <2>1, <2>4, <2>5 DEF Certified, MarkerAccepts, MarkerMatches
    <2>7. Abstract!Replace
      BY <1>0, <2>2, <2>5, <2>6 DEF Abstract!Replace, Abstract!Complete
    <2>. QED
      BY <2>7 DEF Abstract!Next
  <1>7. CASE WriteMarkerUnsynced
    <2>1. /\ pc = "publish" /\ pc' = "rollback" /\ marker'.seal = live
          /\ UNCHANGED <<live, backup, journal>>
      BY <1>7 DEF WriteMarkerUnsynced, NewMarker
    <2>2. Restored' = Restored /\ HasJournal /\ HasJournal'
      BY <2>1, AllReplaced DEF Restored, HasJournal
    <2>3. Payload = Restored /\ Payload' = Restored
      BY <2>1, <2>2, AllReplaced DEF Payload, Undone
    <2>4. live # Restored
      <3>1. 1 \in Path
        OBVIOUS
      <3>. QED
        BY <2>1, <3>1, AllReplaced
    <2>5. Certified' = FALSE
      BY <2>1, <2>3, <2>4 DEF Certified
    <2>6. Abstract!Lapse
      BY <2>3, <2>5 DEF Abstract!Lapse
    <2>. QED
      BY <2>6 DEF Abstract!Next
  <1>8. CASE RollbackDone
    <2>1. /\ pc = "rollback" /\ i = 0 /\ backup = Nowhere /\ ~(HasJournal')
          /\ UNCHANGED <<live, marker, release>> /\ HasJournal
      BY <1>8 DEF RollbackDone, BackupEmpty, HasJournal, NoJournal, Unharmed,
        IInv, JournalInv
    <2>2. \A p \in Path : Restored[p] = live[p]
      BY <2>1 DEF Restored, IInv, RollbackInv, Nowhere
    <2>3. Restored = live
      BY <1>0, <2>2 DEF Restored
    <2>4. Payload = live /\ Payload' = live
      BY <2>1, <2>3 DEF Payload, Undone
    <2>. QED
      BY <2>1, <2>4 DEF Certified, MarkerMatches
  <1>9. CASE DiscardBackup \/ DiscardJournal
    <2>1. /\ HasJournal /\ Published /\ pc # "rollback" /\ pc' # "rollback"
          /\ UNCHANGED <<live, marker, release>>
          /\ HasJournal' => journal'.id = journal.id
      BY <1>9 DEF DiscardBackup, DiscardJournal, IInv, JournalInv, CommitPc,
        PublishedPc, NoJournal, HasJournal, Goto, Unharmed
    <2>2. HasJournal' => Published'
      BY <2>1, CertFrame
    <2>3. Payload = live /\ Payload' = live
      BY <2>1, <2>2 DEF Payload, Undone
    <2>. QED
      BY <2>1, <2>3 DEF Certified, MarkerMatches
  <1>. QED
    BY <1>2, <1>3, <1>4, <1>5, <1>6, <1>7, <1>8, <1>9, CalmSteps
    DEF Still, Move, Next, Extractor, Recover, Prepare, Commit, Rollback,
        Finalize, Mishap

\* While one release stays installed and the payload can be read back, the
\* payload a launch may rely on is replaced at all paths at once, together with
\* its certificate, or not at all.
THEOREM TransactionIsAtomic == ASSUME Calm PROVE Spec => InstallIsAtomic
  BY RefineInvariant, InitSimulates, NextSimulates, PTL
  DEF Spec, InstallIsAtomic, Abstract!Spec

\* Under the same condition a rollback returns all the staged work to the stage
\* before its journal goes.
THEOREM StagedWorkStays == ASSUME Calm PROVE Spec => StagedWorkKept
  <1>1. ASSUME TypeOK, IInv, [Next]_vars, HasJournal, ~(HasJournal'), ~Published
        PROVE  \A p \in Path : stage'[p] # NoFile
    <2>1. CASE RollbackDone
      <3>1. pc = "rollback" /\ i = 0 /\ UNCHANGED stage
        BY <2>1 DEF RollbackDone
      <3>2. \A p \in Path : Undoable(p)
        BY <1>1, <3>1 DEF IInv, JournalInv, Open
      <3>3. \A p \in Path : backup[p] = NoFile /\ (~journal.had_live[p] => live[p] = NoFile)
        BY <1>1, <3>1 DEF IInv, RollbackInv
      <3>. QED
        BY <3>1, <3>2, <3>3 DEF Undoable
    <2>2. CASE DiscardJournal
      BY <1>1, <2>2 DEF DiscardJournal, IInv, JournalInv, CommitPc
    <2>3. CASE ~(RollbackDone \/ DiscardJournal)
      <3>1. journal'.id = journal.id \/ CommitBegin
        <4>1. CASE \/ BackupIntent \/ BackupSkipped \/ BackupRecorded
                   \/ InstallIntent \/ InstallRecorded
          BY <1>1, <4>1, PhaseFrame
          DEF BackupIntent, BackupSkipped, BackupRecorded, InstallIntent,
              InstallRecorded
        <4>2. CASE MarkPublished
          BY <1>1, <4>2 DEF MarkPublished, TypeOK, DiskType, Journals
        <4>3. CASE ~(\/ BackupIntent \/ BackupSkipped \/ BackupRecorded
                     \/ InstallIntent \/ InstallRecorded \/ MarkPublished)
          BY <1>1, <2>3, <4>3
          DEF Next, Extractor, Recover, Prepare, Commit, Rollback, Finalize,
              Mishap, vars, disk, KeepSome, Start, RecoverNothing,
              RecoverPublished, RecoverUnpublished, RecoverMisread, FastPath,
              Adopt, AdoptMisread, AdoptLive, ResumeStage, ReadyMisread,
              ExtractItem, StageValidated,
              StageRejected, EnterLoop, BackupRename, InstallRename,
              PayloadValidated, WriteMarker, WriteMarkerUnsynced, SyncGameDir,
              CommitFails, RollbackUnstage, RollbackRestore, RollbackKeep,
              DiscardBackup, BackupDiscarded, DiscardStage, KeepScratch,
              Finish, Raise, Crash, Upgrade
        <4>. QED
          BY <4>1, <4>2, <4>3
      <3>. QED
        BY <1>1, <3>1 DEF HasJournal, CommitBegin
    <2>. QED
      BY <2>1, <2>2, <2>3
  <1>. QED
    BY <1>1, Inductive, PTL DEF Spec, StagedWorkKept
=============================================================================
