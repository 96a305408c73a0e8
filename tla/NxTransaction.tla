---------------------------- MODULE NxTransaction ----------------------------
(***************************************************************************)
(* The payload transaction of magicrampage/nxextract/nxextract.py:         *)
(* commit_stage, rollback_transaction, recover_transaction and             *)
(* _finalize_published_transaction, driven by install_command.             *)
(*                                                                         *)
(* Every rename, journal write and marker write is a step of its own, so a *)
(* process may die, the power may fail or the operating system may report  *)
(* an error between any two of them.  A rename or an os.replace is atomic; *)
(* one whose effect is on disk but whose following fsync raised is the     *)
(* step followed by the error.                                             *)
(*                                                                         *)
(* One extractor runs at a time: install_command holds WorkspaceLock for   *)
(* all that is modelled here, and flock drops it when the process dies.    *)
(***************************************************************************)
EXTENDS Naturals

CONSTANTS
  N,             \* the number of commit paths of the recipe
  MaxRuns,       \* bound: extractor runs the player starts
  MaxAdversity,  \* bound: crashes, I/O errors and UI losses
  MaxRelease,    \* releases of the port that may be installed over each other
  RecipeOf,      \* the recipe digest that each release ships
  TransientReads \* reading the payload back may fail although it is intact

ASSUME ConstantsAssumption ==
  /\ N \in Nat \ {0}
  /\ MaxRuns \in Nat
  /\ MaxAdversity \in Nat
  /\ MaxRelease \in Nat \ {0}
  /\ RecipeOf \in [1..MaxRelease -> Nat]
  /\ TransientReads \in BOOLEAN

(***************************************************************************)
(* Files.  An object is one file with its size and mtime, which is what    *)
(* payload_metadata_seal tells apart.  Run r extracts Extracted(r).        *)
(***************************************************************************)
Path == 1..N
NoFile == 0         \* os.path.lexists is false
Stale == 1          \* data found in the game directory that fails validation
Sound == 2          \* data found in the game directory that passes it
Extracted(r) == r + Sound
Object == Nat
Nowhere == [p \in Path |-> NoFile]

Phase == {"pending", "backup-intent", "backup-skipped", "backed-up",
          "install-intent", "installed"}

VARIABLES
  live,      \* the game directory: commit path -> object
  stage,     \* workspace/stage
  backup,    \* workspace/backup
  journal,   \* workspace/transaction.json
  marker,    \* the installation marker
  release,   \* the release whose extractor and recipe are installed
  pc,        \* where install_command is
  caller,    \* who called the rollback or the finalizer
  i,         \* the path at hand in a loop over the journal's paths
  complete,  \* cleanup_complete of _finalize_published_transaction
  force,     \* --force-source
  result,    \* how the last run ended
  run,       \* runs started; also names the run's transaction_id
  adversity  \* how much may still go wrong

disk == <<live, stage, backup, journal, marker>>
proc == <<pc, caller, i, complete, force, result>>
vars == <<disk, release, proc, run, adversity>>

NoJournal ==
  [id |-> 0, recipe |-> 0, had_live |-> [p \in Path |-> FALSE],
   phase |-> [p \in Path |-> "pending"], published |-> FALSE]
NoMarker == [id |-> 0, release |-> 0, seal |-> Nowhere]

HasJournal == journal.id # 0
BackupEmpty == backup = Nowhere
Good(o) == o >= Sound
\* validate_recipe_outputs: every rule's file is there and passes its checks.
ValidOutputs(f) == \A p \in Path : Good(f[p])
\* marker_matches_recipe: the same extractor version and recipe digest.
MarkerMatches == marker.id # 0 /\ marker.release = release
\* Mutant: the marker is trusted without its metadata seal.
MarkerUnsealed == MarkerMatches /\ ValidOutputs(live)

\* marker_fast_valid, and the acceptance test of recover_transaction.
MarkerAccepts == MarkerMatches /\ ValidOutputs(live) /\ live = marker.seal

Init ==
  /\ live \in [Path -> {NoFile, Stale, Sound}]
  /\ stage = Nowhere
  /\ backup = Nowhere
  /\ journal = NoJournal
  /\ marker = NoMarker
  /\ release = 1
  /\ pc = "idle"
  /\ caller = "none"
  /\ i = 0
  /\ complete = TRUE
  /\ force = FALSE
  /\ result = "none"
  /\ run = 0
  /\ adversity = MaxAdversity

Goto(label) ==
  /\ pc' = label
  /\ UNCHANGED <<caller, i, complete, force, result>>

Exit(status) ==
  /\ pc' = "idle"
  /\ caller' = "none"
  /\ i' = 0
  /\ complete' = TRUE
  /\ force' = FALSE
  /\ result' = status

Unharmed == UNCHANGED <<release, run, adversity>>

-----------------------------------------------------------------------------
(* install_command up to the commit *)

Start ==
  /\ pc = "idle"
  /\ run < MaxRuns
  /\ run' = run + 1
  /\ pc' = "recover"
  /\ force' \in BOOLEAN
  /\ result' = "running"
  /\ UNCHANGED <<disk, release, caller, i, complete, adversity>>

RecoverNothing ==
  /\ pc = "recover"
  /\ ~HasJournal
  /\ Goto("ready")
  /\ UNCHANGED disk
  /\ Unharmed

\* Mutant: the recorded phases decide on publication, not the marker.
RecoverByPhase ==
  /\ pc = "recover"
  /\ HasJournal
  /\ journal.recipe = RecipeOf[release]
  /\ \A p \in Path : journal.phase[p] = "installed"
  /\ pc' = "discard-backup"
  /\ caller' = "recover"
  /\ UNCHANGED <<disk, i, complete, force, result>>
  /\ Unharmed

RecoverPublished ==
  /\ pc = "recover"
  /\ HasJournal
  /\ journal.recipe = RecipeOf[release]
  /\ marker.id = journal.id
  /\ MarkerAccepts
  /\ pc' = "discard-backup"
  /\ caller' = "recover"
  /\ UNCHANGED <<disk, i, complete, force, result>>
  /\ Unharmed

RecoverUnpublished ==
  /\ pc = "recover"
  /\ HasJournal
  /\ journal.recipe = RecipeOf[release]
  /\ ~(marker.id = journal.id /\ MarkerAccepts)
  /\ pc' = "rollback"
  /\ caller' = "recover"
  /\ i' = N
  /\ UNCHANGED <<disk, complete, force, result>>
  /\ Unharmed

\* recover_transaction takes an OSError met while it validates a published
\* payload for a payload that failed validation.
RecoverMisread ==
  /\ TransientReads
  /\ pc = "recover"
  /\ HasJournal
  /\ journal.recipe = RecipeOf[release]
  /\ marker.id = journal.id
  /\ MarkerAccepts
  /\ adversity > 0
  /\ adversity' = adversity - 1
  /\ pc' = "rollback"
  /\ caller' = "recover"
  /\ i' = N
  /\ UNCHANGED <<disk, release, run, complete, force, result>>

\* Mutant: the fast path takes any valid files for those of the marker.
FastPathUnsealed ==
  /\ pc = "ready"
  /\ ~force
  /\ MarkerUnsealed
  /\ Exit("ok")
  /\ UNCHANGED disk
  /\ Unharmed

FastPath ==
  /\ pc = "ready"
  /\ ~force
  /\ MarkerAccepts
  /\ Exit("ok")
  /\ UNCHANGED disk
  /\ Unharmed

\* try_adopt_existing writes a marker with a transaction id of its own.
AdoptLive ==
  /\ marker' = [id |-> run, release |-> release, seal |-> live]
  /\ Goto("finished")
  /\ UNCHANGED <<live, stage, backup, journal>>

Adopt ==
  /\ pc = "ready"
  /\ ~force
  /\ ~MarkerAccepts
  /\ ValidOutputs(live)
  /\ AdoptLive
  /\ Unharmed

\* _prepare_stage_state drops a stage built for another source; extract_plan
\* keeps of the rest what _resume_item_valid accepts.
KeepSome ==
  /\ \E kept \in SUBSET Path :
       stage' = [p \in Path |-> IF p \in kept THEN stage[p] ELSE NoFile]
  /\ Goto("extract")
  /\ UNCHANGED <<live, backup, journal, marker>>

ResumeStage ==
  /\ pc = "ready"
  /\ force \/ ~ValidOutputs(live)
  /\ KeepSome
  /\ Unharmed

\* The error may hit marker_fast_valid alone: the payload that its own marker
\* vouches for is adopted, under another transaction id.
AdoptMisread ==
  /\ TransientReads
  /\ pc = "ready"
  /\ ~force
  /\ MarkerAccepts
  /\ adversity > 0
  /\ adversity' = adversity - 1
  /\ AdoptLive
  /\ UNCHANGED <<release, run>>

\* Or try_adopt_existing too: intact data is extracted once more.
ReadyMisread ==
  /\ TransientReads
  /\ pc = "ready"
  /\ ~force
  /\ ValidOutputs(live)
  /\ adversity > 0
  /\ adversity' = adversity - 1
  /\ KeepSome
  /\ UNCHANGED <<release, run>>

ExtractItem ==
  /\ pc = "extract"
  /\ \E p \in Path :
       /\ stage[p] = NoFile
       /\ \A q \in 1..(p - 1) : stage[q] # NoFile
       /\ stage' = [stage EXCEPT ![p] = Extracted(run)]
  /\ Goto("extract")
  /\ UNCHANGED <<live, backup, journal, marker>>
  /\ Unharmed

StageValidated ==
  /\ pc = "extract"
  /\ ValidOutputs(stage)
  /\ Goto("commit")
  /\ UNCHANGED disk
  /\ Unharmed

\* The staged set fails validation: it is thrown away and the run fails.
StageRejected ==
  /\ pc = "extract"
  /\ \A p \in Path : stage[p] # NoFile
  /\ adversity > 0
  /\ adversity' = adversity - 1
  /\ stage' = Nowhere
  /\ Exit("failed")
  /\ UNCHANGED <<live, backup, journal, marker, release, run>>

-----------------------------------------------------------------------------
(* commit_stage *)

\* Mutant: the journal does not record which paths held live data.
CommitBeginUnprobed ==
  /\ pc = "commit"
  /\ BackupEmpty
  /\ ~HasJournal
  /\ journal' = [NoJournal EXCEPT !.id = run, !.recipe = RecipeOf[release]]
  /\ Goto("created")
  /\ UNCHANGED <<live, stage, backup, marker>>
  /\ Unharmed

\* The journal is on disk before the first payload file moves.
CommitBegin ==
  /\ pc = "commit"
  /\ BackupEmpty
  /\ ~HasJournal
  /\ journal' = [NoJournal EXCEPT
                   !.id = run,
                   !.recipe = RecipeOf[release],
                   !.had_live = [p \in Path |-> live[p] # NoFile]]
  /\ Goto("created")
  /\ UNCHANGED <<live, stage, backup, marker>>
  /\ Unharmed

EnterLoop ==
  /\ pc = "created"
  /\ pc' = "backup"
  /\ i' = 1
  /\ UNCHANGED <<disk, caller, complete, force, result>>
  /\ Unharmed

RecordPhase(phase) ==
  /\ journal' = [journal EXCEPT !.phase[i] = phase]
  /\ UNCHANGED <<live, stage, backup, marker>>
  /\ Unharmed

BackupIntent ==
  /\ pc = "backup"
  /\ journal.had_live[i]
  /\ RecordPhase("backup-intent")
  /\ Goto("move-out")

BackupSkipped ==
  /\ pc = "backup"
  /\ ~journal.had_live[i]
  /\ live[i] = NoFile
  /\ RecordPhase("backup-skipped")
  /\ Goto("install")

BackupRename ==
  /\ pc = "move-out"
  /\ live[i] # NoFile
  /\ backup[i] = NoFile
  /\ backup' = [backup EXCEPT ![i] = live[i]]
  /\ live' = [live EXCEPT ![i] = NoFile]
  /\ Goto("moved-out")
  /\ UNCHANGED <<stage, journal, marker>>
  /\ Unharmed

BackupRecorded ==
  /\ pc = "moved-out"
  /\ RecordPhase("backed-up")
  /\ Goto("install")

InstallIntent ==
  /\ pc = "install"
  /\ RecordPhase("install-intent")
  /\ Goto("move-in")

InstallRename ==
  /\ pc = "move-in"
  /\ stage[i] # NoFile
  /\ live[i] = NoFile
  /\ live' = [live EXCEPT ![i] = stage[i]]
  /\ stage' = [stage EXCEPT ![i] = NoFile]
  /\ Goto("moved-in")
  /\ UNCHANGED <<backup, journal, marker>>
  /\ Unharmed

\* Mutant: the loop index runs past the last path.
InstallRecordedPast ==
  /\ pc = "moved-in"
  /\ RecordPhase("installed")
  /\ pc' = IF i = N THEN "verify" ELSE "backup"
  /\ i' = i + 1
  /\ UNCHANGED <<caller, complete, force, result>>

InstallRecorded ==
  /\ pc = "moved-in"
  /\ RecordPhase("installed")
  /\ pc' = IF i = N THEN "verify" ELSE "backup"
  /\ i' = IF i = N THEN i ELSE i + 1
  /\ UNCHANGED <<caller, complete, force, result>>

PayloadValidated ==
  /\ pc = "verify"
  /\ ValidOutputs(live)
  /\ Goto("publish")
  /\ UNCHANGED disk
  /\ Unharmed

NewMarker == [id |-> journal.id, release |-> release, seal |-> live]

WriteMarker ==
  /\ pc = "publish"
  /\ marker' = NewMarker
  /\ Goto("published")
  /\ UNCHANGED <<live, stage, backup, journal>>
  /\ Unharmed

\* atomic_write replaced the marker but could not sync its directory: it
\* raises, and commit_stage rolls a published payload back.
WriteMarkerUnsynced ==
  /\ pc = "publish"
  /\ adversity > 0
  /\ adversity' = adversity - 1
  /\ marker' = NewMarker
  /\ pc' = "rollback"
  /\ caller' = "commit"
  /\ i' = N
  /\ UNCHANGED <<live, stage, backup, journal, release, run,
                 complete, force, result>>

\* Mutant: failing to record the publication rolls the payload back.
MarkPublishedStrict ==
  /\ pc = "published"
  /\ \/ /\ journal' = [journal EXCEPT !.published = TRUE]
        /\ pc' = "sync"
        /\ UNCHANGED <<adversity, caller, i>>
     \/ /\ adversity > 0
        /\ adversity' = adversity - 1
        /\ pc' = "rollback"
        /\ caller' = "commit"
        /\ i' = N
        /\ UNCHANGED journal
  /\ UNCHANGED <<live, stage, backup, marker, release, run,
                 complete, force, result>>

\* Failing to record the publication is tolerated.
MarkPublished ==
  /\ pc = "published"
  /\ \/ /\ journal' = [journal EXCEPT !.published = TRUE]
        /\ UNCHANGED adversity
     \/ /\ adversity > 0
        /\ adversity' = adversity - 1
        /\ UNCHANGED journal
  /\ Goto("sync")
  /\ UNCHANGED <<live, stage, backup, marker, release, run>>

SyncGameDir ==
  /\ pc = "sync"
  /\ pc' = "discard-backup"
  /\ caller' = "commit"
  /\ UNCHANGED <<disk, i, complete, force, result>>
  /\ Unharmed

\* The tests and calls inside commit_stage's try that raise of themselves.
CommitBlocked ==
  \/ pc = "backup" /\ ~journal.had_live[i] /\ live[i] # NoFile
  \/ pc = "move-out" /\ (live[i] = NoFile \/ backup[i] # NoFile)
  \/ pc = "move-in" /\ (stage[i] = NoFile \/ live[i] # NoFile)
  \/ pc = "verify" /\ ~ValidOutputs(live)

\* except Exception: an I/O error, a lost setup UI or one of the tests above
\* sends commit_stage to rollback_transaction.
CommitFails ==
  /\ pc \in {"backup", "move-out", "moved-out", "install", "move-in",
             "moved-in", "verify", "publish"}
  /\ LET cost == IF CommitBlocked THEN 0 ELSE 1
     IN  adversity >= cost /\ adversity' = adversity - cost
  /\ pc' = "rollback"
  /\ caller' = "commit"
  /\ i' = N
  /\ UNCHANGED <<disk, release, run, complete, force, result>>

-----------------------------------------------------------------------------
(* rollback_transaction, over the journal's paths in reverse *)

\* Mutant: the rollback deletes what was installed.
RollbackDelete ==
  /\ pc = "rollback" /\ i > 0
  /\ live[i] # NoFile /\ stage[i] = NoFile
  /\ journal.had_live[i] <=> backup[i] # NoFile
  /\ live' = [live EXCEPT ![i] = NoFile]
  /\ Goto("rollback")
  /\ UNCHANGED <<stage, backup, journal, marker>>
  /\ Unharmed

RollbackUnstage ==
  /\ pc = "rollback" /\ i > 0
  /\ live[i] # NoFile /\ stage[i] = NoFile
  /\ journal.had_live[i] <=> backup[i] # NoFile
  /\ stage' = [stage EXCEPT ![i] = live[i]]
  /\ live' = [live EXCEPT ![i] = NoFile]
  /\ Goto("rollback")
  /\ UNCHANGED <<backup, journal, marker>>
  /\ Unharmed

RollbackRestore ==
  /\ pc = "rollback" /\ i > 0
  /\ journal.had_live[i]
  /\ backup[i] # NoFile /\ live[i] = NoFile
  /\ live' = [live EXCEPT ![i] = backup[i]]
  /\ backup' = [backup EXCEPT ![i] = NoFile]
  /\ i' = i - 1
  /\ UNCHANGED <<stage, journal, marker, pc, caller, complete, force, result>>
  /\ Unharmed

\* Nothing to undo for this path.
RollbackKeep ==
  /\ pc = "rollback" /\ i > 0
  /\ backup[i] = NoFile
  /\ journal.had_live[i] <=> live[i] # NoFile
  /\ i' = i - 1
  /\ UNCHANGED <<disk, pc, caller, complete, force, result>>
  /\ Unharmed

\* Mutant: a finished rollback forgets to remove its journal.
RollbackDoneKeeps ==
  /\ pc = "rollback" /\ i = 0
  /\ BackupEmpty
  /\ IF caller = "recover"
       THEN pc' = "ready" /\ caller' = "none"
            /\ UNCHANGED <<i, complete, force, result>>
       ELSE Exit("failed")
  /\ UNCHANGED disk
  /\ Unharmed

\* The loop is over and every backup is back: the journal goes last.
RollbackDone ==
  /\ pc = "rollback" /\ i = 0
  /\ BackupEmpty
  /\ journal' = NoJournal
  /\ IF caller = "recover"
       THEN pc' = "ready" /\ caller' = "none"
            /\ UNCHANGED <<i, complete, force, result>>
       ELSE Exit("failed")
  /\ UNCHANGED <<live, stage, backup, marker>>
  /\ Unharmed

\* The states of a path in which rollback_transaction gives up, and the backup
\* tree that is not empty at its end.
RollbackBlocked ==
  IF i = 0 THEN ~BackupEmpty
  ELSE IF journal.had_live[i]
    THEN \/ backup[i] # NoFile /\ live[i] # NoFile /\ stage[i] # NoFile
         \/ backup[i] = NoFile /\ live[i] = NoFile
    ELSE \/ backup[i] # NoFile
         \/ live[i] # NoFile /\ stage[i] # NoFile

-----------------------------------------------------------------------------
(* _finalize_published_transaction; discard_path never raises *)

DiscardBackup ==
  /\ pc = "discard-backup"
  /\ \E p \in Path :
       /\ backup[p] # NoFile
       /\ backup' = [backup EXCEPT ![p] = NoFile]
  /\ Goto("discard-backup")
  /\ UNCHANGED <<live, stage, journal, marker>>
  /\ Unharmed

BackupDiscarded ==
  /\ pc = "discard-backup"
  /\ BackupEmpty
  /\ Goto("discard-stage")
  /\ UNCHANGED disk
  /\ Unharmed

DiscardStage ==
  /\ pc = "discard-stage"
  /\ stage' = Nowhere
  /\ Goto("discard-journal")
  /\ UNCHANGED <<live, backup, journal, marker>>
  /\ Unharmed

\* discard_path kept something (the backup, the stage or the source cache).
KeepScratch ==
  /\ pc \in {"discard-backup", "discard-stage"}
  /\ adversity > 0
  /\ adversity' = adversity - 1
  /\ pc' = IF pc = "discard-backup" THEN "discard-stage" ELSE "discard-journal"
  /\ complete' = FALSE
  /\ UNCHANGED <<disk, release, run, caller, i, force, result>>

\* Mutant: the journal goes even when the backup was kept.
DiscardJournalAlways ==
  /\ pc = "discard-journal"
  /\ journal' = NoJournal
  /\ pc' = IF caller = "recover" THEN "ready" ELSE "finished"
  /\ caller' = "none"
  /\ complete' = TRUE
  /\ UNCHANGED <<live, stage, backup, marker, release, run, i, force, result,
                 adversity>>

\* The journal goes only after a complete cleanup, and may itself be kept.
DiscardJournal ==
  /\ pc = "discard-journal"
  /\ \/ complete /\ journal' = NoJournal /\ UNCHANGED adversity
     \/ ~complete /\ UNCHANGED <<journal, adversity>>
     \/ /\ complete /\ adversity > 0
        /\ adversity' = adversity - 1
        /\ UNCHANGED journal
  /\ pc' = IF caller = "recover" THEN "ready" ELSE "finished"
  /\ caller' = "none"
  /\ complete' = TRUE
  /\ UNCHANGED <<live, stage, backup, marker, release, run, i, force, result>>

-----------------------------------------------------------------------------
(* The end of a run, and what interrupts one *)

\* progress.done, then exit status 0.
Finish ==
  /\ pc = "finished"
  /\ Exit("ok")
  /\ UNCHANGED disk
  /\ Unharmed

\* The tests outside commit_stage's try that raise of themselves.
Refused ==
  \/ pc = "recover" /\ HasJournal /\ journal.recipe # RecipeOf[release]
  \/ pc = "commit" /\ (HasJournal \/ ~BackupEmpty)
  \/ pc = "rollback" /\ RollbackBlocked

\* Outside that try an I/O error, a lost setup UI or a refused test ends the
\* run with exit status 1 and leaves the disk as it is.
Raise ==
  /\ pc \in {"recover", "ready", "extract", "commit", "created", "rollback",
             "sync", "finished"}
  /\ LET cost == IF Refused THEN 0 ELSE 1
     IN  adversity >= cost /\ adversity' = adversity - cost
  /\ Exit("failed")
  /\ UNCHANGED <<disk, release, run>>

\* SIGKILL or power loss.
Crash ==
  /\ pc # "idle"
  /\ adversity > 0
  /\ adversity' = adversity - 1
  /\ Exit("crashed")
  /\ UNCHANGED <<disk, release, run>>

\* The player installs the next release of the port over this one.
Upgrade ==
  /\ pc = "idle"
  /\ release < MaxRelease
  /\ release' = release + 1
  /\ result' = "none"
  /\ UNCHANGED <<disk, pc, caller, i, complete, force, run, adversity>>

-----------------------------------------------------------------------------

Recover == RecoverNothing \/ RecoverPublished \/ RecoverUnpublished

Prepare == FastPath \/ Adopt \/ ResumeStage \/ ExtractItem \/ StageValidated

Commit ==
  \/ CommitBegin \/ EnterLoop
  \/ BackupIntent \/ BackupSkipped \/ BackupRename \/ BackupRecorded
  \/ InstallIntent \/ InstallRename \/ InstallRecorded
  \/ PayloadValidated \/ WriteMarker \/ MarkPublished \/ SyncGameDir

Rollback == RollbackUnstage \/ RollbackRestore \/ RollbackKeep \/ RollbackDone

Finalize == DiscardBackup \/ BackupDiscarded \/ DiscardStage \/ DiscardJournal

\* What the extractor does when nothing stands in its way.
Extractor == Recover \/ Prepare \/ Commit \/ Rollback \/ Finalize \/ Finish

Mishap ==
  \/ RecoverMisread \/ AdoptMisread \/ ReadyMisread \/ StageRejected
  \/ CommitFails \/ WriteMarkerUnsynced \/ KeepScratch
  \/ Raise \/ Crash

Next == Start \/ Extractor \/ Mishap \/ Upgrade

Spec == Init /\ [][Next]_vars

\* A started extractor keeps being scheduled.
FairSpec == Spec /\ WF_vars(Extractor)

-----------------------------------------------------------------------------
(* Properties *)

Journals ==
  [id : Nat, recipe : Nat, had_live : [Path -> BOOLEAN],
   phase : [Path -> Phase], published : BOOLEAN]
Markers == [id : Nat, release : Nat, seal : [Path -> Object]]
Labels ==
  {"idle", "recover", "ready", "extract", "commit", "created", "backup",
   "move-out", "moved-out", "install", "move-in", "moved-in", "verify",
   "publish", "published", "sync", "rollback", "discard-backup",
   "discard-stage", "discard-journal", "finished"}

DiskType ==
  /\ live \in [Path -> Object]
  /\ stage \in [Path -> Object]
  /\ backup \in [Path -> Object]
  /\ journal \in Journals
  /\ marker \in Markers
ProcType ==
  /\ pc \in Labels
  /\ caller \in {"none", "recover", "commit"}
  /\ i \in 0..N
  /\ complete \in BOOLEAN
  /\ force \in BOOLEAN
  /\ result \in {"none", "running", "ok", "failed", "crashed"}
RunType ==
  /\ release \in 1..MaxRelease
  /\ run \in Nat
  /\ adversity \in Nat

\* Every variable keeps to the values the code gives it.
TypeOK == DiskType /\ ProcType /\ RunType

\* The rollback finds no path in a state it gives up on ("ambiguous rollback
\* state", "backup is missing", "unexpected backup") and no untracked backup at
\* its end, whatever crashed or failed before: no journal blocks the port.
RollbackNeverBlocked == pc = "rollback" => ~RollbackBlocked

\* A file of the old payload is only ever in backup while a journal says how
\* to bring it back.
NoOrphanBackup == ~BackupEmpty => HasJournal

\* The file that rollback_transaction would leave at each path.
Restored ==
  [p \in Path |->
     IF ~journal.had_live[p] THEN NoFile
     ELSE IF backup[p] # NoFile THEN backup[p] ELSE live[p]]

\* The marker is the publication boundary: a transaction whose own marker
\* accepts the payload is finished, any other one is undone.
Published == marker.id = journal.id /\ MarkerAccepts
Undone == HasJournal /\ (pc = "rollback" \/ ~Published)

\* The payload the next launch can rely on, worked out from the files.
Payload == IF Undone THEN Restored ELSE live
Certified == MarkerMatches /\ marker.seal = Payload

Abstract == INSTANCE AtomicInstall
              WITH payload <- Payload, certified <- Certified

\* At every instant, half way through a commit, a rollback or a cleanup too,
\* the dependable payload is replaced at all paths at once, with its
\* certificate, or not at all.
InstallIsAtomic == Abstract!Spec

\* Data from before the extractor and extracted data do not occur together.
Whole(f) ==
  \/ \A p \in Path : f[p] <= Sound
  \/ \A p \in Path : f[p] > Sound

\* The dependable payload never holds old data at one path and extracted data
\* at another, whatever was interrupted on the way.
NeverMixed == Whole(Payload)

\* A file leaves backup only for the game directory, until the transaction's
\* marker accepts the new payload.
OldPayloadKept ==
  [][\A p \in Path :
       backup[p] # NoFile /\ backup'[p] = NoFile =>
         live'[p] = backup[p] \/ (HasJournal /\ Published)]_vars

\* A rollback leaves all the staged work in the stage ("staged work was
\* preserved"), so that the next run need not extract it again.
StagedWorkKept ==
  [][HasJournal /\ ~(HasJournal') /\ ~Published =>
       \A p \in Path : stage'[p] # NoFile]_vars

\* Exit status 0 means that a marker vouches for what is in the game directory.
OkMeansInstalled == result = "ok" => MarkerAccepts

\* A run that meets no mishap of its own succeeds and leaves no journal,
\* whatever the runs before it left behind.
SelfHealing ==
  pc = "recover" /\ adversity = 0
    ~> pc = "idle" /\ result = "ok" /\ ~HasJournal

\* A payload this run committed is not reported as a failed run (the docstring
\* of discard_path, and the comment at the publication boundary).
CommittedNeverFailed ==
  ~(/\ result = "failed"
    /\ marker.id = run /\ MarkerAccepts
    /\ \A p \in Path : live[p] > Sound)

\* "From here on the validated payload is live" (the comment at the publication
\* boundary): once the journal records the publication and the marker is the
\* transaction's own, no file that the marker seals leaves the game directory.
PublishedStaysLive ==
  [][HasJournal /\ journal.published /\ marker.id = journal.id =>
       \A p \in Path :
         live[p] # NoFile /\ live[p] = marker.seal[p] =>
           live'[p] = live[p]]_vars
=============================================================================
