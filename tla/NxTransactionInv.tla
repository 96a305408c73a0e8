--------------------------- MODULE NxTransactionInv --------------------------
(***************************************************************************)
(* The inductive invariants behind the safety properties of NxTransaction. *)
(* TLC checks them as invariants of a run; NxTransactionProofs proves them *)
(* inductive.                                                              *)
(***************************************************************************)
EXTENDS NxTransaction

\* Inside commit_stage, from the journal to the marker.
CommitPc == {"created", "backup", "move-out", "moved-out", "install",
             "move-in", "moved-in", "verify", "publish"}
LoopPc == {"backup", "move-out", "moved-out", "install", "move-in", "moved-in"}
\* From the marker to the end of the cleanup.
PublishedPc == {"published", "sync", "discard-backup", "discard-stage",
                "discard-journal"}

\* A backup outlives neither its journal nor a cleanup that calls itself
\* complete.
BackupInv ==
  /\ ~BackupEmpty => HasJournal
  /\ pc \in CommitPc => HasJournal
  /\ pc \in {"discard-stage", "discard-journal"} /\ complete => BackupEmpty
  /\ run > 0 \/ pc = "idle"

\* Where the three copies of path p may stand while the transaction can still
\* be undone.
Undoable(p) ==
  IF journal.had_live[p]
    THEN \/ backup[p] = NoFile /\ live[p] # NoFile /\ stage[p] # NoFile
         \/ backup[p] # NoFile /\ live[p] = NoFile /\ stage[p] # NoFile
         \/ backup[p] # NoFile /\ live[p] > Sound /\ stage[p] = NoFile
    ELSE /\ backup[p] = NoFile
         /\ \/ live[p] = NoFile /\ stage[p] # NoFile
            \/ live[p] > Sound /\ stage[p] = NoFile

\* The transaction's marker does not stand in the way of undoing it.
Open == HasJournal /\ (pc \in CommitPc \cup {"rollback"} \/ ~Published)

StageInv ==
  /\ \A p \in Path : stage[p] = NoFile \/ stage[p] > Sound
  /\ pc = "commit" => \A p \in Path : stage[p] # NoFile

WholeInv ==
  /\ Whole(marker.seal)
  /\ ~HasJournal => Whole(live)
  /\ Open => Whole(Restored)

JournalInv ==
  /\ pc \in CommitPc \cup PublishedPc \cup {"rollback"} => HasJournal
  /\ HasJournal /\ pc \notin CommitPc \cup {"rollback", "idle", "recover"}
       => Published
  /\ Open => \A p \in Path : Undoable(p)

LoopInv ==
  /\ pc \in LoopPc => i \in Path
  /\ pc = "move-out" => journal.had_live[i]
  /\ pc \in LoopPc => \A q \in Path : q < i => live[q] > Sound
  /\ pc = "moved-in" => live[i] > Sound
  /\ pc \in {"verify", "publish"} => \A q \in Path : live[q] > Sound

RollbackInv ==
  pc = "rollback" =>
    \A p \in Path : p > i =>
      backup[p] = NoFile /\ (~journal.had_live[p] => live[p] = NoFile)

IInv == BackupInv /\ StageInv /\ WholeInv /\ JournalInv /\ LoopInv /\ RollbackInv

\* What a launcher is told: a marker vouches for the payload from the moment it
\* is written to the end of the run, and as long as the status stands.
CertInv ==
  /\ pc \in PublishedPc => HasJournal /\ Published
  /\ pc = "publish" => ValidOutputs(live)
  /\ pc = "finished" => MarkerAccepts
  /\ result = "ok" => pc = "idle" /\ MarkerAccepts

(***************************************************************************)
(* What the refinement needs besides: a new payload differs from the old   *)
(* one at every path, and the marker of a transaction seals the new one.   *)
(***************************************************************************)
\* Nothing is newer than the run at hand, and before it extracts, or while it
\* cleans up after another, nothing is of it.
NothingNewer ==
  /\ marker.id <= run /\ journal.id <= run
  /\ \A p \in Path : /\ live[p] <= Extracted(run)
                     /\ backup[p] <= Extracted(run)
                     /\ stage[p] <= Extracted(run)
CleaningUp ==
  caller = "recover" => pc \in {"rollback", "discard-backup",
                                "discard-stage", "discard-journal"}
StageOlder ==
  pc \in {"recover", "ready"} \/ caller = "recover" =>
    /\ marker.id < run
    /\ \A p \in Path : stage[p] < Extracted(run)
GameOlder ==
  pc \in {"recover", "ready", "extract", "commit"} \/ caller = "recover" =>
    /\ marker.id < run
    /\ \A p \in Path : live[p] < Extracted(run) /\ backup[p] < Extracted(run)
FreshInv == NothingNewer /\ CleaningUp /\ StageOlder /\ GameOlder

\* No file stands in two places.
DisjointInv ==
  \A p \in Path :
    /\ stage[p] # NoFile => stage[p] # live[p] /\ stage[p] # backup[p]
    /\ live[p] # NoFile => live[p] # backup[p]

\* Where the loop has been, the stage is empty.
MovedInv ==
  /\ pc \in LoopPc => \A q \in Path : q < i => stage[q] = NoFile
  /\ pc = "moved-in" => stage[i] = NoFile
  /\ pc \in {"verify", "publish"} => \A q \in Path : stage[q] = NoFile

\* A transaction has no marker before it publishes; while it can be undone,
\* its marker seals nothing that undoing would leave.
BoundaryInv ==
  /\ pc \in CommitPc => marker.id # journal.id
  /\ Open /\ marker.id = journal.id =>
       \A p \in Path : marker.seal[p] # Restored[p]

RefineInv == FreshInv /\ DisjointInv /\ MovedInv /\ BoundaryInv
=============================================================================
