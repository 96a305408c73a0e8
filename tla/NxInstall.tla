------------------------------ MODULE NxInstall ------------------------------
(***************************************************************************)
(* install_command of magicrampage/nxextract/nxextract.py around the       *)
(* payload transaction: the workspace lock, the progress file, the setup   *)
(* UI, the staged files with the plan they belong to (state.json) and the  *)
(* markers of the recipe's hooks.  All but the lock outlive a run, and the *)
(* progress file and the two UI files are shared by extractors that        *)
(* overlap: one that cannot have the lock, or one that has released it and *)
(* is still reporting its failure.                                         *)
(*                                                                         *)
(* The transaction itself is one step here, as AtomicInstall describes it  *)
(* and NxTransaction refines it: it publishes the stage or leaves          *)
(* everything as it was, and a killed run's journal is settled by the      *)
(* recovery of the next run before anything else happens.                  *)
(***************************************************************************)
EXTENDS Naturals, Sequences, FiniteSets

CONSTANTS
  MaxRuns,      \* bound: extractor processes that are ever started
  MaxAtOnce,    \* bound: those of them that are there at the same time
  MaxMishaps,   \* bound: kills, I/O errors, failing hooks and dying UIs
  MaxWrites,    \* bound: how often a hook that outlives its extractor still writes
  MaxChanges,   \* bound: files copied over the source, or upgrades of the port
  Payloads,     \* the game files a player may have in gamedata/
  First,        \* the one that is there at first
  Fingerprint,  \* Plan.fingerprint of each of them
  NPath,        \* the commit paths of the recipe are 1..NPath
  NItem,        \* the first NItem of them are extracted from the payload
  Target,       \* the path that each hook writes, in the order of the recipe
  Options,      \* what each run may be started with: <<--force-source, --require-ui>>
  Distinguishes,\* hook checkpoints tell a hook's output from an extracted file
  Accepts       \* <<release, payload, hooks' release>>: what passes its validation

Run == 1..MaxRuns
NoRun == 0
Path == 1..NPath
Item == 1..NItem
Hook == 1..Len(Target)
Release == 1..(MaxChanges + 1)

ASSUME InstallAssumption ==
  /\ MaxRuns \in Nat /\ MaxAtOnce \in Nat /\ MaxMishaps \in Nat
  /\ MaxWrites \in Nat \ {0} /\ MaxChanges \in Nat
  /\ NPath \in Nat /\ NItem \in 1..NPath
  /\ Target \in Seq(Path)
  /\ Distinguishes \in BOOLEAN
  /\ First \in Payloads /\ "stray" \notin Payloads
  /\ Options \in [Run -> SUBSET (BOOLEAN \X BOOLEAN)]

(***************************************************************************)
(* A file is known by the payload it comes from, the release of the recipe *)
(* whose hook wrote it (0: it was extracted) and whether it is sound.  Of  *)
(* what a hook writes that has outlived its extractor nobody knows which   *)
(* payload it is made of: it is a stray file.  Payloads may share a        *)
(* fingerprint: a file that is taken whole adds but its size to it.        *)
(***************************************************************************)
Raw(p) == [of |-> p, by |-> 0, sound |-> TRUE]
Hooked(p, r, s) == [of |-> p, by |-> r, sound |-> s]
NoFile == [of |-> "none", by |-> 0, sound |-> FALSE]
Stray == "stray"
File == [of : Payloads \cup {"none", Stray}, by : {0} \cup Release, sound : BOOLEAN]
Nowhere == [p \in Path |-> NoFile]
NoState == [recipe |-> 0, plan |-> 0]

VARIABLES
  game,      \* the game directory: path -> file
  cert,      \* recipe digest of the installation marker, 0 without one
  stage,     \* workspace/stage: path -> file
  state,     \* workspace/state.json
  marker,    \* workspace/hooks/<id>.json: the recipe digest, 0 without one
  orphan,    \* hooks, with recipe and writes left, that outlived a killed extractor
  source,    \* the payload in gamedata/
  release,   \* the recipe that is shipped now
  lock,      \* who holds workspace/install.lock
  told,      \* the state in the progress file: 1 working, 2 failed, 3 done
  stop_file, \* workspace/ui.stop is there
  ready_file,\* workspace/ui.ready is there
  ui,        \* the UI process of each run; "none": the run has none
  pc,        \* where each run is
  force,     \* --force-source
  require,   \* --require-ui
  sel,       \* the payload of the run's plan
  at,        \* the item or the hook at hand
  ready,     \* UISession.ready
  code,      \* how a live run ends; "cut": it was killed or could not clean up
  alone,     \* history of a live run: no other run, no UI of another run
  calm,      \* history of a live run: and nothing went wrong either
  dark,      \* history of a live run: it has worked since its UI died
  fails,     \* history: failed runs in a row, none of them disturbed
  mishaps, changes

data == <<game, cert, stage, state, marker>>
world == <<orphan, source, release, changes>>
screen == <<stop_file, ready_file, ui>>
own == <<force, require, dark>>
mem == <<sel, at, ready>>
hist == <<code, alone, calm, fails>>
vars == <<data, world, lock, told, screen, pc, own, mem, hist, mishaps>>

Init ==
  /\ game = Nowhere /\ cert = 0
  /\ stage = Nowhere /\ state = NoState
  /\ marker = [h \in Hook |-> 0]
  /\ orphan = {} /\ source = First /\ release = 1
  /\ lock = NoRun /\ told = 1
  /\ stop_file = FALSE /\ ready_file = FALSE
  /\ ui = [r \in Run |-> "none"]
  /\ pc = [r \in Run |-> "off"]
  /\ force = [r \in Run |-> FALSE] /\ require = [r \in Run |-> FALSE]
  /\ sel = [r \in Run |-> First]
  /\ at = [r \in Run |-> 1]
  /\ ready = [r \in Run |-> FALSE]
  /\ code = [r \in Run |-> "none"]
  /\ alone = [r \in Run |-> TRUE] /\ calm = [r \in Run |-> TRUE] /\ fails = 0
  /\ dark = [r \in Run |-> FALSE]
  /\ mishaps = MaxMishaps /\ changes = MaxChanges

-----------------------------------------------------------------------------
(* Small steps that the actions share *)

Alive(r) == pc[r] \notin {"off", "end"}
Showing(k) == ui[k] \in {"opening", "visible"}
Go(r, label) == pc' = [pc EXCEPT ![r] = label]

\* Progress.update; a write that fails, and is not tried again, is left out.
Tell(s) == told' = s

\* The end of a process, and of its memory.
Leave(r, cut) ==
  /\ Go(r, "end")
  /\ code' = [code EXCEPT ![r] = IF cut THEN "cut" ELSE "none"]
  /\ fails' = IF code[r] = "failed" /\ calm[r] /\ ~cut THEN fails + 1 ELSE 0
  /\ alone' = [alone EXCEPT ![r] = TRUE] /\ calm' = [calm EXCEPT ![r] = TRUE]
  /\ force' = [force EXCEPT ![r] = FALSE]
  /\ require' = [require EXCEPT ![r] = FALSE]
  /\ dark' = [dark EXCEPT ![r] = FALSE]
  /\ sel' = [sel EXCEPT ![r] = First]
  /\ at' = [at EXCEPT ![r] = 1]
  /\ ready' = [ready EXCEPT ![r] = FALSE]

\* UISession.assert_visible: what makes Progress.update raise.
Blind(r) == ready[r] /\ ui[r] = "dead"

\* An exception leaves the with block, and the lock, before it is handled.
Raise(r) == Go(r, "error") /\ lock' = NoRun

Mishap(r) ==
  /\ mishaps > 0 /\ mishaps' = mishaps - 1
  /\ calm' = [calm EXCEPT ![r] = FALSE]
  /\ UNCHANGED <<code, alone, fails>>

\* A step that tells its progress first and touches no UI.
Working(r) ==
  /\ ~Blind(r)
  /\ Tell(1)
  /\ UNCHANGED <<lock, screen, world, own, hist, mishaps>>

\* A step that asks nothing: between two updates the UI may have died.
Quiet == UNCHANGED <<lock, told, screen, world, own, hist, mishaps>>

\* Such a step that reads the payload, writes the stage or publishes it.
Unseen(r) ==
  /\ dark' = [dark EXCEPT ![r] = @ \/ ui[r] = "dead"]
  /\ UNCHANGED <<told, screen, world, force, require>>

-----------------------------------------------------------------------------
(* The lock and the way to the screen *)

\* Nobody waits for the run before, nor for a hook it has left: they overlap.
Start(r) ==
  LET Company == {k \in Run \ {r} : Alive(k)}
      Shown == {k \in Run \ {r} : Showing(k)}
  IN
  /\ pc[r] = "off"
  /\ \A k \in Run : k < r => pc[k] # "off"
  /\ Cardinality(Company) < MaxAtOnce
  /\ Go(r, "lock")
  /\ \E o \in Options[r] : /\ force' = [force EXCEPT ![r] = o[1]]
                        /\ require' = [require EXCEPT ![r] = o[2]]
  /\ alone' = [k \in Run |-> IF k \in Company THEN FALSE
                             ELSE IF k = r THEN Company \cup Shown = {} /\ orphan = {}
                             ELSE alone[k]]
  /\ calm' = [k \in Run |-> calm[k] /\ alone'[k]]
  /\ UNCHANGED <<data, world, lock, told, screen, dark, mem, code, fails, mishaps>>

\* Mutant: the lock is taken whoever holds it.
TakeLockAnyway(r) ==
  /\ pc[r] = "lock"
  /\ lock' = r
  /\ Go(r, "begin")
  /\ UNCHANGED <<data, world, told, screen, own, mem, hist, mishaps>>

TakeLock(r) ==
  /\ pc[r] = "lock"
  /\ lock = NoRun /\ lock' = r
  /\ Go(r, "begin")
  /\ UNCHANGED <<data, world, told, screen, own, mem, hist, mishaps>>

LockBusy(r) ==
  /\ pc[r] = "lock"
  /\ lock # NoRun
  /\ Go(r, "error")
  /\ UNCHANGED <<data, mem>> /\ Quiet

\* marker_fast_valid: progress.done is called before there is a guard.
Fast(r) ==
  /\ pc[r] = "begin"
  /\ ~force[r] /\ cert = release
  /\ Tell(3)
  /\ Go(r, "unlock")
  /\ UNCHANGED <<data, world, lock, screen, own, mem, hist, mishaps>>

NotInstalled(r) == pc[r] = "begin" /\ (force[r] \/ cert # release)

\* Mutant: the files of the session before are left where they are.
OpenOverOldFiles(r) ==
  /\ NotInstalled(r)
  /\ ui' = [ui EXCEPT ![r] = "opening"]
  /\ Go(r, IF require[r] THEN "confirm" ELSE "up")
  /\ UNCHANGED <<data, world, lock, told, stop_file, ready_file, own, mem, hist,
                 mishaps>>

\* UISession.start up to Popen.
OpenScreen(r) ==
  /\ NotInstalled(r)
  /\ stop_file' = FALSE /\ ready_file' = FALSE
  /\ ui' = [ui EXCEPT ![r] = "opening"]
  /\ Go(r, IF require[r] THEN "confirm" ELSE "up")
  /\ UNCHANGED <<data, world, lock, told, own, mem, hist, mishaps>>

\* No binary is found, or it cannot be started.
NoScreen(r) ==
  /\ NotInstalled(r) /\ require[r]
  /\ \/ UNCHANGED <<stop_file, ready_file>>
     \/ stop_file' = FALSE /\ ready_file' = FALSE
  /\ Raise(r)
  /\ Mishap(r)
  /\ UNCHANGED <<data, world, told, ui, own, mem>>

\* --ui none, or no binary: a UI that is not required may be absent.
Headless(r) ==
  /\ NotInstalled(r) /\ ~require[r]
  /\ Go(r, "up")
  /\ UNCHANGED <<data, mem>> /\ Quiet

\* The proof is there and the process still runs a moment later.
Confirm(r) ==
  /\ pc[r] = "confirm"
  /\ ready_file /\ Showing(r)
  /\ ready' = [ready EXCEPT ![r] = TRUE]
  /\ Go(r, "up")
  /\ UNCHANGED <<data, sel, at>> /\ Quiet

\* Mutant: the proof is waited for as long as the process runs.
NotConfirmedEver(r) ==
  /\ pc[r] = "confirm"
  /\ ui[r] = "dead"
  /\ Raise(r)
  /\ UNCHANGED <<data, world, told, screen, own, mem, hist, mishaps>>

\* It exited, or five seconds have passed without a proof.
NotConfirmed(r) ==
  /\ pc[r] = "confirm"
  /\ ui[r] = "dead" \/ ~ready_file
  /\ Raise(r)
  /\ calm' = [calm EXCEPT ![r] = @ /\ ui[r] = "dead"]
  /\ UNCHANGED <<data, world, told, screen, own, mem, code, alone,
                 fails, mishaps>>

\* From here on every update asks the guard.
Up(r) ==
  /\ pc[r] = "up"
  /\ Working(r)
  /\ Go(r, IF force[r] THEN "scan" ELSE "adopt")
  /\ UNCHANGED <<data, mem>>


-----------------------------------------------------------------------------
(* From the payload to the stage *)

\* validate_recipe_outputs, by the rules of the recipe at hand: it cannot know
\* where a file comes from, but a path that a hook writes does not pass without
\* the hook's work.
Passes(f, rel) == f.of \in Payloads => <<rel, f.of, f.by>> \in Accepts
ValidOutputs(f, rel) ==
  \A p \in Path : /\ f[p].sound /\ Passes(f[p], rel)
                  /\ p \in {Target[h] : h \in Hook} => f[p].by # 0

\* try_adopt_existing; it tells nothing until it has succeeded.
Adopt(r) ==
  /\ pc[r] = "adopt"
  /\ IF ValidOutputs(game, release) THEN cert' = release /\ Go(r, "tell")
                           ELSE UNCHANGED cert /\ Go(r, "scan")
  /\ UNCHANGED <<game, stage, state, marker, mem>> /\ Quiet

Scan(r) ==
  /\ pc[r] = "scan"
  /\ Working(r)
  /\ Go(r, "select")
  /\ UNCHANGED <<data, mem>>

\* resolve_plan, after the last candidate was told.
Select(r) ==
  /\ pc[r] = "select"
  /\ sel' = [sel EXCEPT ![r] = source]
  /\ Go(r, "prepare")
  /\ Unseen(r)
  /\ UNCHANGED <<data, at, ready, lock, hist, mishaps>>

Expected(r) == [recipe |-> release, plan |-> Fingerprint[sel[r]]]

\* Mutant: only the recipe is compared.
PrepareByRecipe(r) ==
  /\ pc[r] = "prepare"
  /\ IF state \notin {NoState, Expected(r)} /\ state.recipe # release
       THEN stage' = Nowhere /\ Go(r, "wipe")
       ELSE UNCHANGED stage /\ Go(r, "record")
  /\ UNCHANGED <<game, cert, state, marker, mem>> /\ Quiet

\* _prepare_stage_state: two removals, then the record.
Prepare(r) ==
  /\ pc[r] = "prepare"
  /\ IF state \notin {NoState, Expected(r)}
       THEN stage' = Nowhere /\ Go(r, "wipe")
       ELSE UNCHANGED stage /\ Go(r, "record")
  /\ UNCHANGED <<game, cert, state, marker, mem>> /\ Quiet

WipeHooks(r) ==
  /\ pc[r] = "wipe"
  /\ marker' = [h \in Hook |-> 0]
  /\ Go(r, "record")
  /\ UNCHANGED <<game, cert, stage, state, mem>> /\ Quiet

WriteState(r) ==
  /\ pc[r] = "record"
  /\ state' = Expected(r)
  /\ at' = [at EXCEPT ![r] = 1]
  /\ Go(r, "extract")
  /\ UNCHANGED <<game, cert, stage, marker, sel, ready>> /\ Quiet

\* _resume_item_valid: size and checksum of the item against the payload.
AtItem(r) == pc[r] = "extract" /\ at[r] <= NItem
Kept(r) == stage[at[r]] = Raw(sel[r])

KeepItem(r) ==
  /\ AtItem(r) /\ Kept(r)
  /\ at' = [at EXCEPT ![r] = @ + 1]
  /\ UNCHANGED <<data, pc, sel, ready>> /\ Quiet

Extract(r) ==
  /\ AtItem(r) /\ ~Kept(r)
  /\ Working(r)
  /\ Go(r, "copy")
  /\ UNCHANGED <<data, mem>>

\* The last block was told; the fsync and the rename were not.
Copy(r) ==
  /\ pc[r] = "copy"
  /\ stage' = [stage EXCEPT ![at[r]] = Raw(sel[r])]
  /\ at' = [at EXCEPT ![r] = @ + 1]
  /\ Go(r, "extract")
  /\ Unseen(r)
  /\ UNCHANGED <<game, cert, state, marker, sel, ready, lock, hist, mishaps>>

ItemsDone(r) ==
  /\ pc[r] = "extract" /\ at[r] > NItem
  /\ Working(r)
  /\ at' = [at EXCEPT ![r] = 1]
  /\ Go(r, "hook")
  /\ UNCHANGED <<data, sel, ready>>

-----------------------------------------------------------------------------
(* The hooks of the recipe *)

More(r) == pc[r] = "hook" /\ at[r] <= Len(Target)

\* _checkpoint_valid: what it looks at may fit an extracted file as well.
CheckpointValid(h) ==
  /\ stage[Target[h]] # NoFile
  /\ Distinguishes => stage[Target[h]].by # 0

Resumable(r) == marker[at[r]] = release /\ CheckpointValid(at[r])

SkipHook(r) ==
  /\ More(r)
  /\ Resumable(r)
  /\ at' = [at EXCEPT ![r] = @ + 1]
  /\ UNCHANGED <<data, pc, sel, ready>> /\ Quiet

StartHook(r) ==
  /\ More(r) /\ ~Resumable(r)
  /\ Working(r)
  /\ Go(r, "run")
  /\ UNCHANGED <<data, mem>>

\* It works on what is in the stage, and no better than that is.
Writes(r, sound) ==
  stage' = [stage EXCEPT ![Target[at[r]]] =
              Hooked(stage[1].of, release, sound /\ stage[1].sound)]

\* It need not tell anything on its way.
RunHook(r) ==
  /\ pc[r] = "run"
  /\ Writes(r, TRUE)
  /\ Go(r, "mark")
  /\ Unseen(r)
  /\ UNCHANGED <<game, cert, state, marker, mem, lock, hist, mishaps>>

\* It exits with 0 and the checkpoint passes, but its work is not sound.
HookDefective(r) ==
  /\ pc[r] = "run"
  /\ Writes(r, FALSE)
  /\ Go(r, "mark")
  /\ Unseen(r)
  /\ Mishap(r)
  /\ UNCHANGED <<game, cert, state, marker, mem, lock>>

\* What a hook leaves that is cut off at any point of its work.
HalfDone(r) == Writes(r, FALSE) \/ UNCHANGED stage

HookFails(r) ==
  /\ pc[r] = "run"
  /\ HalfDone(r)
  /\ Raise(r)
  /\ Mishap(r)
  /\ UNCHANGED <<game, cert, state, marker, told, screen, world, own, mem>>

\* Its progress lines are told too: it is terminated when the screen is lost.
HookStopped(r) ==
  /\ pc[r] = "run"
  /\ Blind(r)
  /\ HalfDone(r)
  /\ Raise(r)
  /\ UNCHANGED <<game, cert, state, marker, told, screen, world, own, mem, hist,
                 mishaps>>

Mark(r) ==
  /\ pc[r] = "mark"
  /\ marker' = [marker EXCEPT ![at[r]] = release]
  /\ at' = [at EXCEPT ![r] = @ + 1]
  /\ Go(r, "hook")
  /\ UNCHANGED <<game, cert, stage, state, sel, ready>> /\ Quiet

HooksDone(r) ==
  /\ pc[r] = "hook" /\ ~More(r)
  /\ Working(r)
  /\ Go(r, "validate")
  /\ UNCHANGED <<data, mem>>

-----------------------------------------------------------------------------
(* From the stage to the game directory *)

\* Mutant: the rejected files stay and are resumed.
ValidateKeeps(r) ==
  /\ pc[r] = "validate"
  /\ Go(r, IF ValidOutputs(stage, release) THEN "commit" ELSE "reject")
  /\ UNCHANGED <<data, mem>> /\ Quiet

Validate(r) ==
  /\ pc[r] = "validate"
  /\ IF ValidOutputs(stage, release) THEN UNCHANGED stage /\ Go(r, "commit")
                                     ELSE stage' = Nowhere /\ Go(r, "reject")
  /\ UNCHANGED <<game, cert, state, marker, mem>> /\ Quiet

\* The second removal of the handler: the markers of the hooks are kept.
Reject(r) ==
  /\ pc[r] = "reject"
  /\ state' = NoState
  /\ Raise(r)
  /\ UNCHANGED <<game, cert, stage, marker, told, screen, world, own, mem, hist,
                 mishaps>>

\* commit_stage up to its last update; until then it can be undone.
EnterCommit(r) ==
  /\ pc[r] = "commit"
  /\ Working(r)
  /\ Go(r, "publish")
  /\ UNCHANGED <<data, mem>>

\* Mutant: what was valid in the stage is believed to be valid still.
CommitBelieved(r) ==
  /\ pc[r] = "publish"
  /\ game' = stage /\ cert' = release
  /\ stage' = Nowhere
  /\ Go(r, "tell")
  /\ Unseen(r)
  /\ UNCHANGED <<state, marker, mem, lock, hist, mishaps>>

\* The rest of commit_stage: the files in place are validated once more and the
\* marker is written; with the cleanup after it.
Commit(r) ==
  /\ pc[r] = "publish"
  /\ ValidOutputs(stage, release)
  /\ game' = stage /\ cert' = release
  /\ stage' = Nowhere
  /\ Go(r, "tell")
  /\ Unseen(r)
  /\ UNCHANGED <<state, marker, mem, lock, hist, mishaps>>

\* Somebody has changed the stage in between: it is all rolled back.
CommitRejected(r) ==
  /\ pc[r] = "publish"
  /\ ~ValidOutputs(stage, release)
  /\ Raise(r)
  /\ UNCHANGED <<data, world, told, screen, own, mem, hist, mishaps>>

TellDone(r) ==
  /\ pc[r] = "tell"
  /\ ~Blind(r)
  /\ Tell(3)
  /\ Go(r, "stop")
  /\ UNCHANGED <<data, world, lock, screen, own, mem, hist, mishaps>>

-----------------------------------------------------------------------------
(* What goes wrong *)

\* The guard raises in an update, at the start of a step or on its way.
ScreenLost(r) ==
  /\ \/ pc[r] \in {"up", "scan", "select", "extract", "copy", "commit", "tell"}
     \/ pc[r] = "hook" /\ ~(More(r) /\ Resumable(r))
  /\ Blind(r)
  /\ Raise(r)
  /\ UNCHANGED <<data, world, told, screen, own, mem, hist, mishaps>>

\* An I/O error in any step under the lock; commit_stage rolls itself back.
Interrupted(r) ==
  /\ lock = r
  /\ pc[r] # "unlock"
  /\ Raise(r)
  /\ Mishap(r)
  /\ UNCHANGED <<data, world, told, screen, own, mem>>

\* SIGKILL, or power loss: a hook is a process of its own and may go on.
Kill(r) ==
  /\ Alive(r)
  /\ Leave(r, TRUE)
  /\ lock' = IF lock = r THEN NoRun ELSE lock
  /\ ui' = [ui EXCEPT ![r] = IF Showing(r) THEN @ ELSE "none"]
  /\ \/ UNCHANGED orphan
     \/ pc[r] = "run" /\ orphan' = orphan \cup {<<at[r], release, MaxWrites>>}
  /\ mishaps > 0 /\ mishaps' = mishaps - 1
  /\ UNCHANGED <<data, source, release, changes, told, stop_file, ready_file>>

-----------------------------------------------------------------------------
(* The end of a run *)

\* Mutant: only a UI that has confirmed itself is stopped.
StopConfirmed(r) ==
  IF ~ready[r] THEN UNCHANGED screen
  ELSE /\ stop_file' = TRUE
       /\ ui' = [ui EXCEPT ![r] = "none"]
       /\ UNCHANGED ready_file

\* UISession.stop: the UI obeys the file within three seconds, or is killed.
StopUI(r) ==
  IF ui[r] = "none" THEN UNCHANGED screen
  ELSE /\ stop_file' = TRUE
       /\ ui' = [ui EXCEPT ![r] = "none"]
       /\ UNCHANGED ready_file

Stop(r) ==
  /\ pc[r] = "stop"
  /\ StopUI(r)
  /\ ready' = [ready EXCEPT ![r] = FALSE]
  /\ Go(r, "unlock")
  /\ UNCHANGED <<data, world, lock, told, own, sel, at, hist, mishaps>>

\* return 0: the lock goes first, then finally.
Unlock(r) ==
  /\ pc[r] = "unlock"
  /\ lock' = NoRun
  /\ code' = [code EXCEPT ![r] = "ok"]
  /\ Go(r, "final")
  /\ UNCHANGED <<data, world, told, screen, own, mem, alone, calm, fails,
                 mishaps>>

\* Mutant: the handler stops the UI of a session that never had one.
ErrorAlwaysStops(r) ==
  /\ pc[r] = "error"
  /\ Tell(2)
  /\ stop_file' = TRUE
  /\ ui' = [ui EXCEPT ![r] = "none"]
  /\ ready' = [ready EXCEPT ![r] = FALSE]
  /\ code' = [code EXCEPT ![r] = "failed"]
  /\ Go(r, "final")
  /\ UNCHANGED <<data, world, lock, ready_file, own, sel, at, alone,
                 calm, fails, mishaps>>

\* The handler: the guard is removed first, so fail() cannot raise.
Error(r) ==
  /\ pc[r] = "error"
  /\ Tell(2)
  /\ StopUI(r)
  /\ ready' = [ready EXCEPT ![r] = FALSE]
  /\ code' = [code EXCEPT ![r] = "failed"]
  /\ Go(r, "final")
  /\ UNCHANGED <<data, world, lock, own, sel, at, alone, calm,
                 fails, mishaps>>

\* The stop file cannot be written: the exception leaves the handler.
ErrorRaises(r) ==
  /\ pc[r] = "error"
  /\ ui[r] # "none"
  /\ Tell(2)
  /\ code' = [code EXCEPT ![r] = "cut"]
  /\ Go(r, "final")
  /\ mishaps > 0 /\ mishaps' = mishaps - 1
  /\ UNCHANGED <<data, world, lock, screen, own, mem, alone, calm, fails>>

Final(r) ==
  /\ pc[r] = "final"
  /\ StopUI(r)
  /\ Leave(r, code[r] = "cut")
  /\ UNCHANGED <<data, world, lock, told, mishaps>>

\* The error that kept ErrorRaises from writing ui.stop is still there.
FinalRaises(r) ==
  /\ pc[r] = "final"
  /\ ui[r] # "none"
  /\ Leave(r, TRUE)
  /\ ui' = [ui EXCEPT ![r] = IF Showing(r) THEN @ ELSE "none"]
  /\ UNCHANGED <<data, world, lock, told, stop_file, ready_file, mishaps>>

-----------------------------------------------------------------------------
(* The UI processes and the world between the runs *)

Publish(k) ==
  /\ ui[k] = "opening"
  /\ ui' = [ui EXCEPT ![k] = "visible"]
  /\ ready_file' = TRUE
  /\ UNCHANGED <<data, world, lock, told, stop_file, pc, own, mem, hist, mishaps>>

\* Nobody is left to notice the end of the UI of a run that has ended.
Gone(k) == ui' = [ui EXCEPT ![k] = IF Alive(k) THEN "dead" ELSE "none"]

ObeyStop(k) ==
  /\ Showing(k) /\ stop_file
  /\ Gone(k)
  /\ UNCHANGED <<data, world, lock, told, stop_file, ready_file, pc, own, mem, hist,
                 mishaps>>

UIDies(k) ==
  /\ Showing(k)
  /\ Gone(k)
  /\ Mishap(k)
  /\ UNCHANGED <<data, world, lock, told, stop_file, ready_file, pc, own, mem>>

\* What a left hook writes, at any time and half done or not.
OrphanWrites(o) ==
  /\ \E s \in BOOLEAN : stage' = [stage EXCEPT ![Target[o[1]]] = Hooked(Stray, o[2], s)]
  /\ orphan' = (orphan \ {o}) \cup {<<o[1], o[2], n>> : n \in {o[3] - 1} \ {0}}
  /\ UNCHANGED <<game, cert, state, marker, source, release, changes, lock, told,
                 screen, pc, own, mem, hist, mishaps>>

OrphanEnds(o) ==
  /\ orphan' = orphan \ {o}
  /\ UNCHANGED <<data, source, release, changes, lock, told, screen, pc, own, mem,
                 hist, mishaps>>

\* Another payload is copied to gamedata/, or another recipe is shipped.
Change ==
  /\ \A r \in Run : ~Alive(r)
  /\ changes > 0 /\ changes' = changes - 1
  /\ \/ source' \in Payloads \ {source} /\ UNCHANGED release
     \/ release' = release + 1 /\ UNCHANGED source
  /\ UNCHANGED <<data, orphan, lock, told, screen, pc, own, mem, hist, mishaps>>

-----------------------------------------------------------------------------
(* The specification *)

Stepping(r) ==
  \/ TakeLock(r) \/ LockBusy(r) \/ Fast(r) \/ OpenScreen(r)
  \/ Headless(r) \/ Confirm(r) \/ NotConfirmed(r) \/ Up(r) \/ Adopt(r) \/ Scan(r)
  \/ Select(r) \/ Prepare(r) \/ WipeHooks(r) \/ WriteState(r)
  \/ KeepItem(r) \/ Extract(r) \/ Copy(r) \/ ItemsDone(r)
  \/ SkipHook(r) \/ StartHook(r) \/ RunHook(r) \/ HookStopped(r) \/ Mark(r)
  \/ HooksDone(r) \/ Validate(r) \/ Reject(r) \/ EnterCommit(r) \/ Commit(r)
  \/ CommitRejected(r) \/ TellDone(r) \/ ScreenLost(r)
  \/ Stop(r) \/ Unlock(r) \/ Error(r) \/ Final(r)

Failing(r) ==
  \/ NoScreen(r) \/ HookDefective(r) \/ HookFails(r) \/ Interrupted(r)
  \/ Kill(r) \/ ErrorRaises(r) \/ FinalRaises(r)

Screen(k) == Publish(k) \/ ObeyStop(k) \/ UIDies(k)

Next ==
  \/ \E r \in Run : Start(r) \/ Stepping(r) \/ Failing(r) \/ Screen(r)
  \/ \E o \in orphan : OrphanWrites(o) \/ OrphanEnds(o)
  \/ Change

Spec == Init /\ [][Next]_vars

\* While a run is alive some run is scheduled: every wait has a deadline and
\* the hooks return.  Nothing is asked of a UI, and nobody has to start a run.
Fairness == WF_vars(\E r \in Run : Stepping(r))

FairSpec == Spec /\ Fairness

-----------------------------------------------------------------------------
(* Properties *)

\* The variables keep to their domains, and the lock belongs to a run that is
\* at work under it (WorkspaceLock.__enter__ and __exit__).
Locked == {"begin", "confirm", "up", "adopt", "scan", "select", "prepare", "wipe",
           "record", "extract", "copy", "hook", "run", "mark", "validate", "reject",
           "commit", "publish", "tell", "stop", "unlock"}

FilesOK ==
  /\ game \in [Path -> File] /\ stage \in [Path -> File]
  /\ cert \in {0} \cup Release
  /\ state = NoState \/ state \in [recipe : Release,
                                   plan : {Fingerprint[p] : p \in Payloads}]
  /\ marker \in [Hook -> {0} \cup Release]
  /\ source \in Payloads /\ release \in Release
  /\ orphan \subseteq Hook \X Release \X (1..MaxWrites)

RunsOK ==
  /\ force \in [Run -> BOOLEAN] /\ require \in [Run -> BOOLEAN]
  /\ sel \in [Run -> Payloads] /\ at \in [Run -> Nat \ {0}]
  /\ ready \in [Run -> BOOLEAN]
  /\ ui \in [Run -> {"none", "opening", "visible", "dead"}]
  /\ code \in [Run -> {"none", "ok", "failed", "cut"}]
  /\ alone \in [Run -> BOOLEAN] /\ calm \in [Run -> BOOLEAN] /\ dark \in [Run -> BOOLEAN]
  /\ \A r \in Run : /\ pc[r] \in {"run", "mark"} => at[r] \in Hook
                    /\ pc[r] = "copy" => at[r] \in Item

LockOK ==
  /\ lock \in {NoRun} \cup Run
  /\ pc \in [Run -> Locked \cup {"off", "lock", "error", "final", "end"}]
  /\ \A r \in Run : lock = r <=> pc[r] \in Locked

CountsOK ==
  /\ changes \in 0..MaxChanges /\ release + changes <= MaxChanges + 1
  /\ mishaps \in 0..MaxMishaps
  /\ told \in 1..3 /\ fails \in Nat
  /\ stop_file \in BOOLEAN /\ ready_file \in BOOLEAN

TypeOK == FilesOK /\ RunsOK /\ LockOK /\ CountsOK

\* What is in the stage belongs to the plan that state.json names, whatever was
\* interrupted, and a run that works on the stage is the one it names; but for
\* what left hooks write there.
Belongs ==
  \A p \in Path : stage[p] # NoFile /\ stage[p].of # Stray =>
    /\ state # NoState
    /\ stage[p].of \in Payloads
    /\ Fingerprint[stage[p].of] = state.plan
    /\ stage[p].by \in {0, state.recipe}

Cleared == \A p \in Path : stage[p] = NoFile \/ stage[p].of = Stray
Own(f, r) == f.of \in {sel[r], Stray}

InStep(r) ==
  /\ pc[r] \in {"wipe", "reject"} => Cleared
  /\ pc[r] = "record" => Cleared \/ state = Expected(r)
  /\ pc[r] \in {"extract", "copy", "hook", "run", "mark", "validate", "commit", "publish"}
       => state = Expected(r)
  /\ pc[r] \in {"extract", "copy"} => \A i \in Item : i < at[r] => Own(stage[i], r)
  /\ pc[r] \in {"hook", "run", "mark", "validate", "commit", "publish"} =>
       \A i \in Item : Own(stage[i], r)

StageInv == Belongs /\ \A r \in Run : InStep(r)

\* What a run publishes is made of the payload its plan selected: the extracted
\* paths of that payload itself, the hook outputs of one with the fingerprint of
\* the plan, which is all that _prepare_stage_state and run_hooks compare, and
\* all by this recipe.  Only a left hook can slip something else in.
Processed(f, r) ==
  \A p \in Path : f[p].of # Stray =>
    /\ Fingerprint[f[p].of] = Fingerprint[sel[r]] /\ (p \in Item => f[p].of = sel[r])
    /\ f[p].by \in {0, release}

CommittedIsProcessed ==
  [][\A r \in Run : Commit(r) => Processed(stage, r)]_vars

\* When the progress file says that the game data is ready, it is: the files in
\* the game directory pass the validation of the recipe that the marker names
\* (progress.done), whatever a left hook did to the stage on the way.
DoneIsTrue == told = 3 => cert # 0 /\ ValidOutputs(game, cert)

\* The same holds whenever a run is about to say so, or a marker to claim it.
DoneInv ==
  /\ cert # 0 => ValidOutputs(game, cert)
  /\ told = 3 \/ (\E r \in Run : pc[r] = "tell") => cert # 0

\* An extractor that is refused the lock may overwrite the progress file, but
\* nothing else: not the stage, not the UI of the run that is at work and not
\* the file that would stop it (UISession.stop without a process).
LoserLeavesAlone ==
  [][\A r \in Run :
       /\ pc'[r] # pc[r] /\ pc[r] \in {"lock", "error", "final"}
       /\ lock' # r /\ ui[r] = "none"
      => UNCHANGED <<data, screen, lock>>]_vars

\* README: the required screen "must attest visible output before source
\* scanning" and cannot "die during setup".  Of a run that no other run, screen or
\* left hook disturbs, the steps that read the payload, copy a file, run a hook or
\* publish are taken while its own screen shows itself, but for the one at hand
\* when the screen dies: the next update ends the run.
SetupInSight ==
  [][\A r \in Run :
       /\ require[r] /\ alone[r]
       /\ pc[r] \in {"select", "copy", "run", "publish"}
       /\ pc'[r] \notin {pc[r], "error", "end"}
      => ui[r] = "visible" \/ (ui[r] = "dead" /\ ~dark[r])]_vars

\* A run that has ended by itself leaves no screen behind, unless the file that
\* stops it could not be written (finally: ui.stop()).
NoOrphanUI == \A r \in Run : pc[r] = "end" /\ ui[r] # "none" => code[r] = "cut"

\* What a recipe owes the player: every path that it commits is extracted or is
\* written by a hook, what a hook leaves can be told from what is extracted, and
\* what it makes of any payload passes its own validation.
Complete ==
  /\ Distinguishes
  /\ \A p \in Path : p \in Item \/ \E h \in Hook : Target[h] = p
  /\ \A rel \in Release, p \in Payloads :
       <<rel, p, 0>> \in Accepts /\ <<rel, p, rel>> \in Accepts

\* The comment of the handler promises that a set that failed validation is
\* extracted from scratch: of two successive runs without a mishap of their
\* own, whatever the runs before have left, one succeeds.
TwoTries == fails < 2

\* Runs that are started end: no step of one waits for a UI, for another run or
\* for the workspace (deadlines of UISession, a lock that is not waited for).
Ends == []<>(\A r \in Run : ~Alive(r))
=============================================================================
