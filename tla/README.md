# Magic Rampage for NextOS: a TLA+ verification project

This directory holds TLA+ models of the programs in this repository, the TLC
configurations that check them on small instances, and theorems about them that
TLAPS proves for every value of the constants. All paths are relative to the
root of the repository.

## 1. The system

The repository packages an Android game for handheld Linux devices. A launch is
a chain of programs:

1. `Magic Rampage.sh`, the *launcher*, takes the instance lock of the port,
   starts the extractor, then the game, forwards signals to it and hands the
   screen back exactly once.
2. `magicrampage/nxextract/nxextract.py`, the *extractor*, finds the owner's
   APK, extracts the files the recipe (`extractor.json`) names into a stage,
   validates them and moves them into the game directory in a transaction.
3. `src/*.c`, the *native program*, loads the game's shared objects, gives them
   bionic, pthread, JNI, GL and audio bridges, and runs the frame loop.

| Component | State it keeps | Operations | Interacts with |
|---|---|---|---|
| payload transaction (`nxextract.py` 3079-3502) | game directory, `stage/`, `backup/`, `transaction.json`, installation marker | commit, rollback, recover, finalize | the install driver; file system |
| install driver (`install_command` 3778-3938) | position in the run, exit status | recover, fast path, adopt, extract, validate, commit | all of the extractor |
| validation and seal (2469-2684, 3642-3721) | none | predicates over files, recipe and marker | transaction, driver |
| staging and hooks (2687-2996, 3759-3776) | `stage/`, `state.json`, hook checkpoints | resume, copy, run hooks | driver |
| lock, progress, setup UI (1058-1157, 2999-3034, 3505-3640) | `install.lock`, `progress.txt`, UI process | lock, update, guard, start, stop | driver; a second extractor |
| discovery and plan (1316-2398) | open archives, candidate groups, `source-cache/` | scan, unpack, match, choose | driver; the player's files |
| launcher (`Magic Rampage.sh`) | instance lock, child pid and start time, signal flags | lock, extract, start, forward, reap, finish | extractor, game, front end |
| pthread bridge (`src/pthread_bridge.c`) | one pointer per bionic object, `g_lock` | mutexes, condition variables, one-time initialisation, reader-writer locks | game threads |
| audio backend (`src/audio_backend.c`) | sound and music caches, channels, volumes | load, play, stop, volume | game, SDL_mixer |
| main program (`src/main.c`) | window, input, frame clock | start, recover provider, loop, exit | loader, bridges |
| loader (`src/so_util.c`) | segments and symbol tables of the module being loaded | load, relocate, resolve, initialise | main program |

What is hard here: the extractor may die, lose power or meet an I/O error
between any two file operations, and the next run has to work out from what is
on disk what to do; the launcher runs signal handlers between any two commands
while its child may end at any time; game threads meet in lazily translated
synchronisation objects; a sound keeps the number of a channel that may have
been given to another one.  `PROJECT.json` lists each hazard at its line.

What makes each part correct:

- *transaction*: the payload a launch can rely on is replaced as a whole or not
  at all; every interruption can be undone or finished; no old file is lost
  before its replacement is published; success means a marker vouches for what
  is there; a run that is left in peace repairs what earlier runs left.
- *install driver, lock, UI and hooks*: what is published is what the plan and
  the hooks make of the present source, whatever killed runs left behind; an
  extractor that is refused the lock harms nothing but the progress file; a
  required screen is in sight whenever work on the data begins; "done" means it is there.
- *discovery and plan*: the plan fits the recipe, comes from one source as it is
  now, and does not depend on other applications, nor on file names as long as
  no two files that are taken whole have one size.
- *launcher*: one game at a time; the screen is handed back once on every path;
  a signal reaches the game, and no other process is taken for it; the exit
  status is the game's.
- *pthread bridge*: one real object per bionic object for all threads; an
  initialiser runs once and nobody passes before it has finished.
- *audio*: caches stay within their limits; an operation on a sample touches
  only a channel that plays this sample.
- *main program*: every exit path ends within the deadline; the provider
  recovery happens at most once.

## 2. Plan

The order is that of what a player loses when it goes wrong: the data of the
game first, then the session, then the running game.

1. **NxTransaction**, with the abstract specification **AtomicInstall**: the
   payload transaction and the driver around it. *Done.*
2. **Launcher**: several launches over one lock, signals, the game as a child.
   *Done.*
3. **PthreadBridge** and **PthreadOnce**: the synchronisation objects of the
   game. *Done.*
4. **NxInstall**: what NxTransaction assumes or leaves out. Overlapping
   extractors over the workspace lock and the progress file, `state.json` and
   hook checkpoints, the session of the setup UI. *Done.*
5. **NxPlan**: from the player's files to a plan, with the cache of unpacked
   bundles. *Done.*
6. **AudioBackend**: caches at their limits, a sample and its channel, volumes.
7. **MainLoop**: start-up, the provider recovery by re-execution, the frame
   clock, the exit deadline. **SoLoader**: precedence of symbols, the order of
   relocation and initialisers.
8. The journals of earlier releases, and a finalizer under a power loss that
   reorders unlinks, in NxTransaction; path policy and the environment filter
   as operators against a reference definition.
9. A composition of Launcher and NxInstall: a launcher that dies leaves an
   extractor, the next launch finds the lock taken or the workspace as it is.

Every safety property that a passing run checks is proved (section 5). Proofs
still to write are those of the modules still to write.

## 3. The modules

| Module | What it is | Source |
|---|---|---|
| AtomicInstall | what an installation promises: `Replace`, `Certify`, `Lapse` over the payload and its certificate | - |
| NxTransaction | the transaction and its driver, every rename and record a step | `magicrampage/nxextract/nxextract.py` |
| NxTransactionInv | the inductive invariants of NxTransaction | - |
| NxTransactionProofs | type correctness, all safety properties of both runs, the refinement of AtomicInstall | - |
| NxInstall | overlapping extractors around a transaction of one step: lock, progress, UI, stage, hooks | `magicrampage/nxextract/nxextract.py` |
| NxInstallProofs | type correctness, `DoneIsTrue`, `CommittedIsProcessed` | - |
| NxInstallScreenProofs | `NoOrphanUI`, `LoserLeavesAlone`, `SetupInSight`, `TwoTries` | - |
| NxPlan | discovery, candidate groups, rules, the choice of a plan, the source cache | `magicrampage/nxextract/nxextract.py` |
| NxPlanProofs | type correctness and all properties of NxPlan, and that the selection comes to one of `Results` | - |
| Launcher | the launch script, the game, the front end | `Magic Rampage.sh` |
| LauncherProofs | type correctness and the properties of the lock and of signals | - |
| LauncherRunProofs | the properties of a whole launch: `OneGame`, `FinishedOnce`, `StatusIsGames` | - |
| PthreadBridge | one mutex and one condition variable of the game | `src/pthread_bridge.c` |
| PthreadBridgeProofs | type correctness, `MutualExclusion`, `NothingLeftLocked`, `SignalWakes` | - |
| PthreadOnce | one control word of `pthread_once` | `src/pthread_bridge.c` |
| PthreadOnceProofs | type correctness and both safety properties of PthreadOnce | - |
| MC* | constants for TLC | - |

`PROJECT.json` maps each definition to the lines it stands for. A definition
whose comment starts with *Mutant* is a faulty variant that no specification
uses; it shows that a property can fail.

### NxTransaction

`live`, `stage` and `backup` are the three directories, as functions from the
commit paths of the recipe to *objects*; an object is a file with its size and
modification time, which is all the metadata seal looks at. `journal` is
`transaction.json` (`id = 0`: there is none), `marker` the installation marker.
`pc` is the place in `install_command` or in the function it called, `caller`
tells who called the rollback or the finalizer, `i` is the loop index.

A run goes `Start`, one of `RecoverNothing | RecoverPublished |
RecoverUnpublished`, then `FastPath`, `Adopt` or `ResumeStage`, `ExtractItem`
and `StageValidated`, then `CommitBegin` to `SyncGameDir`, the finalizer and
`Finish`. Between any two steps `Crash` ends the process, `Raise` ends the run
with an error outside the `try` of `commit_stage`, and `CommitFails` sends it
to the rollback inside that `try`. A test in the code that raises by itself
(`CommitBlocked`, `RollbackBlocked`, `Refused`) costs nothing of the budget of
mishaps; everything else costs one. A misreading costs one too: it may send
`recover_transaction` into a rollback (`RecoverMisread`), `marker_fast_valid`
past its own payload into an adoption that writes the marker anew under another
id (`AdoptMisread`), or both past it into another extraction (`ReadyMisread`).

What is assumed: the disk keeps the order of the steps, so that a power loss
only loses what had not been done yet; a rename is atomic (on exFAT it may not
be); modification times tell objects apart; `flock` gives mutual exclusion.

### NxInstall

Several extractors share one workspace, so everything that is a local variable
of `install_command` is a function of the run, and everything on disk is not:
`game`, `stage`, `state` (`state.json`), `marker` (the hook checkpoints), `told`
(the state in the progress file), `stop_file` and `ready_file` (`ui.stop`,
`ui.ready`). A file is known by the payload it comes from, by the release of
the recipe whose hook wrote it, and by whether it is sound; that is what the
staging code would have to tell apart and cannot see.

A run goes `Start`, `TakeLock` or `LockBusy`, `Fast`, then the screen
(`OpenScreen`, `Confirm`, or one of the ways it fails), `Up`, `Adopt`, `Scan`
and `Select`, `Prepare` (or `WipeHooks` and `WriteState`), `KeepItem` or
`Extract` and `Copy`, the hooks (`StartHook`, `RunHook`, `Mark`), `Validate` or
`Reject`, `EnterCommit` and `Commit`, and `StopUI`, `Stop`, `Unlock`. Everything
that fails goes to `Error` and `Final`, which in the code is *outside* the lock:
the message and the UI's stop are written when another extractor may already
work. `Publish` and `ObeyStop` are the UI process. `Interrupted` is an I/O error
or a signal that the driver catches, `Kill` the end of the process.

The screen is asked for by `Progress.update` *before* a unit of work, and the
unit is a step of its own: the screen may die between the two, and the copy,
the hook or the publication at hand is then finished. `dark` remembers that a
run has already worked since its screen died; the next update ends the run. The
commit looks at the stage once more before it writes the marker
(`CommitRejected`), because the stage may have changed since `Validate`.

A hook is a process of its own. When its extractor is killed it may go on
(`orphan`) and writes into the stage of whatever run has the lock by then
(`OrphanWrites`, at most `MaxWrites` times), until it ends (`OrphanEnds`). What
it writes is a `Stray` file, of which nobody knows what it is made of. It is
left out that such a hook may hold a file open that the commit has moved into
the game directory, and change it there.

The transaction is one step here (`Commit`), as AtomicInstall promises and
NxTransaction refines it; a killed run's journal is settled before the next
run does anything else, so there is no journal in this module. Writes of the
progress file that fail and are not retried are left out. A hook ends, fails,
is interrupted, is killed or is left behind; the code gives it no deadline.

Two payloads may have one `Fingerprint`: the code's has no CRC for a file taken
whole (`nxextract.py:1842`, 1857-1870), so a rebuilt APK of the same size is
the same plan to `state.json` and to the checkpoints. `Accepts` says what a
release's validation accepts, of what payload and made by which release's
hooks: a release may refuse what a former one has made. `Distinguishes` says
that the files of a hook checkpoint tell a hook's output from what is
extracted; nothing in the recipe loader sees to it.

### NxPlan

The input is two directories of files, in the order of their names. A file is a
*blob* (identity, size, CRC, leading bytes) with extension and time, and, for a
ZIP, whether `Archive._open` accepts it (`opens`), whether it has a manifest,
and its members with what the directory says and what damage keeps a reader
from them. `Class`, `Scanned` and `Discovered` are `discover_inputs`;
`BundleGroup`, `DirectGroups`, `WithCompanion` and `Accepted` make
`build_candidate_groups`; `ChooseOne`, `ChooseMany` and `PlanFor` follow the
rules of the recipe in order, and `Resolved` is the choice between the plans.
They are operators; the actions call them one bundle member, one group and ABI
at a time (`opened`, `groups`, and `plans` with the attempt `at` which the loop
stands), because a run can be killed between two and leaves the cache behind
(`Leave`), and the player can copy a newer file over an old name before the
next (`Replace`). An inner APK is copied in two steps, into a `.part` file
(`StartCopy`) and from there to its place (`FinishCopy`); a kill between the
two leaves the part or nothing, and the next run starts the copy anew.

Lists of the code whose order no later line uses are sets here: the archives
and loose files of a group, the APKs, archives and loose files of a discovery,
the plans. Bundles and groups stay sequences, in the order in which they are
opened and tried. Where a tie is broken by the order of names, `Resolved` is
the set of the results that some order gives, and the step takes any of them;
that nothing then depends on it is what `NameBlind` says.

`Results` is the reference: what the same selection may come to, without steps
and without cache, from the files alone. `NameBlind` compares the outcome of
the steps with the `Results` of every order of the files, `ForeignIgnored` with
those of the files that are not another application's. `Same` compares to the
identity of every item.

Abstracted: a pattern is the set of names it matches for an ABI; a name has
prefixes and a portable key for each, and two names of one archive collide when
different prefixes have one key; the checks on a candidate (size bounds, CRC
list, magic, ELF machine, hash list) are sets, and a member whose damage keeps
the reader from what a rule reads of it is no candidate of that rule (`Reads`),
as the code catches the error (1950, 1955, 1965). A `zlib.error`, which it does
not catch there, ends the run like any I/O error (`Leave`). Left out: an I/O
error of one read of a loose file (1972, 1985), which would make it no candidate
this once, name patterns for files taken whole (the default `*` matches all),
`{basename}` in a destination, a file listed twice. Three named assumptions:
`FilesAssumption` (directories and bundles are lists, a readable APK names its
package), `RecipeAssumption` (what the recipe loader accepts), and
`ContentAssumption`: equal size and CRC-32 mean equal content. Size alone does
not; a file taken whole has no CRC in the fingerprint (`Fingerprint`), as in the
code.

### Launcher

`sh[l]` holds the variables of one launch of the script: the command it is at,
the trap that is armed, a signal that is `due`, and the `NXBOOTSTRAP_*`
variables under their own names. `child[l]` is the game it forked, with the
process that now has its pid: the game, nobody, or a stranger. `fds[l]` are the
processes that hold the descriptor with the lock, and `lock` is the launch
whose open file has the `flock`; it is free again when the last holder closes
it (`Closed`).

A check of the game and the signal that follows it are two steps: `SignalChild`
and `Kill` look whether the pid is there and has the recorded start time, and
note whom they found (`aim`); `Strike` is the `kill` itself, which goes to
whoever has the pid by then. In between bash may reap the game and the system
give its pid away (`Reap`, `PidReused`, up to `Reuses` times). `taken` remembers
who was taken for the game. `WaitAgain` is the loop at 526-528, which waits
again for as long as the pid is there with the recorded start time.

A command runs only when no trap is due (`At`), because bash runs traps between
commands and after a foreground program; `wait` is the exception
(`WaitInterrupted`). The behaviour of bash that this relies on was observed
with bash 5.2: an interrupted `wait` returns 128+n and its trap runs at once;
a `wait` for a child that bash has already reaped returns the stored status.
The checks before the lock, the platform helper and the environment are single
steps that pass or refuse. Of the processes the script starts besides the game
only its extractor and its splash are modelled as holders of the descriptor;
`sleep 1` (510), `port-env.sh` and the platform helper inherit it too, for as
long as they run. A launch is not repeated: two launches are two
members of `Launchers`.

### PthreadBridge and PthreadOnce

`slot` is the first word of the game's mutex and of its condition variable, a
mark of a static initialiser or the address of an object in `heap`. `th[t]` is
the call a thread is in and what it has resolved so far: `FastRead` is the read
without `g_lock`, `EnterG`, `Create` and `LeaveG` the path with it, `Reread`
the read after it. The glibc calls (`Lock`, `Unlock`, `Wait`, `Signal`, ...) act
on resolved objects. `Legal` restricts the game to calls that POSIX defines:
what the bridge does for other programs is not asked.

The fast path reads the slot without `g_lock` (69): a data race in C. Nothing
orders the stores that make an object before the store of its address, except
`g_lock`, which the maker leaves only after both. On AArch64 a second thread may
thus find the address between the store to the slot and the unlock of `g_lock`,
and see calloc's zeroes for an object, or have its own stores overwritten by the
maker's. So an object carries who sees it whole (`seen`) and whether its maker
has left `g_lock` (`settled`), and `torn` remembers that somebody used one too
early. Nothing in the model forbids it; the properties say what holds until it
happens, and the run `bridge_race` what happens then.

In PthreadOnce the `Others` stand for threads that pass through `g_lock` while
they resolve a mutex; the initialiser waits for all of them, which is why
`b_once` lets `g_lock` go before it calls it.

## 4. The runs

| Run | Asks | Bounds |
|---|---|---|
| transaction | is the payload replaced atomically, can every interruption be undone, is staged work kept, and does a run left in peace repair what earlier ones left? | 2 paths, 4 runs, 3 mishaps |
| hostile | are backups owned, is the old payload kept and does a status of 0 mean an installed payload, even with upgrades between runs and reads that fail? | 2 paths, 3 runs, 2 mishaps, 3 releases |
| reported, upgrade | two disagreements of section 7 | 2 paths; 2 or 3 runs, 1 or 2 mishaps |
| install | is what is published of the plan, is a refused extractor harmless, does work begin only in sight of a required screen, does a failure not repeat itself, does every run end? | 3 runs, 2 at a time, 1 mishap, 1 write of a left hook, 1 change of source or recipe, 3 payloads with 2 fingerprints, 2 paths, 2 hooks |
| plan | is a plan genuine and fitting, whatever the cache holds, and independent of other applications and, where size tells whole files apart, of names? | 16 files, 2 with one of the port's directory or 3 (of 12) together, 3 recipes, 2 selections with kills and 1 replaced file |
| hidden | a disagreement of section 7 | the shipped recipe, 1 selection |
| launcher | one game, one extractor, who keeps the lock? | 2 launches, 1 signal, 2 killed launchers, pids given away once, 1 s deadline |
| launcher_liveness | one hand-over, the right status and receiver; does a shutdown end, and is the deadline enforced? | 1 launch, 3 signals, 1 killed launcher, a pid given away twice, 2 s deadline |
| bridge | do the lazily made objects behave as one mutex and one condition variable, until one is used before its stores have arrived? | 2 threads, 4 calls each, count modulo 8 |
| bridge_race | a disagreement of section 7: what happens then | 2 threads, 2 calls each |
| once | does the initialiser run once, does nobody pass early, does everybody return? | 3 callers with 2 calls, 1 other thread |

Why these bounds are enough to be interesting. Two paths are the least in which
a transaction can be half done, and in which one path can be in each phase
while another is in a different one; the code treats every pair of paths alike
apart from their order. Three mishaps allow a commit that fails, a rollback
that fails and a recovery that fails after that, each at any step; the fourth
run is one that meets none. Of three signals one is handled, one interrupts
what the first started and one comes between; a pid given away twice is a
stranger's at the look and another's at the kill. Two launches are enough for
every property about pairs (two killed launchers leave two orphans), and are
interchangeable, which is why that run uses symmetry (it checks no liveness);
what concerns one launch alone is asked of one, with more signals. Two threads
meet at a first use in every order; three extractors, two at a time, are one
that leaves something behind, one that is at work and one that interferes; two
hooks are one that rewrites an extracted file in place and one that makes a new
file; of the three payloads one has the fingerprint of another. The sixteen
files hold two builds as one APK, base and split, and bundles, bundles that
differ in their base only, mix two applications, are too large or hold an empty
APK, a foreign, an unreadable and a damaged one, companion data, one of it
unreadable, and a stray text; three at a time are a source, its companion and a
disturbance. Four calls each are enough to initialise, lock, wait and destroy.
`CountWrap` stands for 2^32 and only has to exceed the depth of recursion that
four calls reach.

`CHECK_DEADLOCK FALSE` is set where the system stops by right: the budget of
runs, launches or calls is used up. A thread blocked for ever in
`pthread_cond_wait` that nobody signals is such a stop too.

### What the properties say

*Transaction.* `InstallIsAtomic` is the refinement: with `Payload` computed
from the files (what the rollback would leave if the transaction is still to be
undone, else what is there), every step of every run is a `Replace`, a
`Certify`, a `Lapse` or nothing. `NeverMixed`, `OldPayloadKept`,
`StagedWorkKept`, `NoOrphanBackup`, `RollbackNeverBlocked` and
`OkMeansInstalled` say what that leaves open: which data, where the copies are,
whether the way back is free, what a status of 0 means. `SelfHealing` is the
liveness: it holds without failing reads and upgrades. Staged files are always
sound in NxTransaction; that a staged set which fails validation is not tried
for ever is `TwoTries` of NxInstall. With failing reads `SelfHealing` does not:
one failing read during recovery sends a published transaction to the rollback
after part of its backup was discarded (`nxextract.py:3330`), and five runs
with four mishaps reach a journal whose rollback stops at "backup is missing"
on every run. After an upgrade of the extractor a mixed payload can even be
adopted; `upgrade` shows the first step of that, a rollback that takes a
published file out of the game directory (`PublishedStaysLive`). `hostile`
checks what holds all the same. A payload that somebody replaces by hand is not
modelled, only markers that outlive theirs (`OkMeansInstalled`).

*Installation.* `CommittedIsProcessed` is the one that the checkpoints, the
stage and `state.json` exist for. At a commit every extracted path holds the
file of the payload that the plan selected, though the fingerprint cannot tell
it from a payload of equal size: `_resume_item_valid` (2687-2699) compares a
file taken whole with its source. A path that a hook wrote may come from the
other payload, since the checkpoint is kept with the stage; it has the plan's
fingerprint, which is all that the code compares. Both were last written by
extraction or by a hook of the present recipe. Excepted are the files that a
left hook itself has written: what is published of them has passed the
validation (`DoneIsTrue`), and no more can be said. `TwoTries` says that no two
runs in a row fail when nothing disturbs either: a rejected stage is dropped.
It needs a `Complete` recipe: the files of a hook checkpoint tell the hook's
output from an extracted file (`Distinguishes`; section 7 has what happens
otherwise), and every path that is committed is extracted or written by a hook.
A recipe that validates a path which nothing makes fails for ever, and should.
`LoserLeavesAlone` lets the refused extractor, and the one that reports its
error after the lock, touch the progress file and nothing else, unless it has a
UI of its own. `SetupInSight` says that a required screen is visible when a
unit of work begins, and that the one at hand when it dies is the last. It is
asked of runs that were alone: the UI of another run shares `ui.ready` and
`ui.stop`. `NoOrphanUI` excepts the run whose `ui.stop` could not be written:
that one leaves its screen behind. `Ends` is the liveness.

*Plan.* `Fits` asks an item of every required rule, with one exception that the
code makes: a required tree that sets no number of files may come to nothing
when all its matches lie outside `strip_prefix` (`_choose_many`,
`nxextract.py:2229-2247`, tests for matches before the prefix is taken off).
`UnpackedTrue` and `Genuine` are about the cache: its key is path, size and
time of the bundle, so after `Replace` it may hold another build's APKs, and
only the check of size and CRC keeps them out. `NameBlind` is INSTALLATION.md's
"the filename is irrelevant", under the condition `WholesTold`: no two files
that a rule may take whole have one size and differ. There the code refuses
where a choice would depend on names. Without the condition it is false: two
bundles of one rank with bases of equal size have one fingerprint, and the one
whose name comes first is extracted (*equal sizes* in section 7).
`ForeignIgnored` needs an accepted APK or bundle and files that can be read.

*Launcher.* `OneGame` excepts launchers that were killed: SIGKILL of a launcher
leaves its game without the lock, on purpose (the game must not block the next
launch), and a second one may then start. `OnlyTheRecorded` says what the start
time buys: no process that got the pid later is *taken* for the game. It does
not say that none is hit: the signal goes to the pid, and who gets the pid
between the look and the kill gets the signal (*check and kill* in section 7).
Nor does it say that the recorded process is the game: the start time is read
after the fork, and if the game has ended and been reaped by then, it may be a
stranger's. `DeadlineEnforced` is about signals that find the script in `wait`.
A signal handled between the fork and `wait` has already been forwarded when
`wait` starts; if the game ignores it, nothing interrupts `wait` and no
deadline runs until a second signal comes. That is how the code works, and
`ShutdownEnds` therefore asks for a game that listens. It also excepts the
launcher that has recorded a stranger's start time: the loop at 526-528 then
waits for as long as the stranger lives.

*Pthread.* `MutualExclusion`, `NothingLeftLocked` and `SignalWakes` are what
would break if two threads resolved different objects. All three are asked as
long as no object was used before its stores had arrived (`~torn`);
`LazyInitIsSafe` is the second without that condition, and `bridge_race` shows
it violated. The bridge makes every mutex recursive, which the source calls a
safe superset: `pthread_mutex_trylock` and error-checking mutexes then differ
from bionic for the owner, and the model follows the bridge.

### Fairness

`NxTransaction!FairSpec` is weak fairness of the steps of a started extractor:
a process that is not killed goes on. Starting a run is the player's choice and
mishaps are never forced.

`NxInstall!FairSpec` is weak fairness of each run's own steps, one fairness
condition for them all, since a process that is not killed goes on: hooks end
and the UI's time-outs expire. Starting a run, kills, errors, the UI process
and the player get none.

`Launcher!FairSpec` is weak fairness of the script, of its tools ending, and of
a game that was asked to end and listens. The script has no loop that waits for
anything else. A deaf game, a game that is not asked, reaping by SIGCHLD, the
reuse of a pid and signals get no fairness.

`PthreadOnce!FairSpec` is weak fairness of each thread's steps, and strong
fairness of taking `g_lock`: the callers that poll take and release it again
and again, and glibc hands a mutex to no one in particular. That a thread which
asks for ever gets it at last is an assumption about the system's scheduler,
not something the code provides.

## 5. The proofs

TLAPS checks these for every value of the constants that the named assumptions
allow.

**NxTransaction** (`ConstantsAssumption`: at least one path, numbers are
numbers). For every number of paths, runs, mishaps and releases, with upgrades
and failing reads: `TypeCorrect`, `BackupNeverOrphaned`, `OldPayloadStays` and
`OkIsInstalled`. The others assume `Calm` (one release and reads that do not
fail): `PayloadNeverMixed`, `RollbackAlwaysPossible`, `StagedWorkStays` and the
refinement, `TransactionIsAtomic`. With upgrades or failing reads `NeverMixed`
is false; `upgrade` shows how that begins.

The invariant `IInv` is needed because `NeverMixed` is far from inductive. Its
heart is `Undoable(p)`: as long as the transaction is open, the three copies of
each path stand in one of five arrangements, and from each of them the
rollback knows what to do. `WholeInv` carries "old or extracted, not both"
from the payload to what the rollback would restore; `LoopInv` relates the loop
index to what has been moved; `RollbackInv` says what the rollback has already
put back; `BackupInv` and `StageInv` make a new transaction start clean.
The steps that move no file are proved together by a frame lemma; the others
one by one. `CertInv` (a marker vouches for the payload from the moment it is
written until the status is no longer asked for) is what the two hostile
theorems need besides `BackupInv`.

The refinement needs more, because `Replace` asks that every path changes and
that the certificate comes with it. `FreshInv` dates the objects: nothing is of
a run that has not extracted yet, so a staged file is new. `DisjointInv` and
`MovedInv` follow it through the renames, and `BoundaryInv` says what the marker
of a transaction that can still be undone seals: nothing that undoing would
leave. The step that replaces the payload is `WriteMarker`, and surprisingly
also `Crash` or `Raise`: a rollback that began after the marker was in place
(`WriteMarkerUnsynced`) and is cut before it moved a file leaves a published
transaction, which the next run finishes. All other steps are stutters but
`Adopt` (`Certify`) and `WriteMarkerUnsynced` (at most a `Lapse`).

**NxInstall** (`InstallAssumption`: nothing of it concerns what fingerprints or
validation tell apart). `TypeCorrect` is proved part by part (files, runs,
lock, counts), by what each helper of the actions assigns. `PublishesItsPlan`
(the run's `CommittedIsProcessed`) and `DoneAlwaysTrue` rest on two inductive
parts in NxInstall itself. `StageInv` says of the stage that every file in it,
but for a left hook's, has the fingerprint that `state.json` names and was made
by its recipe or extracted (`Belongs`); and of the one run that has the lock
and has prepared its stage that `state.json` names its plan and that the items
it has been through are of its own payload (`InStep`). `DoneInv` says that what
a marker claims passes the validation of the marker's recipe and that "done" is
told only of such a payload; the commit's own look at the stage is what makes
it so, as a left hook may write between `Validate` and `Commit`. Other runs do
not disturb either, as they have no lock: `OthersIdle`. Neither depends on
kills, on the UI, or on who else writes the progress file.

NxInstallScreenProofs adds the screen. `ScreenInv` says that a run that is
alone has no company and no foreign screen on show, that a required screen has
been confirmed before the session goes on, and that what confirmed it was the
run's own screen, which is then visible or known to be dead, and that a run
which has worked since its screen died (`dark`) is not at work any more.
`WorkInSight` follows from it action by action, `LosersHarmNothing` from the
actions alone, and `NoScreenLeftBehind` is inductive by itself once the types
are known.

`SecondTrySucceeds` is `TwoTries` for every number of runs, paths and hooks,
under the hypothesis `Complete`, and only for recipes that satisfy it: every
path it commits is extracted or written by a hook, it accepts what it makes,
and its checkpoints distinguish. The recipe loader enforces none of the three;
MCNxInstall states it of its instance as an ASSUME that TLC evaluates. A bound
on a counter says nothing of the files, so `TriesInv` says what the first
failed run leaves and what the second makes of it: a run without mishaps never
loses its screen, and if it fails, stage and `state.json` are empty by the time
it reports it (`CalmOK`, `Fresh`). A run that follows starts from nothing,
extracts only sound files, and has made each hook's output when the hook is
done, so that validation finds nothing to reject (`Second`). A run without
mishaps is alone, so a step has to be looked at for the run that makes it only
(`NobodyElse`, `StepOf`); leaving and what the UI process does are treated once
(`LeaveOf`, `ScreenOf`).

**NxPlan** (`FilesAssumption`, `ContentAssumption`, `RecipeAssumption`). For
any files, recipes, kills and replaced bundles: `TypeCorrect`, `PlanFits`,
`PlanGenuine`, `NamesDecideNothing`, `OthersIgnored` and `CacheTransparent`.
The inductive invariant `SelectInv` has a part for each place of the selection
and says how much of the reference it has computed: which bundles have become
which groups (`ExpandInv`), which attempts have been made with which results
(`TryInv`), and that what it ends with is an outcome of those groups
(`DoneInv`). The cache does not occur in `Results`; that a file from the cache
is the member it stands for is `CacheIsMember`, from the check of size and CRC
and from `ContentAssumption`. So `SelectionIsResult`, and the other theorems
are about `Results`, a function of the files. `PlanFits` and `PlanGenuine`
follow the items from the rules back to the archives. For `NamesDecideNothing`,
files in another order have the same groups, in another order
(`SameFilesSameGroups`), and `Resolved` looks at the set of attempts
(`SameGroupsAgree`). Where sizes tell the files taken whole apart, equal
fingerprints mean equal items (`FingerprintWrites`), so all that a tie allows
is the same (`ResolvedSame`). For `OthersIgnored`, the groups of the accepted
files alone are the groups that `Accepted` keeps of all (`OwnGroups`).
`CacheTransparent` has an invariant of its own and uses no assumption: an inner
APK that is opened has the size and CRC of the member it stands for.

`Only`, the filter of the code's comprehensions, is a recursive function. What
it returns is proved (`OnlyFacts`) by the least element at which it could fail
(`LeastNat`, `UpTo`).

**Launcher** (`LauncherAssumption`). `TypeCorrect` first, by lemmas about what
the script assigns to its variables. `OneToolAtATime` and `OrphansHoldNoLock`
follow from `LockInv`: the lock belongs to whoever holds the open file, the
shell does until it is gone, a tool was started under the lock and keeps it.
`StrangersSpared` follows from `SignalInv`: before the pid is known there is no
start time, and if a stranger is taken for the game, the recorded start time is
a stranger's and the pid is not the game's any more. Most steps leave alone
what the two invariants speak of (`LockAlone`, `PidAlone`); the others are
taken one by one.

LauncherRunProofs adds `RunInv`, one conjunct per theorem. `FinishInv` counts
the calls of `pm_finish` against the place in the script and the armed trap;
`HoldInv` says that from the lock to the game's end the shell holds the lock,
and that a running game whose launcher was not killed has a launcher that waits
for it, so a second game has no way in (`OneGameAtATime`); `StatusInv` says
what the script knows of its game's status at each command, and that an
interrupted `wait` is repeated until it returns that status
(`GamesStatusReported`).

**PthreadBridge** (`BridgeAssumption`, and one assumption of the proof module:
fewer calls of a thread than the recursion count holds). `TypeCorrect` holds
whatever order stores arrive in. The other theorems say what holds as long as
nothing is `torn`, and `torn` is never taken back (`TornStays`), so their
invariants are implications. `MutexExcludes` and `NothingStaysLocked`
for any number of threads and calls. The invariant says where each thread that
uses the mutex stands (`PlaceOK`), that `g_lock` has one holder (`GLockOK`),
that a new object is made only while nobody uses an old one (`RemakeAlone`),
that whoever has resolved the slot has what is in it (`ResolvedOK`), and that
the owner and the count of that object are those of the calls that returned
(`LockOK`, `CallsOK`). `SignalsReachWaiters` (the run's `SignalWakes`): a signal
or broadcast with somebody waiting wakes one of them. A second invariant,
`CondInv`, says it of the condition variable: a thread that initialises or
destroys it is alone with it (`CondAlone`), and whoever has resolved it has what
is in the slot (`KnowsCond`), so signaller and waiter hold the same object.

**PthreadOnce** (`OnceAssumption`). `TypeCorrect`, `InitialiserRunsOnce` and
`ReturnMeansDone` for any number of callers and others, from an invariant that
relates the control word to the one thread that may be between claiming it and
finishing.

Only model-checked: the five liveness properties, `SelfHealing`, `Ends`,
`ShutdownEnds`, `DeadlineEnforced` and `CallsReturn`, because the prover
supports neither liveness under fairness nor ENABLED. The inductive invariants
were checked by TLC too, on the instances of the runs (`SelectInv` on fewer
files), before they were proved; `OpenedInv` of NxPlanProofs has an unbounded
quantifier, which TLC cannot evaluate. Induction theorems that take a predicate
as a parameter cannot be used with the provers at hand; the one induction over
data that was needed is done with a set instead. No module uses a RECURSIVE
operator.

## 6. What is not modelled

- *Binary formats, loading of recipes, path policy*: pure functions of a file or
  a text. NxPlan takes what they return.
- *Legacy journals, reordered unlinks after a power loss*: part 8 of the plan.
- *Phases and percentages of the progress file, the space preflight's numbers,
  deadlines of hooks (there are none)*.
- *plan, scan and verify*: read-only commands over what is modelled.
- *Audio, main loop, loader*: planned. Their hazards: a sample stopped on a
  channel that now plays another (`audio_backend.c:427`), a full cache (298),
  the exit deadline during a shutdown (`main.c:848`), a frame time that is zero
  or very large (509), a second failure after the provider recovery (855), a
  symbol both in the module and among the stubs (`so_util.c:317`).
- *Reader-writer locks*: the same lazy creation as mutexes, with no static mark
  but 0. *mutexattr*: an int that nothing reads. *The clock of a condition
  variable*: no property depends on time.
- *JNI, GL and libc stubs*: constant answers without state. *Packaging*: not
  part of the running system.

## 7. What the models disagree with

Each has a run whose counterexample shows it; `PROJECT.json` quotes the lines.

- **reported** (`nxextract.py:3501`): a payload that was committed is reported
  as a failed run when a directory sync or the progress guard raises after the
  marker was written.
- **upgrade** (`nxextract.py:3654`): an extractor of another version does not
  accept the marker of a transaction whose cleanup is pending, and its rollback
  takes published files out of the game directory again, although "the validated
  payload is live" from the marker on (3487-3488).
- **hidden** (`nxextract.py:1538`): every file in `gamedata/` counts as found
  there, also the README.txt that the release puts into it, and the port's
  directory is not searched then, although the README says it is.
- **bridge_race** (`pthread_bridge.c:69`): a thread that finds a new object's
  address before the maker has left `g_lock` locks what still reads as zeroes and
  unlocks the recursive mutex it turns out to be; glibc's owner stays, and the
  mutex is locked for ever by nobody. The comment at 24 promises a "lazy-init sem
  corrida".

Further observations, without a run of their own:

- *magic destroyed* (`pthread_bridge.c:92`): destroying a mutex with a static
  recursive initialiser that was never used hands the initialiser (0x4000) to
  glibc as an address, against the comment at 50-51; the first use (69)
  tests for the mark. PthreadBridge records it in `fault`.
- *kept journal* (`nxextract.py:3096`): a journal kept by an incomplete cleanup
  fails every run once the recipe changes; the docstring of `discard_path`
  (320-322) calls scratch that survives harmless.
- *cut hand-over* (`Magic Rampage.sh:46`): a signal during the hand-over of an
  early exit cuts it short and nothing repeats it (`ScreenHandedBack` of
  Launcher, one launch and one signal).
- *check and kill* (`Magic Rampage.sh:481`, 483 and 513, 515): the comparison of
  the start times and the kill are two commands. Bash reaps a game that ends
  between them, and the signal then goes to whoever has been given its pid.
- *late start time* (`Magic Rampage.sh:503`): the start time that the trap has
  captured is read again, and overwritten, after the trap; if the game was reaped
  meanwhile it may be a stranger's.
- *left hook* (`nxextract.py:2943`): nothing ends a hook when its extractor is
  killed and nothing waits for it; what it writes into the stage of a later run
  is published if it passes the validation.
- *stale checkpoint* (`nxextract.py:3902`): a rejected stage is removed but the
  hook checkpoints stay. The next run extracts again, and a checkpoint whose
  recorded files match what was just extracted lets the hook be skipped, so the
  same defect is rejected again (`TwoTries` with `Distinguishes = FALSE`). The
  comment at 3890-3896 promises a clean extraction.
- *equal sizes* (`nxextract.py:1842`, 1857-1870): two sources whose file taken
  whole has the same size, but different content, count as one payload. Hook
  outputs made of one are kept for the other, and between two bundles of one rank
  `group.description()` decides, the file name (2380), although INSTALLATION.md:8
  says "the filename is irrelevant" (`NameBlind` without `WholesTold`).
- *mixed splits* (`nxextract.py:1752`): loose APKs of one package are one set
  whatever their versions; only what the recipe pins by hash is safe. The
  shipped recipe does not pin `game.apk`.
- *unreadable neighbour* (`nxextract.py:1399`): an APK whose manifest cannot be
  read ends the selection, also beside a good one; the comment at 1800-1802
  says that it stays a candidate.
- *two ABIs* (`nxextract.py:2364`): an APK that has both ABIs of a recipe is
  refused as two payloads before the order of the ABIs is looked at.
- *empty trees* (`nxextract.py:2229`): a required `entries` rule without a number
  of files is satisfied by no file at all when `strip_prefix` takes away every
  match. `Fits` allows it; the shipped recipe has no such rule.
