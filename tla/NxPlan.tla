-------------------------------- MODULE NxPlan --------------------------------
(***************************************************************************)
(* Which files of the player become the game: discover_inputs,             *)
(* build_candidate_groups and resolve_plan of                              *)
(* magicrampage/nxextract/nxextract.py, with the cache of unpacked bundles *)
(* that survives from one run to the next.                                 *)
(*                                                                         *)
(* A blob is what a file or a ZIP member holds: its identity (what SHA-256 *)
(* tells apart), size, CRC-32 and leading bytes; of a member, what the     *)
(* ZIP's directory says, whatever damage keeps a reader from it.  A file   *)
(* is a blob with its extension and modification time and, when it is a    *)
(* ZIP, what a reader finds inside and whether Archive._open accepts it.   *)
(* A directory is the sequence of its regular files in the order of their  *)
(* names; the names themselves matter only to the cache.                   *)
(***************************************************************************)
EXTENDS Integers, SequencesExt, FiniteSetsExt, Functions

CONSTANTS
  Recipes,   \* recipes the port may ship (all accepted by the recipe loader)
  Folders,   \* the pairs of directories, gamedata/ and the port's, at first
  Newer,     \* files the player may copy over one of the same name
  PrefixesOf, \* a member name and the directories in it
  Key,       \* portable_path_key of a path
  Packages,  \* Android packages, in the order of their names
  MaxRuns    \* bound: how often the extractor selects

\* Every file there may be, what bundles hold, and every blob.
AnyFile == Newer \cup UNION {ToSet(dirs[1]) \cup ToSet(dirs[2]) : dirs \in Folders}
InnerFiles == UNION {{f.inner[j].file : j \in DOMAIN f.inner} : f \in AnyFile}
Entries(f) == {f.entries[n] : n \in DOMAIN f.entries}
Blobs == UNION {{f.blob} \cup Entries(f) : f \in AnyFile \cup InnerFiles}

\* Directories and bundles are lists; a readable APK names its package.
ASSUME FilesAssumption ==
  /\ \A dirs \in Folders : /\ DOMAIN dirs = 1..2
                            /\ \A d \in 1..2 : dirs[d] \in Seq(ToSet(dirs[d]))
  /\ \A f \in AnyFile : f.inner \in Seq(ToSet(f.inner))
  /\ Packages \in Seq(ToSet(Packages)) /\ "none" \notin ToSet(Packages)
  /\ \A f \in AnyFile \cup InnerFiles :
       /\ f.manifest \in BOOLEAN /\ f.opens \in BOOLEAN
       /\ f.manifest /\ f.opens => f.package \in ToSet(Packages)
  /\ MaxRuns \in Nat

\* Size and CRC-32 tell contents apart, and an archive's content is what a
\* reader finds in it: the extractor counts on both.
ASSUME ContentAssumption ==
  /\ \A b \in Blobs : b.crc \in Nat
  /\ \A b, c \in Blobs : b.size = c.size /\ b.crc = c.crc => b = c
  /\ \A f, g \in InnerFiles : f.blob = g.blob =>
       /\ f.manifest = g.manifest /\ f.opens = g.opens /\ f.package = g.package
       /\ f.split = g.split /\ f.entries = g.entries /\ f.damage = g.damage

\* What the recipe loader accepts: lists, an ABI, no two rules of one name.
ASSUME RecipeAssumption ==
  \A rec \in Recipes :
    /\ rec.rules \in Seq(ToSet(rec.rules))
    /\ \A i, j \in DOMAIN rec.rules : rec.rules[i].id = rec.rules[j].id => i = j
    /\ rec.abis \in Seq(ToSet(rec.abis)) /\ rec.abis # <<>>
    /\ rec.max_files \in Nat

Kinds == {"ok", "plan", "source", "recipe"}
NothingFound == [apks |-> {}, bundles |-> <<>>, generic |-> {}, loose |-> {}]
NoResult == [kind |-> "none", items |-> {}]
Stopped(kind) == [kind |-> kind, items |-> {}]

VARIABLES
  recipe,   \* the recipe of the port
  folders,  \* the directories of search_dirs: sequences of files
  cache,    \* workspace/source-cache: bundle, index and member -> file
  parts,    \* the copies into it that were begun: its .part files
  pc,       \* "off", "scan", "open", "expand", "copy", "try" or "done"
  input,    \* --input: files named by the player; none: search
  found,    \* the Discovery
  opened,   \* the inner APKs of the bundle at hand
  groups,   \* the candidate groups
  plans,    \* the results of the attempts so far
  at,       \* the group and the ABI to try next
  outcome,  \* what the selection comes to
  runs

vars == <<recipe, folders, cache, parts, pc, input, found, opened, groups, plans, at, outcome, runs>>
world == <<recipe, folders>>

-----------------------------------------------------------------------------
(* Discovery *)

\* The elements of a sequence that are in S, in their order.
Only(s, S) ==
  LET upto[n \in 0..Len(s)] ==
        IF n = 0 THEN <<>>
        ELSE IF s[n] \in S THEN Append(upto[n - 1], s[n]) ELSE upto[n - 1]
  IN  upto[Len(s)]

IsZip(f) == f.blob.head = "zip"

Class(f) ==
  CASE ~IsZip(f)             -> "none"
    [] IsZip(f) /\ f.manifest -> "apk"
    [] IsZip(f) /\ ~f.manifest /\ f.inner # <<>> -> "bundle"
    [] OTHER                 -> "archive"

\* The files of the d-th search directory that are looked at.
Seen(rec, d, fs) ==
  Only(fs, {f \in ToSet(fs) : f.ext \in rec.exts \/ (d = 1 /\ rec.sniff)})

Scanned(rec, dirs, named) ==
  LET here(d) == Seen(rec, d, dirs[d])
  IN  CASE named # <<>> -> named
        [] named = <<>> /\ rec.prefer_first /\ here(1) # <<>> -> here(1)
        [] OTHER -> here(1) \o here(2)

Discovered(rec, fs) ==
  LET of(class) == {f \in ToSet(fs) : Class(f) = class}
  IN  [apks |-> of("apk"), bundles |-> Only(fs, of("bundle")), generic |-> of("archive"),
       loose |-> {f \in of("archive") : f.ext = "obb"} \cup {f \in of("none") : f.ext \in rec.exts}]

-----------------------------------------------------------------------------
(* Groups of archives that may make up one payload *)

\* An archive that opens and has a manifest names its package.
Identified(f) == f.opens /\ f.manifest

Opened(f, kind) ==
  [kind |-> kind, blob |-> f.blob, package |-> f.package, split |-> f.split,
   entries |-> f.entries, damage |-> f.damage]

Companions(d) == {Opened(f, "bundle") : f \in d.generic}

Group(archives, d, package, kind) ==
  [archives |-> archives, loose |-> d.loose, package |-> package, kind |-> kind]

Size(member) == member.file.blob.size
SizeRefused(rec, member) == Size(member) = 0 \/ Size(member) > rec.max_member
BundleRefused(rec, b) ==
  \/ ~b.opens
  \/ Len(b.inner) > rec.max_apks
  \/ FoldSeq(LAMBDA m, sum : sum + Size(m), 0, b.inner) > rec.max_bundle

BundlePackages(inner) == {inner[j].package : j \in DOMAIN inner}

BundleGroup(d, b, inner) ==
  Group(ToSet(inner) \cup {Opened(b, "bundle")} \cup Companions(d), d,
        CHOOSE p \in BundlePackages(inner) : TRUE, "bundle")

\* The loose APKs are put together package by package.
ApksOf(d, p) == {f \in d.apks : f.package = p}
DirectGroup(d, p) ==
  Group({Opened(f, "apk") : f \in ApksOf(d, p)} \cup Companions(d), d, p, "apk-set")
DirectGroups(d) ==
  LET own == Only(Packages, {p \in ToSet(Packages) : ApksOf(d, p) # {}})
  IN  [j \in DOMAIN own |-> DirectGroup(d, own[j])]

\* Data without any APK or bundle makes a group of its own.
WithCompanion(d, gs) ==
  IF gs = <<>> /\ (d.generic # {} \/ d.loose # {})
  THEN <<Group(Companions(d), d, "none", "companion")>> ELSE gs

\* Mutant: the packages of the recipe are not asked for.
AcceptedAll(rec, gs) == gs

Accepted(rec, gs) ==
  Only(gs, {g \in ToSet(gs) : rec.packages = {} \/ g.package = "none" \/ g.package \in rec.packages})

-----------------------------------------------------------------------------
(* One rule of the recipe against one group *)

\* What a blob must be.
Valid(blob, rule, abi) ==
  /\ rule.sizes # {} => blob.size \in rule.sizes
  /\ rule.crcs # {} => blob.crc \in rule.crcs
  /\ rule.magic # "any" => blob.head = rule.magic
  /\ rule.elf => blob.head = abi
  /\ rule.hashes # {} => blob.id \in rule.hashes

\* The members a pattern names: pairs of an archive of the group and a name.
Matches(g, rule, names) ==
  UNION {{a} \X (DOMAIN a.entries \cap names) : a \in {b \in g.archives : b.kind \in rule.scopes}}
Member(m) == m[1].entries[m[2]]

\* A damaged member is no candidate of a rule that reads it that far.
Reads(m, rule) ==
  LET damage == m[1].damage[m[2]] IN
  /\ rule.magic # "any" \/ rule.elf => damage # "start"
  /\ rule.hashes # {} => damage = "none"

\* Two paths of one archive that FAT would not tell apart.
Colliding(ms) ==
  \E m, n \in ms : m[1] = n[1] /\ \E p \in PrefixesOf[m[2]], q \in PrefixesOf[n[2]] :
    p # q /\ Key[p] = Key[q]

\* Patterns are templates over the ABI; the names each one matches are given.
Patterns(rule, abi) == rule.patterns[abi]

Unportable(g, rule, abi) ==
  \E j \in DOMAIN Patterns(rule, abi) : Colliding(Matches(g, rule, Patterns(rule, abi)[j]))

\* The valid matches of the first pattern that has one.
Candidates(g, rule, abi) ==
  LET valid(j) == {m \in Matches(g, rule, Patterns(rule, abi)[j]) :
                     Valid(Member(m), rule, abi) /\ Reads(m, rule)}
      some     == {j \in DOMAIN Patterns(rule, abi) : valid(j) # {}}
  IN  IF some = {} THEN {} ELSE {Member(m) : m \in valid(Min(some))}

LooseFiles(g, rule) ==
  {f.blob : f \in {h \in g.loose : rule.exts # {} => h.ext \in rule.exts}}

\* The APK itself as a file: the base one, unless the rule names a split.
Containers(g, rule) ==
  {a.blob : a \in {b \in g.archives : b.kind \in rule.scopes /\ b.split = rule.split}}

\* Mutant: files that are taken whole are not validated.
WholeUnchecked(g, rule, abi) ==
  CASE rule.kind = "container" -> Containers(g, rule)
    [] rule.kind \in {"file", "entry_or_file"} -> LooseFiles(g, rule)
    [] OTHER -> {}

Whole(g, rule, abi) ==
  LET all == CASE rule.kind = "container" -> Containers(g, rule)
               [] rule.kind \in {"file", "entry_or_file"} -> LooseFiles(g, rule)
               [] OTHER -> {}
  IN  {b \in all : Valid(b, rule, abi)}

Item(rule, dest, blob, whole) ==
  [rule |-> rule.id, dest |-> dest, blob |-> blob, whole |-> whole]
Selected(items) == [kind |-> "ok", items |-> items]

\* A member comes before a file taken whole.
ChooseOne(rule, g, abi) ==
  LET members == IF rule.kind \in {"entry", "entry_or_file"} THEN Candidates(g, rule, abi)
                 ELSE {}
      wholes  == Whole(g, rule, abi)
      identities == {<<b.size, b.crc>> : b \in members \cup wholes}
      from == IF members # {} THEN members ELSE wholes
  IN  IF rule.kind \in {"entry", "entry_or_file"} /\ Unportable(g, rule, abi) THEN Stopped("source")
      ELSE IF identities = {} /\ ~rule.required THEN Selected({})
      ELSE IF identities = {} \/ Cardinality(identities) > 1 THEN Stopped("plan")
      ELSE Selected({Item(rule, rule.dest, CHOOSE b \in from : TRUE, members = {})})

\* A tree: rule.into tells where a member goes; those it leaves out are
\* outside strip_prefix.
TreeItems(rule, g, abi) ==
  LET matches == UNION {Matches(g, rule, Patterns(rule, abi)[j]) : j \in DOMAIN Patterns(rule, abi)}
  IN  {Item(rule, rule.into[m[2]], Member(m), FALSE) :
         m \in {n \in matches : n[2] \in DOMAIN rule.into}}
Unmatched(rule, g, abi) ==
  \A j \in DOMAIN Patterns(rule, abi) : Matches(g, rule, Patterns(rule, abi)[j]) = {}

OnePerDest(items) == {CHOOSE i \in items : i.dest = d : d \in {i.dest : i \in items}}

ChooseMany(rule, g, abi) ==
  LET items == TreeItems(rule, g, abi)
      clash == \E i, j \in items :
                 /\ Key[i.dest] = Key[j.dest]
                 /\ <<i.dest, i.blob.size, i.blob.crc>> # <<j.dest, j.blob.size, j.blob.crc>>
      kept  == OnePerDest(items)
      counted == /\ Cardinality(kept) \in rule.counts
                 /\ MapThenSumSet(LAMBDA i : i.blob.size, kept) \in rule.totals
  IN  IF Unportable(g, rule, abi) THEN Stopped("source")
      ELSE IF Unmatched(rule, g, abi) /\ ~rule.required THEN Selected({})
      ELSE IF Unmatched(rule, g, abi) \/ clash \/ ~counted THEN Stopped("plan")
      ELSE Selected(kept)

Chosen(rule, g, abi) ==
  IF rule.kind = "entries" THEN ChooseMany(rule, g, abi) ELSE ChooseOne(rule, g, abi)

-----------------------------------------------------------------------------
(* A plan for a group and an ABI, and the choice between plans *)

\* What the j-th rule adds, and how it ends the plan unless it is "ok".
New(rec, g, abi, j) == Chosen(rec.rules[j], g, abi)
Ends(rec, g, abi, j) ==
  LET new    == New(rec, g, abi, j)
      before == UNION {New(rec, g, abi, k).items : k \in 1..(j - 1)}
  IN  IF new.kind # "ok" THEN new.kind
      ELSE IF \E i \in new.items : i.dest \notin rec.commit[abi] THEN "recipe"
      ELSE IF \E i \in new.items, k \in before : Key[i.dest] = Key[k.dest] THEN "plan"
      ELSE "ok"

\* Rules are followed in order and the first that fails decides how.
PlanFor(rec, g, abi) ==
  LET failed == {j \in DOMAIN rec.rules : Ends(rec, g, abi, j) # "ok"}
  IN  IF failed = {} THEN Selected(UNION {New(rec, g, abi, j).items : j \in DOMAIN rec.rules})
      ELSE Stopped(Ends(rec, g, abi, Min(failed)))

\* A plan that writes nothing is none.
Attempted(plan, k, kind) ==
  [kind  |-> IF plan.kind = "ok" /\ plan.items = {} THEN "plan" ELSE plan.kind,
   items |-> plan.items, abi |-> k, group |-> kind]
Attempt(rec, g, k) == Attempted(PlanFor(rec, g, rec.abis[k]), k, g.kind)

Fatal(plan) == plan.kind \in {"source", "recipe"}

\* A file that is taken whole has no CRC in its SourceItem.
Fingerprint(plan) ==
  {<<i.rule, i.dest, i.blob.size, IF i.whole THEN -1 ELSE i.blob.crc>> : i \in plan.items}

Rank(kind) == CASE kind = "apk-set" -> 0 [] kind = "bundle" -> 1 [] OTHER -> 2
Before(p, q) == p.abi < q.abi \/ (p.abi = q.abi /\ Rank(p.group) <= Rank(q.group))

Successes(tried) == {p \in tried : p.kind = "ok"}
\* Plans of one rank are taken in the order of their files' names.
Best(tried) == {p \in Successes(tried) : \A q \in Successes(tried) : Before(p, q)}

\* Mutant: the best plan wins, whatever else matches.
ResolvedBest(tried) ==
  IF Successes(tried) = {} THEN {Stopped("plan")} ELSE {Selected(p.items) : p \in Best(tried)}

\* Mutant: nothing is raised when nothing matches.
ResolvedNone(tried) ==
  IF Successes(tried) = {} THEN {NoResult} ELSE {Selected(p.items) : p \in Best(tried)}

\* What the choice between the plans may come to.
Resolved(tried) ==
  IF \/ Successes(tried) = {}
     \/ \E p, q \in Successes(tried) : Fingerprint(p) # Fingerprint(q)
  THEN {Stopped("plan")} ELSE {Selected(p.items) : p \in Best(tried)}

-----------------------------------------------------------------------------
(* The steps of a selection *)

Init ==
  /\ recipe \in Recipes /\ folders \in Folders
  /\ cache = <<>> /\ parts = {}
  /\ pc = "off" /\ input = <<>> /\ found = NothingFound
  /\ opened = <<>> /\ groups = <<>> /\ plans = {} /\ at = <<1, 1>> /\ outcome = NoResult
  /\ runs = MaxRuns

Start ==
  /\ pc = "off" /\ runs > 0
  /\ input' \in {<<>>} \cup {<<f>> : f \in UNION {ToSet(folders[d]) : d \in DOMAIN folders}}
  /\ pc' = "scan" /\ runs' = runs - 1
  /\ UNCHANGED <<world, cache, parts, found, opened, groups, plans, at, outcome>>

End(result) == pc' = "done" /\ outcome' = result

Scan ==
  /\ pc = "scan"
  /\ LET paths == Scanned(recipe, folders, input) IN
     IF Len(paths) > recipe.max_files
     THEN End(Stopped("source")) /\ UNCHANGED found
     ELSE found' = Discovered(recipe, paths) /\ pc' = "open" /\ UNCHANGED outcome
  /\ UNCHANGED <<world, cache, parts, input, opened, groups, plans, at, runs>>

\* Companion archives are opened first.
OpenCompanions ==
  /\ pc = "open"
  /\ IF \E f \in found.generic : ~f.opens
     THEN End(Stopped("source")) ELSE pc' = "expand" /\ UNCHANGED outcome
  /\ UNCHANGED <<world, cache, parts, input, found, opened, groups, plans, at, runs>>

\* The bundle at hand: each one that is done has left a group.
Bundling == pc \in {"expand", "copy"} /\ Len(groups) < Len(found.bundles)
Bundle == found.bundles[Len(groups) + 1]

RefuseBundle ==
  /\ pc = "expand" /\ Bundling /\ BundleRefused(recipe, Bundle)
  /\ End(Stopped("source"))
  /\ UNCHANGED <<world, cache, parts, input, found, opened, groups, plans, at, runs>>

\* Where an inner APK is kept: _bundle_cache_token, its index and its name.
CacheKey(b, j) == <<b.name, b.blob.size, b.stamp, j, b.inner[j].name>>

\* Mutant: the cached copy is trusted for its size.
CacheValidBySize(key, member) ==
  key \in DOMAIN cache /\ cache[key].blob.size = Size(member)

CacheValid(key, member) ==
  /\ key \in DOMAIN cache
  /\ cache[key].blob.size = Size(member)
  /\ cache[key].blob.crc = member.file.blob.crc

\* The inner APK at hand.
AtMember ==
  pc = "expand" /\ Bundling /\ ~BundleRefused(recipe, Bundle) /\ Len(opened) < Len(Bundle.inner)
NextKey == CacheKey(Bundle, Len(opened) + 1)
NextMember == Bundle.inner[Len(opened) + 1]

RefuseMember ==
  /\ AtMember /\ SizeRefused(recipe, NextMember)
  /\ End(Stopped("source"))
  /\ UNCHANGED <<world, cache, parts, input, found, opened, groups, plans, at, runs>>

\* It is copied beside its place, over what an interrupted copy has left;
\* one whose data is not of its size and CRC ends the run as an I/O error does.
StartCopy ==
  /\ AtMember /\ ~SizeRefused(recipe, NextMember) /\ ~CacheValid(NextKey, NextMember)
  /\ parts' = parts \cup {NextKey} /\ pc' = "copy"
  /\ UNCHANGED <<world, cache, input, found, opened, groups, plans, at, outcome, runs>>

FinishCopy ==
  /\ pc = "copy"
  /\ cache' = [k \in DOMAIN cache \cup {NextKey} |-> IF k = NextKey THEN NextMember.file ELSE cache[k]]
  /\ parts' = parts \ {NextKey} /\ pc' = "expand"
  /\ UNCHANGED <<world, input, found, opened, groups, plans, at, outcome, runs>>

OpenMember ==
  /\ AtMember /\ ~SizeRefused(recipe, NextMember) /\ CacheValid(NextKey, NextMember)
  /\ IF Identified(cache[NextKey])
     THEN opened' = Append(opened, Opened(cache[NextKey], "apk")) /\ UNCHANGED <<pc, outcome>>
     ELSE End(Stopped("source")) /\ UNCHANGED opened
  /\ UNCHANGED <<world, cache, parts, input, found, groups, plans, at, runs>>

CloseBundle ==
  /\ pc = "expand" /\ Bundling /\ ~BundleRefused(recipe, Bundle)
  /\ Len(opened) = Len(Bundle.inner)
  /\ IF Cardinality(BundlePackages(opened)) > 1
     THEN End(Stopped("source")) /\ UNCHANGED groups
     ELSE /\ groups' = Append(groups, BundleGroup(found, Bundle, opened))
          /\ UNCHANGED <<pc, outcome>>
  /\ opened' = <<>>
  /\ UNCHANGED <<world, cache, parts, input, found, plans, at, runs>>

GroupDirect ==
  /\ pc = "expand" /\ Len(groups) = Len(found.bundles)
  /\ LET kept == Accepted(recipe, WithCompanion(found, groups \o DirectGroups(found))) IN
     IF kept = <<>> \/ \E f \in found.apks : ~f.opens
     THEN End(Stopped("source")) /\ UNCHANGED groups
     ELSE groups' = kept /\ pc' = "try" /\ UNCHANGED outcome
  /\ UNCHANGED <<world, cache, parts, input, found, opened, plans, at, runs>>

NumAbis == Len(recipe.abis)

\* Every group is tried with every ABI, in this order.
Try ==
  /\ pc = "try" /\ at[1] <= Len(groups)
  /\ \E tried \in {Attempt(recipe, groups[at[1]], at[2])} :
       IF Fatal(tried) THEN End(Stopped(tried.kind)) /\ UNCHANGED <<plans, at>>
       ELSE /\ plans' = plans \cup {tried}
            /\ at' = IF at[2] < NumAbis THEN <<at[1], at[2] + 1>> ELSE <<at[1] + 1, 1>>
            /\ UNCHANGED <<pc, outcome>>
  /\ UNCHANGED <<world, cache, parts, input, found, opened, groups, runs>>

Settle ==
  /\ pc = "try" /\ at[1] > Len(groups)
  /\ \E result \in Resolved(plans) : End(result)
  /\ UNCHANGED <<world, cache, parts, input, found, opened, groups, plans, at, runs>>

-----------------------------------------------------------------------------
(* Around it *)

\* The process is killed, runs out of space or meets an I/O error; or it has
\* come to its end.  What it has unpacked stays; of a copy begun nothing or,
\* when it is killed, a part.
Leave ==
  /\ pc # "off"
  /\ pc' = "off" /\ input' = <<>> /\ found' = NothingFound
  /\ opened' = <<>> /\ groups' = <<>> /\ plans' = {} /\ at' = <<1, 1>> /\ outcome' = NoResult
  /\ parts' \in IF pc = "copy" THEN {parts, parts \ {NextKey}} ELSE {parts}
  /\ UNCHANGED <<world, cache, runs>>

\* A newer file is copied over one of gamedata/, under the same name.
Replace ==
  /\ pc = "off" /\ runs < MaxRuns
  /\ \E j \in DOMAIN folders[1], f \in Newer :
       /\ f.name = folders[1][j].name /\ f # folders[1][j]
       /\ folders' = [folders EXCEPT ![1][j] = f]
  /\ UNCHANGED <<recipe, cache, parts, pc, input, found, opened, groups, plans, at, outcome, runs>>

Next ==
  \/ Start \/ Scan \/ OpenCompanions
  \/ RefuseBundle \/ RefuseMember \/ StartCopy \/ FinishCopy \/ OpenMember \/ CloseBundle
  \/ GroupDirect \/ Try \/ Settle \/ Leave \/ Replace

Spec == Init /\ [][Next]_vars

-----------------------------------------------------------------------------
(* The same selection as a function of the files, without cache or steps *)

Unpacked(b) == [j \in DOMAIN b.inner |-> Opened(b.inner[j].file, "apk")]

BundleBroken(rec, b) ==
  \/ BundleRefused(rec, b)
  \/ \E j \in DOMAIN b.inner : ~Identified(b.inner[j].file) \/ SizeRefused(rec, b.inner[j])
  \/ Cardinality(BundlePackages(Unpacked(b))) > 1

Broken(rec, d) ==
  \/ \E b \in ToSet(d.bundles) : BundleBroken(rec, b)
  \/ \E f \in d.apks \cup d.generic : ~f.opens

Groups(rec, d) ==
  Accepted(rec, WithCompanion(d,
    [j \in DOMAIN d.bundles |-> BundleGroup(d, d.bundles[j], Unpacked(d.bundles[j]))]
    \o DirectGroups(d)))
Attempts(rec, gs) == {Attempt(rec, gs[a], k) : a \in DOMAIN gs, k \in DOMAIN rec.abis}

\* What a selection from these files may come to.
Results(rec, fs) ==
  LET d     == Discovered(rec, fs)
      tried == Attempts(rec, Groups(rec, d))
  IN  IF \/ Len(fs) > rec.max_files \/ Broken(rec, d) \/ Groups(rec, d) = <<>>
         \/ \E p \in tried : Fatal(p)
      THEN {Stopped("source")} ELSE Resolved(tried)

\* Two results write the same, or both nothing.
Same(a, b) == (a.kind = "ok" <=> b.kind = "ok") /\ a.items = b.items

\* The files that rules may take whole.
Wholes(rec, fs) ==
  LET gs == Groups(rec, Discovered(rec, fs)) IN
  UNION {Whole(gs[a], rec.rules[j], rec.abis[k]) :
           j \in DOMAIN rec.rules, a \in DOMAIN gs, k \in DOMAIN rec.abis}

-----------------------------------------------------------------------------
(* Properties *)

Done == pc = "done"
Paths == Scanned(recipe, folders, input)

\* Every variable is what the code's objects can be.
TypeOK ==
  /\ pc \in {"off", "scan", "open", "expand", "copy", "try", "done"}
  /\ runs \in 0..MaxRuns /\ recipe \in Recipes
  /\ outcome.kind \in Kinds \cup {"none"}
  /\ pc = "done" => outcome.kind \in Kinds
  /\ pc = "try" => at[1] \in 1..(Len(groups) + 1) /\ at[2] \in 1..NumAbis
  /\ pc = "expand" => Len(groups) <= Len(found.bundles)
  /\ \A key \in DOMAIN cache : cache[key] \in InnerFiles
  /\ pc = "copy" => NextKey \in parts

\* UnpackedTrue: each inner APK that is opened, kept by an earlier run or
\* copied now, has the size and CRC of the bundle's member (_copy_zip_member_resume).
UnpackedTrue ==
  Bundling => \A j \in DOMAIN opened :
    LET member == Bundle.inner[j].file.blob IN
    opened[j].blob.size = member.size /\ opened[j].blob.crc = member.crc

\* The blobs that one source offers: the loose APKs of one package, or one
\* bundle with its inner APKs.
Inside(fs) == UNION {{f.blob} \cup Entries(f) : f \in fs}
Inner(b) == {b.inner[j].file : j \in DOMAIN b.inner}
Sources ==
  {Inside({f \in ToSet(Paths) : Class(f) = "apk" /\ f.package = p}) : p \in ToSet(Packages)}
  \cup {Inside({b} \cup Inner(b)) : b \in {f \in ToSet(Paths) : Class(f) = "bundle"}}
  \cup {{}}
Data == Inside({f \in ToSet(Paths) : Class(f) \in {"archive", "none"}})

\* Genuine: all items of a plan come from one source, and companion data, as
\* the files are now - whatever an interrupted run or an older bundle of the
\* same name, size and time has left in the cache.
Genuine ==
  Done /\ outcome.kind = "ok" =>
    \E s \in Sources : \A i \in outcome.items : i.blob \in s \cup Data

\* Fits: a plan satisfies the recipe for one ABI: an item for every required
\* rule (a tree that asks for no number of files may come to none), each item
\* valid, under a commit path and alone at its destination, even on a card
\* that does not tell case apart.
Fits ==
  Done /\ outcome.kind = "ok" =>
    \E k \in DOMAIN recipe.abis :
      LET abi == recipe.abis[k] IN
      /\ \A rule \in ToSet(recipe.rules) :
           LET own == {i \in outcome.items : i.rule = rule.id} IN
           /\ rule.required /\ (rule.kind = "entries" => 0 \notin rule.counts) => own # {}
           /\ rule.kind # "entries" => Cardinality(own) <= 1
           /\ rule.kind # "entries" => \A i \in own : Valid(i.blob, rule, abi)
           /\ rule.kind = "entries" /\ own # {} => Cardinality(own) \in rule.counts
      /\ \A i, j \in outcome.items : Key[i.dest] = Key[j.dest] => i = j
      /\ \A i \in outcome.items : i.dest \in recipe.commit[abi]

\* NameBlind: file names decide nothing. In whatever order their names put
\* the files, the selection succeeds alike and writes the same contents, as
\* long as no two files that rules may take whole have one size and differ:
\* between those the fingerprint sees no difference and the name decides.
WholesTold == \A b, c \in Wholes(recipe, Paths) : b.size = c.size => b = c
NameBlind ==
  Done /\ WholesTold => \A p \in Bijection(DOMAIN Paths, DOMAIN Paths) :
    \A result \in Results(recipe, [j \in DOMAIN Paths |-> Paths[p[j]]]) : Same(outcome, result)

\* ForeignIgnored: readable files of another application change nothing in
\* what the selection may come to, as long as one APK or bundle of an accepted
\* package is there.
Belongs(rec, f) ==
  CASE Class(f) = "apk"    -> rec.packages = {} \/ f.package \in rec.packages
    [] Class(f) = "bundle" -> rec.packages = {} \/ BundlePackages(Unpacked(f)) \subseteq rec.packages
    [] OTHER               -> TRUE
ForeignIgnored ==
  LET own == Only(Paths, {f \in ToSet(Paths) : Belongs(recipe, f)})
      d   == Discovered(recipe, Paths)
  IN  Done /\ ~Broken(recipe, d) /\ (\E f \in ToSet(own) : Class(f) \in {"apk", "bundle"})
      /\ Len(Paths) <= recipe.max_files
      => \E result \in Results(recipe, own) : Same(outcome, result)

\* PortFolderSearched: files that no rule can use do not keep the extractor
\* from the second search directory (README.md: "NXExtract 1.2.7 searches
\* `gamedata/` and the port directory").
Useless(rec, f) == Class(f) = "none" /\ f.ext \notin rec.exts
PortFolderSearched ==
  Done /\ input = <<>> /\ (\A f \in ToSet(folders[1]) : Useless(recipe, f))
  => \E result \in Results(recipe, Seen(recipe, 2, folders[2])) : Same(outcome, result)
===============================================================================
