----------------------------- MODULE NxPlanProofs -----------------------------
(***************************************************************************)
(* What a selection of the player's files comes to, for any recipe, any    *)
(* files, any number of selections and any interruption.                   *)
(*                                                                         *)
(* The first part is about sequences and recursion: the least element of a *)
(* set of numbers gives induction up to a number (UpTo), and with it what  *)
(* Only, the filter of NxPlan, computes.  SelectInv says how far each step *)
(* has come in computing Results, the selection as a function of the       *)
(* files; the theorems follow from it and from what Results depends on.    *)
(* The last part, about the cache alone, uses no assumption on the         *)
(* contents.                                                               *)
(***************************************************************************)
EXTENDS NxPlan, FiniteSetTheorems, SequenceTheorems, WellFoundedInduction, TLAPS

-----------------------------------------------------------------------------
(* Sequences and numbers *)

\* A set of numbers has a least one.
LEMMA LeastNat ==
  ASSUME NEW T, T \subseteq Nat, T # {}
  PROVE  \E x \in T : \A y \in T : x <= y
<1> DEFINE R == OpToRel(<, Nat)
<1>1. IsWellFoundedOn(R, Nat)
  BY NatLessThanWellFounded
<1>2. \A x, y \in Nat : y < x => <<y, x>> \in R
  BY DEF R, OpToRel
<1> HIDE DEF R
<1>3. PICK x \in T : \A y \in T : ~ (<<y, x>> \in R)
  BY <1>1, WFMin
<1>4. \A y \in T : ~(y < x)
  BY <1>2, <1>3
<1> QED
  BY <1>4

\* Induction: what holds of 0 and goes on up to m holds up to m.
LEMMA UpTo ==
  ASSUME NEW m \in Nat, NEW Good, 0 \in Good,
         \A n \in 1..m : n - 1 \in Good => n \in Good
  PROVE  \A n \in 0..m : n \in Good
<1> SUFFICES ASSUME NEW n \in 0..m, n \notin Good PROVE FALSE
  OBVIOUS
<1> DEFINE Bad == {k \in 0..m : k \notin Good}
<1>1. Bad \subseteq Nat /\ Bad # {}
  OBVIOUS
<1>2. PICK k \in Bad : \A j \in Bad : k <= j
  BY <1>1, LeastNat
<1>3. k \in 1..m /\ k - 1 \in 0..m
  OBVIOUS
<1>4. k - 1 \in Good
  BY <1>2, <1>3
<1> QED
  BY <1>3, <1>4

\* What appending does to a sequence.
LEMMA AppendFacts ==
  ASSUME NEW T, NEW s \in Seq(T), NEW e \in T
  PROVE  /\ Append(s, e) \in Seq(T) /\ Len(Append(s, e)) = Len(s) + 1
         /\ \A i \in 1..Len(s) : Append(s, e)[i] = s[i]
         /\ Append(s, e)[Len(s) + 1] = e
         /\ ToSet(Append(s, e)) = ToSet(s) \cup {e}
<1> DEFINE t == Append(s, e)
<1>1. /\ t \in Seq(T) /\ Len(t) = Len(s) + 1 /\ Len(s) \in Nat
      /\ \A i \in 1..Len(s) : t[i] = s[i]
      /\ t[Len(s) + 1] = e
      /\ DOMAIN t = 1..(Len(s) + 1) /\ DOMAIN s = 1..Len(s)
  OBVIOUS
<1> HIDE DEF t
<1>2. \A x : x \in ToSet(t) <=> x \in ToSet(s) \/ x = e
  BY <1>1 DEF ToSet
<1>3. ToSet(t) = ToSet(s) \cup {e}
  BY <1>2
<1> QED
  BY <1>1, <1>3 DEF t

\* The recursive function that Only is defined by.
OnlyStep(f, s, S, n) ==
  IF n = 0 THEN <<>> ELSE IF s[n] \in S THEN Append(f[n - 1], s[n]) ELSE f[n - 1]

LEMMA OnlyExists ==
  ASSUME NEW T, NEW s \in Seq(T), NEW S
  PROVE  \E f : f = [n \in 0..Len(s) |-> OnlyStep(f, s, S, n)]
<1> DEFINE Good == {m \in Nat : \E f : f = [n \in 0..m |-> OnlyStep(f, s, S, n)]}
<1>1. 0 \in Good
  <2> DEFINE g == [n \in 0..0 |-> <<>>]
  <2>1. g = [n \in 0..0 |-> OnlyStep(g, s, S, n)]
    BY DEF OnlyStep
  <2> QED
    BY <2>1
<1>2. \A m \in 1..Len(s) : m - 1 \in Good => m \in Good
  <2> SUFFICES ASSUME NEW m \in 1..Len(s), m - 1 \in Good PROVE m \in Good
    OBVIOUS
  <2>1. PICK f : f = [n \in 0..(m - 1) |-> OnlyStep(f, s, S, n)]
    OBVIOUS
  <2> DEFINE g == [n \in 0..m |-> IF n = m THEN OnlyStep(f, s, S, m) ELSE f[n]]
  <2>2. \A n \in 0..(m - 1) : g[n] = f[n]
    OBVIOUS
  <2>6. g[m] = OnlyStep(f, s, S, m) /\ g = [n \in 0..m |-> g[n]]
    OBVIOUS
  <2>3. \A n \in 0..m : OnlyStep(g, s, S, n) = OnlyStep(f, s, S, n)
    BY <2>2 DEF OnlyStep
  <2> HIDE DEF g
  <2>4. \A n \in 0..m : g[n] = OnlyStep(g, s, S, n)
    <3> SUFFICES ASSUME NEW n \in 0..m PROVE g[n] = OnlyStep(g, s, S, n)
      OBVIOUS
    <3>1. g[n] = OnlyStep(f, s, S, n)
      <4>1. CASE n = m
        BY <4>1, <2>6
      <4>2. CASE n \in 0..(m - 1)
        BY <4>2, <2>2, <2>1
      <4> QED
        BY <4>1, <4>2
    <3> QED
      BY <3>1, <2>3
  <2>5. g = [n \in 0..m |-> OnlyStep(g, s, S, n)]
    BY <2>4, <2>6
  <2> QED
    BY <2>5
<1>3. Len(s) \in Good
  <2> HIDE DEF Good
  <2>1. Len(s) \in Nat
    OBVIOUS
  <2>2. \A n \in 0..Len(s) : n \in Good
    BY <1>1, <1>2, <2>1, UpTo
  <2> QED
    BY <2>1, <2>2
<1> QED
  BY <1>3

LEMMA OnlyIs ==
  ASSUME NEW T, NEW s \in Seq(T), NEW S
  PROVE  \E f : /\ f = [n \in 0..Len(s) |-> OnlyStep(f, s, S, n)]
                /\ Only(s, S) = f[Len(s)]
<1> DEFINE f == CHOOSE f : f = [n \in 0..Len(s) |-> OnlyStep(f, s, S, n)]
<1>1. f = [n \in 0..Len(s) |-> OnlyStep(f, s, S, n)]
  BY OnlyExists
<1>2. Only(s, S) = f[Len(s)]
  BY DEF Only, OnlyStep
<1> QED
  BY <1>1, <1>2

LEMMA OnlyFacts ==
  ASSUME NEW T, NEW s \in Seq(T), NEW S
  PROVE  /\ Only(s, S) \in Seq(T)
         /\ ToSet(Only(s, S)) = ToSet(s) \cap S
         /\ Len(Only(s, S)) <= Len(s)
<1>1. PICK f : /\ f = [n \in 0..Len(s) |-> OnlyStep(f, s, S, n)]
               /\ Only(s, S) = f[Len(s)]
  BY OnlyIs
<1>0. Len(s) \in Nat /\ \A n \in 0..Len(s) : f[n] = OnlyStep(f, s, S, n)
  BY <1>1
<1> DEFINE Good == {n \in 0..Len(s) :
                      /\ f[n] \in Seq(T) /\ Len(f[n]) <= n
                      /\ ToSet(f[n]) = {s[i] : i \in 1..n} \cap S}
<1>2. 0 \in Good
  <2>1. f[0] = <<>>
    BY <1>1 DEF OnlyStep
  <2>2. <<>> \in Seq(T) /\ Len(<<>>) = 0
    OBVIOUS
  <2>3. ToSet(<<>>) = {} /\ {s[i] : i \in 1..0} = {}
    BY DEF ToSet
  <2>4. 0 \in 0..Len(s) /\ 0 <= 0 /\ {} = {} \cap S
    OBVIOUS
  <2> QED
    BY <2>1, <2>2, <2>3, <2>4
<1>3. \A n \in 1..Len(s) : n - 1 \in Good => n \in Good
  <2> SUFFICES ASSUME NEW n \in 1..Len(s), n - 1 \in Good PROVE n \in Good
    OBVIOUS
  <2>0. n \in 0..Len(s) /\ f[n] = OnlyStep(f, s, S, n)
    BY <1>0
  <2>1. f[n] = IF s[n] \in S THEN Append(f[n - 1], s[n]) ELSE f[n - 1]
    BY <2>0 DEF OnlyStep
  <2>2. s[n] \in T /\ {s[i] : i \in 1..n} = {s[i] : i \in 1..(n - 1)} \cup {s[n]}
    OBVIOUS
  <2>3. CASE s[n] \in S
    <3>0. f[n] = Append(f[n - 1], s[n]) /\ f[n - 1] \in Seq(T) /\ s[n] \in T
      BY <2>1, <2>2, <2>3
    <3>1. /\ f[n] \in Seq(T) /\ Len(f[n]) = Len(f[n - 1]) + 1
          /\ ToSet(f[n]) = ToSet(f[n - 1]) \cup {s[n]}
      BY <3>0, AppendFacts
    <3>3. Len(f[n]) <= n
      BY <2>0, <3>1
    <3>4. ToSet(f[n]) = {s[i] : i \in 1..n} \cap S
      BY <2>2, <2>3, <3>1
    <3> QED
      BY <2>0, <3>1, <3>3, <3>4
  <2>4. CASE s[n] \notin S
    BY <2>1, <2>2, <2>4
  <2> QED
    BY <2>3, <2>4
<1>4. Len(s) \in Good
  <2> HIDE DEF Good
  <2>1. Len(s) \in Nat
    OBVIOUS
  <2>2. \A n \in 0..Len(s) : n \in Good
    BY <1>2, <1>3, <2>1, UpTo
  <2> QED
    BY <2>1, <2>2
<1>5. {s[i] : i \in 1..Len(s)} = ToSet(s)
  BY DEF ToSet
<1> QED
  BY <1>1, <1>4, <1>5

-----------------------------------------------------------------------------
(* The inductive invariant: how far a selection has come *)

\* The world, the files named by the player and the cache.
WorldInv ==
  /\ recipe \in Recipes /\ runs \in 0..MaxRuns
  /\ DOMAIN folders = 1..2 /\ folders[1] \in Seq(AnyFile) /\ folders[2] \in Seq(AnyFile)
  /\ input \in Seq(AnyFile)
  /\ \A key \in DOMAIN cache : cache[key] \in InnerFiles

\* A selection starts from nothing.
IdleInv ==
  pc \in {"off", "scan", "open", "expand", "copy"} =>
    /\ pc \in {"off", "scan", "open"} => groups = <<>> /\ opened = <<>>
    /\ plans = {} /\ at = <<1, 1>>

\* The first bundles have become groups, and of the next one the first inner
\* APKs are open, each as the bundle has it.
GoodMember(rec, member) == Identified(member.file) /\ ~SizeRefused(rec, member)
ExpandInv ==
  pc \in {"open", "expand", "copy"} =>
    /\ found = Discovered(recipe, Paths) /\ ~(Len(Paths) > recipe.max_files)
    /\ groups \in Seq(ToSet(groups)) /\ Len(groups) <= Len(found.bundles)
    /\ \A j \in 1..Len(groups) :
         LET b == found.bundles[j] IN
         ~BundleBroken(recipe, b) /\ groups[j] = BundleGroup(found, b, Unpacked(b))
    /\ opened \in Seq(ToSet(opened))
    /\ Len(groups) < Len(found.bundles) =>
         /\ Len(opened) <= Len(Bundle.inner)
         /\ \A j \in 1..Len(opened) : /\ opened[j] = Opened(Bundle.inner[j].file, "apk")
                                      /\ GoodMember(recipe, Bundle.inner[j])
    /\ ~(Len(groups) < Len(found.bundles)) => opened = <<>>
    /\ pc # "open" => \A f \in found.generic : f.opens
    /\ pc = "copy" => Bundling /\ Len(opened) < Len(Bundle.inner) /\ NextKey \in parts

\* The attempts made so far: those before the one to make next.
Tried == {m \in (1..Len(groups)) \X (1..NumAbis) :
            m[1] < at[1] \/ (m[1] = at[1] /\ m[2] < at[2])}
TryInv ==
  pc = "try" =>
    /\ found = Discovered(recipe, Paths) /\ ~(Len(Paths) > recipe.max_files)
    /\ ~Broken(recipe, found) /\ groups = Groups(recipe, found) /\ groups # <<>>
    /\ at \in (1..(Len(groups) + 1)) \X (1..NumAbis)
    /\ at[1] > Len(groups) => at[2] = 1
    /\ plans = {Attempt(recipe, groups[m[1]], m[2]) : m \in Tried}
    /\ \A p \in plans : ~Fatal(p)

\* What a selection may come to, by what Results looks at.
Fails(rec, fs) ==
  LET d == Discovered(rec, fs) IN
  \/ Len(fs) > rec.max_files \/ Broken(rec, d) \/ Groups(rec, d) = <<>>
  \/ \E p \in Attempts(rec, Groups(rec, d)) : Fatal(p)
Outcomes(rec, fs) ==
  IF Fails(rec, fs) THEN {Stopped("source"), Stopped("recipe")}
  ELSE Resolved(Attempts(rec, Groups(rec, Discovered(rec, fs))))
DoneInv == pc = "done" => outcome \in Outcomes(recipe, Paths)

PcInv ==
  /\ pc \in {"off", "scan", "open", "expand", "copy", "try", "done"}
  /\ (pc # "done" => outcome = NoResult)

SelectInv == PcInv /\ WorldInv /\ IdleInv /\ ExpandInv /\ TryInv /\ DoneInv

-----------------------------------------------------------------------------
(* What a scan finds *)

\* The files a selection looks at are files there may be (Scanned).
LEMMA PathsAreFiles ==
  ASSUME WorldInv
  PROVE  Paths \in Seq(AnyFile)
<1>1. \A d \in 1..2 : /\ Seen(recipe, d, folders[d]) \in Seq(AnyFile)
  <2> SUFFICES ASSUME NEW d \in 1..2 PROVE Seen(recipe, d, folders[d]) \in Seq(AnyFile)
    OBVIOUS
  <2>1. folders[d] \in Seq(AnyFile)
    BY DEF WorldInv
  <2> QED
    BY <2>1, OnlyFacts DEF Seen
<1>2. input \in Seq(AnyFile)
  BY DEF WorldInv
<1>3. Seen(recipe, 1, folders[1]) \in Seq(AnyFile) /\ Seen(recipe, 2, folders[2]) \in Seq(AnyFile)
  BY <1>1
<1>4. Seen(recipe, 1, folders[1]) \o Seen(recipe, 2, folders[2]) \in Seq(AnyFile)
  BY <1>3
<1> QED
  BY <1>2, <1>3, <1>4 DEF Paths, Scanned

\* What is found is among what was looked at (discover_inputs).
LEMMA FoundFacts ==
  ASSUME NEW rec, NEW T, NEW fs \in Seq(T)
  PROVE  /\ Discovered(rec, fs).bundles \in Seq(T)
         /\ Len(Discovered(rec, fs).bundles) \in Nat
         /\ ToSet(Discovered(rec, fs).bundles) = {f \in ToSet(fs) : Class(f) = "bundle"}
         /\ Discovered(rec, fs).apks = {f \in ToSet(fs) : Class(f) = "apk"}
         /\ Discovered(rec, fs).generic = {f \in ToSet(fs) : Class(f) = "archive"}
         /\ Discovered(rec, fs).loose = {f \in ToSet(fs) : Class(f) = "archive" /\ f.ext = "obb"}
                                   \cup {f \in ToSet(fs) : Class(f) = "none" /\ f.ext \in rec.exts}
         /\ ToSet(fs) \subseteq T
<1> DEFINE B == {f \in ToSet(fs) : Class(f) = "bundle"}
<1>1. Only(fs, B) \in Seq(T) /\ ToSet(Only(fs, B)) = ToSet(fs) \cap B
  BY OnlyFacts
<1>2. ToSet(fs) \subseteq T
  BY DEF ToSet
<1>3. Discovered(rec, fs).bundles = Only(fs, B)
  BY DEF Discovered
<1> HIDE DEF B
<1>4. Len(Only(fs, B)) \in Nat
  BY <1>1
<1>5. ToSet(Discovered(rec, fs).bundles) = B
  BY <1>1, <1>3 DEF B
<1>6. /\ Discovered(rec, fs).apks = {f \in ToSet(fs) : Class(f) = "apk"}
      /\ Discovered(rec, fs).generic = {f \in ToSet(fs) : Class(f) = "archive"}
      /\ Discovered(rec, fs).loose = {f \in ToSet(fs) : Class(f) = "archive" /\ f.ext = "obb"}
                                \cup {f \in ToSet(fs) : Class(f) = "none" /\ f.ext \in rec.exts}
  BY DEF Discovered
<1> QED
  BY <1>1, <1>2, <1>3, <1>4, <1>5, <1>6 DEF B

-----------------------------------------------------------------------------
(* The steps keep the invariant *)

\* The bundle at hand is a file of the player, and what it holds is known.
LEMMA BundleFacts ==
  ASSUME WorldInv, ExpandInv, Bundling
  PROVE  /\ Len(groups) + 1 \in DOMAIN found.bundles /\ Len(groups) \in Nat
         /\ Bundle \in ToSet(found.bundles) /\ Bundle \in AnyFile
         /\ Bundle.inner \in Seq(ToSet(Bundle.inner)) /\ Len(Bundle.inner) \in Nat
         /\ DOMAIN Bundle.inner = 1..Len(Bundle.inner)
         /\ \A j \in DOMAIN Bundle.inner : Bundle.inner[j].file \in InnerFiles
<1>1. Paths \in Seq(AnyFile)
  BY PathsAreFiles
<1>2. found = Discovered(recipe, Paths) /\ Len(groups) \in Nat /\ Len(groups) < Len(found.bundles)
  BY DEF ExpandInv, Bundling
<1>3. found.bundles \in Seq(AnyFile) /\ Len(found.bundles) \in Nat
  BY <1>1, <1>2, FoundFacts
<1>4. Len(groups) + 1 \in DOMAIN found.bundles
  BY <1>2, <1>3
<1>5. Bundle \in AnyFile /\ Bundle \in ToSet(found.bundles)
  BY <1>3, <1>4 DEF Bundle, ToSet
<1>6. Bundle.inner \in Seq(ToSet(Bundle.inner))
  BY <1>5, FilesAssumption
<1>7. Len(Bundle.inner) \in Nat /\ DOMAIN Bundle.inner = 1..Len(Bundle.inner)
  BY <1>6
<1>8. \A j \in DOMAIN Bundle.inner : Bundle.inner[j].file \in InnerFiles
  BY <1>5 DEF InnerFiles
<1> QED
  BY <1>2, <1>4, <1>5, <1>6, <1>7, <1>8

\* What the cache holds for a member has its content (CacheValid).
LEMMA CacheIsMember ==
  ASSUME WorldInv, NEW member, member.file \in InnerFiles, NEW key, CacheValid(key, member)
  PROVE  /\ cache[key] \in InnerFiles
         /\ Opened(cache[key], "apk") = Opened(member.file, "apk")
         /\ Identified(cache[key]) <=> Identified(member.file)
<1> DEFINE f == cache[key]
           g == member.file
<1>1. f \in InnerFiles /\ g \in InnerFiles
  BY DEF WorldInv, CacheValid
<1>2. f.blob \in Blobs /\ g.blob \in Blobs
  BY <1>1 DEF Blobs
<1>3. f.blob = g.blob
  BY <1>2, ContentAssumption DEF CacheValid, Size
<1>4. /\ f.manifest = g.manifest /\ f.opens = g.opens /\ f.package = g.package
      /\ f.split = g.split /\ f.entries = g.entries /\ f.damage = g.damage
  BY <1>1, <1>3, ContentAssumption
<1> QED
  BY <1>1, <1>3, <1>4 DEF Opened, Identified

\* A broken bundle, an unreadable file or no group at all is the end (Results).
LEMMA SourceOutcome ==
  ASSUME NEW rec, NEW fs,
         \/ Len(fs) > rec.max_files
         \/ Broken(rec, Discovered(rec, fs))
         \/ Groups(rec, Discovered(rec, fs)) = <<>>
  PROVE  Stopped("source") \in Outcomes(rec, fs)
BY DEF Outcomes, Fails

\* A selection that ends keeps the invariant if its outcome is one there may be.
LEMMA EndKeeps ==
  ASSUME SelectInv, NEW result, End(result), result \in Outcomes(recipe, Paths),
         UNCHANGED <<world, input, runs>>, cache' = cache
  PROVE  SelectInv'
<1>1. pc' = "done" /\ outcome' = result
  BY DEF End
<1>2. Paths' = Paths
  BY DEF Paths, world
<1>3. PcInv' /\ IdleInv' /\ ExpandInv' /\ TryInv'
  BY <1>1 DEF PcInv, IdleInv, ExpandInv, TryInv
<1>4. WorldInv'
  BY DEF SelectInv, WorldInv, world
<1>5. DoneInv'
  BY <1>1, <1>2 DEF DoneInv, world
<1> QED
  BY <1>3, <1>4, <1>5 DEF SelectInv

LEMMA StartStep == ASSUME SelectInv, Start PROVE SelectInv'
<1>1. pc = "off" /\ pc' = "scan" /\ runs' = runs - 1 /\ runs > 0
      /\ UNCHANGED <<recipe, folders, cache, parts, found, opened, groups, plans, at, outcome>>
  BY DEF Start, world
<1>2. PcInv' /\ IdleInv' /\ ExpandInv' /\ TryInv' /\ DoneInv'
  BY <1>1 DEF SelectInv, PcInv, IdleInv, ExpandInv, TryInv, DoneInv
<1>3. input' \in Seq(AnyFile)
  <2>1. CASE input' = <<>>
    BY <2>1
  <2>2. ASSUME NEW d \in DOMAIN folders, NEW f \in ToSet(folders[d]), input' = <<f>>
        PROVE  input' \in Seq(AnyFile)
    <3>1. f \in AnyFile
      BY DEF SelectInv, WorldInv, ToSet
    <3> QED
      BY <3>1, <2>2
  <2> QED
    BY <2>1, <2>2 DEF Start
<1>4. runs' \in 0..MaxRuns
  BY <1>1, FilesAssumption DEF SelectInv, WorldInv
<1>5. WorldInv'
  BY <1>1, <1>3, <1>4 DEF SelectInv, WorldInv
<1> QED
  BY <1>2, <1>5 DEF SelectInv

LEMMA ScanStep == ASSUME SelectInv, Scan PROVE SelectInv'
<1>0. pc = "scan" /\ UNCHANGED <<world, cache, parts, input, opened, groups, plans, at, runs>>
  BY DEF Scan
<1>1. Paths' = Paths /\ Paths = Scanned(recipe, folders, input)
  BY <1>0 DEF Paths, world
<1>2. CASE Len(Paths) > recipe.max_files /\ End(Stopped("source"))
  <2>1. Stopped("source") \in Outcomes(recipe, Paths)
    BY <1>2, SourceOutcome
  <2> QED
    BY <1>0, <1>2, <2>1, EndKeeps
<1>3. CASE /\ ~(Len(Paths) > recipe.max_files) /\ found' = Discovered(recipe, Paths)
           /\ pc' = "open" /\ UNCHANGED outcome
  <2>1. groups = <<>> /\ opened = <<>> /\ plans = {} /\ at = <<1, 1>>
    BY <1>0 DEF SelectInv, IdleInv
  <2>2. WorldInv' /\ PcInv' /\ IdleInv' /\ TryInv' /\ DoneInv'
    BY <1>0, <1>3, <2>1 DEF SelectInv, WorldInv, PcInv, IdleInv, TryInv, DoneInv, world
  <2>3. Discovered(recipe, Paths).bundles \in Seq(AnyFile) /\ Len(found'.bundles) \in Nat
    BY <1>3, PathsAreFiles, FoundFacts DEF SelectInv
  <2>4. Len(groups') = 0 /\ Len(opened') = 0 /\ groups' = <<>> /\ opened' = <<>>
    BY <1>0, <2>1
  <2>5. groups' \in Seq(ToSet(groups')) /\ opened' \in Seq(ToSet(opened'))
    BY <2>4
  <2>6. Len(groups') < Len(found'.bundles) => Len(opened') <= Len(Bundle'.inner)
    <3> SUFFICES ASSUME Len(groups') < Len(found'.bundles) PROVE Len(opened') <= Len(Bundle'.inner)
      OBVIOUS
    <3>1. Bundle' \in AnyFile
      <4>1. Len(groups') + 1 \in DOMAIN found'.bundles
        BY <1>3, <2>3, <2>4
      <4> QED
        BY <1>3, <2>3, <4>1 DEF Bundle
    <3>2. Bundle'.inner \in Seq(ToSet(Bundle'.inner))
      BY <3>1, FilesAssumption
    <3>3. Len(Bundle'.inner) \in Nat
      BY <3>2
    <3> QED
      BY <3>3, <2>4
  <2>7. recipe' = recipe /\ Len(groups') <= Len(found'.bundles)
    BY <1>0, <2>3, <2>4 DEF world
  <2>8. ExpandInv'
    BY <1>1, <1>3, <2>4, <2>5, <2>6, <2>7 DEF ExpandInv
  <2> QED
    BY <2>2, <2>8 DEF SelectInv
<1> QED
  BY <1>1, <1>2, <1>3 DEF Scan

LEMMA OpenCompanionsStep == ASSUME SelectInv, OpenCompanions PROVE SelectInv'
<1>0. pc = "open" /\ UNCHANGED <<world, cache, parts, input, found, opened, groups, plans, at, runs>>
  BY DEF OpenCompanions
<1>1. found = Discovered(recipe, Paths)
  BY <1>0 DEF SelectInv, ExpandInv
<1>2. CASE (\E f \in found.generic : ~f.opens) /\ End(Stopped("source"))
  <2>1. Stopped("source") \in Outcomes(recipe, Paths)
    BY <1>1, <1>2, SourceOutcome DEF Broken
  <2> QED
    BY <1>0, <1>2, <2>1, EndKeeps
<1>3. CASE ~(\E f \in found.generic : ~f.opens) /\ pc' = "expand" /\ UNCHANGED outcome
  <2>1. Paths' = Paths /\ Bundle' = Bundle
    BY <1>0 DEF Paths, Bundle, world
  <2>2. ExpandInv'
    BY <1>0, <1>3, <2>1 DEF SelectInv, ExpandInv, world
  <2>3. WorldInv' /\ PcInv' /\ IdleInv' /\ TryInv' /\ DoneInv'
    BY <1>0, <1>3 DEF SelectInv, WorldInv, PcInv, IdleInv, TryInv, DoneInv, world
  <2> QED
    BY <2>2, <2>3 DEF SelectInv
<1> QED
  BY <1>2, <1>3 DEF OpenCompanions

LEMMA RefuseBundleStep == ASSUME SelectInv, RefuseBundle PROVE SelectInv'
<1>1. Bundle \in ToSet(found.bundles) /\ found = Discovered(recipe, Paths)
  BY BundleFacts DEF SelectInv, RefuseBundle, ExpandInv, Bundling
<1>2. Broken(recipe, found)
  BY <1>1 DEF RefuseBundle, Broken, BundleBroken
<1>3. Stopped("source") \in Outcomes(recipe, Paths)
  BY <1>1, <1>2, SourceOutcome
<1> QED
  BY <1>3, EndKeeps DEF RefuseBundle

\* The inner APK at hand is one there may be.
LEMMA MemberFacts ==
  ASSUME SelectInv, Bundling, Len(opened) < Len(Bundle.inner)
  PROVE  /\ Bundle \in ToSet(found.bundles) /\ found = Discovered(recipe, Paths)
         /\ opened \in Seq(ToSet(opened)) /\ Len(opened) \in Nat
         /\ DOMAIN Bundle.inner = 1..Len(Bundle.inner) /\ Len(Bundle.inner) \in Nat
         /\ Len(opened) + 1 \in DOMAIN Bundle.inner /\ NextMember.file \in InnerFiles
<1>1. /\ Bundle \in ToSet(found.bundles) /\ Len(Bundle.inner) \in Nat
      /\ DOMAIN Bundle.inner = 1..Len(Bundle.inner)
      /\ \A k \in DOMAIN Bundle.inner : Bundle.inner[k].file \in InnerFiles
  BY BundleFacts DEF SelectInv
<1>2. found = Discovered(recipe, Paths) /\ opened \in Seq(ToSet(opened)) /\ Len(opened) \in Nat
  BY DEF SelectInv, ExpandInv, Bundling
<1>3. Len(opened) + 1 \in DOMAIN Bundle.inner
  BY <1>1, <1>2
<1> QED
  BY <1>1, <1>2, <1>3 DEF NextMember

LEMMA RefuseMemberStep == ASSUME SelectInv, RefuseMember PROVE SelectInv'
<1>1. Bundling /\ Len(opened) < Len(Bundle.inner) /\ SizeRefused(recipe, NextMember)
  BY DEF RefuseMember, AtMember
<1>2. BundleBroken(recipe, Bundle)
  BY <1>1, MemberFacts DEF BundleBroken, NextMember
<1>3. Stopped("source") \in Outcomes(recipe, Paths)
  BY <1>1, <1>2, MemberFacts, SourceOutcome DEF Broken
<1> QED
  BY <1>3, EndKeeps DEF RefuseMember

LEMMA StartCopyStep == ASSUME SelectInv, StartCopy PROVE SelectInv'
<1>0. /\ pc = "expand" /\ Bundling /\ Len(opened) < Len(Bundle.inner)
      /\ parts' = parts \cup {NextKey} /\ pc' = "copy"
      /\ UNCHANGED <<world, cache, input, found, opened, groups, plans, at, outcome, runs>>
  BY DEF StartCopy, AtMember
<1>1. Paths' = Paths /\ Bundle' = Bundle
  BY <1>0 DEF Paths, Bundle, world
<1>2. NextKey' = NextKey /\ Bundling'
  BY <1>0, <1>1 DEF NextKey, CacheKey, Bundling
<1>3. ExpandInv'
  BY <1>0, <1>1, <1>2 DEF SelectInv, ExpandInv, world
<1>4. WorldInv' /\ PcInv' /\ IdleInv' /\ TryInv' /\ DoneInv'
  BY <1>0 DEF SelectInv, WorldInv, PcInv, IdleInv, TryInv, DoneInv, world
<1> QED
  BY <1>3, <1>4 DEF SelectInv

LEMMA FinishCopyStep == ASSUME SelectInv, FinishCopy PROVE SelectInv'
<1>0. /\ pc = "copy" /\ pc' = "expand"
      /\ UNCHANGED <<world, input, found, opened, groups, plans, at, outcome, runs>>
  BY DEF FinishCopy
<1>1. Bundling /\ Len(opened) < Len(Bundle.inner)
  BY <1>0 DEF SelectInv, ExpandInv
<1>2. Paths' = Paths /\ Bundle' = Bundle
  BY <1>0 DEF Paths, Bundle, world
<1>3. NextMember.file \in InnerFiles
  BY <1>1, MemberFacts
<1>4. \A key \in DOMAIN cache' : cache'[key] \in InnerFiles
  BY <1>3 DEF FinishCopy, SelectInv, WorldInv
<1>5. ExpandInv'
  BY <1>0, <1>2 DEF SelectInv, ExpandInv, world
<1>6. WorldInv'
  BY <1>0, <1>4 DEF SelectInv, WorldInv, world
<1>7. PcInv' /\ IdleInv' /\ TryInv' /\ DoneInv'
  BY <1>0 DEF SelectInv, PcInv, IdleInv, TryInv, DoneInv
<1> QED
  BY <1>5, <1>6, <1>7 DEF SelectInv

LEMMA OpenMemberStep == ASSUME SelectInv, OpenMember PROVE SelectInv'
<1> DEFINE j == Len(opened) + 1
           held == cache[NextKey]
<1>0. /\ pc = "expand" /\ Bundling /\ Len(opened) < Len(Bundle.inner)
      /\ ~SizeRefused(recipe, NextMember) /\ CacheValid(NextKey, NextMember)
      /\ UNCHANGED <<world, cache, parts, input, found, groups, plans, at, runs>>
  BY DEF OpenMember, AtMember
<1>1. /\ Bundle \in ToSet(found.bundles) /\ found = Discovered(recipe, Paths)
      /\ opened \in Seq(ToSet(opened)) /\ Len(opened) \in Nat
      /\ DOMAIN Bundle.inner = 1..Len(Bundle.inner) /\ Len(Bundle.inner) \in Nat
      /\ j \in DOMAIN Bundle.inner /\ NextMember.file \in InnerFiles
  BY <1>0, MemberFacts
<1>2. \A k \in 1..Len(opened) : /\ opened[k] = Opened(Bundle.inner[k].file, "apk")
                                /\ GoodMember(recipe, Bundle.inner[k])
  BY <1>0 DEF SelectInv, ExpandInv, Bundling
<1>3. /\ Identified(held) <=> Identified(NextMember.file)
      /\ Opened(held, "apk") = Opened(NextMember.file, "apk")
  BY <1>0, <1>1, CacheIsMember DEF SelectInv
<1>4. Bundle' = Bundle /\ Paths' = Paths /\ recipe' = recipe
  BY <1>0 DEF Bundle, Paths, world
<1>5. CASE ~Identified(held) /\ End(Stopped("source"))
  <2>1. BundleBroken(recipe, Bundle)
    BY <1>1, <1>3, <1>5 DEF BundleBroken, NextMember
  <2>2. Stopped("source") \in Outcomes(recipe, Paths)
    BY <1>1, <2>1, SourceOutcome DEF Broken
  <2> QED
    BY <1>0, <1>5, <2>2, EndKeeps
<1>6. CASE /\ Identified(held) /\ opened' = Append(opened, Opened(held, "apk"))
           /\ UNCHANGED <<pc, outcome>>
  <2> DEFINE new == Opened(held, "apk")
             T == ToSet(opened) \cup {new}
  <2>1. opened \in Seq(T) /\ new \in T
    <3>1. ToSet(opened) \subseteq T
      OBVIOUS
    <3> QED
      BY <1>1, <3>1, SeqMonotonic
  <2>2. /\ opened' \in Seq(T) /\ Len(opened') = Len(opened) + 1 /\ ToSet(opened') = T
        /\ \A k \in 1..Len(opened) : opened'[k] = opened[k]
        /\ opened'[j] = new
    BY <1>6, <2>1, AppendFacts
  <2>3. new = Opened(Bundle.inner[j].file, "apk") /\ GoodMember(recipe, Bundle.inner[j])
    BY <1>0, <1>3, <1>6 DEF GoodMember, NextMember
  <2> HIDE DEF held, new
  <2>4. \A k \in 1..Len(opened') : /\ opened'[k] = Opened(Bundle.inner[k].file, "apk")
                                   /\ GoodMember(recipe, Bundle.inner[k])
    BY <1>1, <1>2, <2>2, <2>3
  <2>5. Len(opened') <= Len(Bundle.inner)
    BY <1>0, <1>1, <2>2
  <2>6. ExpandInv'
    BY <1>0, <1>4, <1>6, <2>2, <2>4, <2>5 DEF SelectInv, ExpandInv, Bundling
  <2>7. WorldInv' /\ PcInv' /\ IdleInv' /\ TryInv' /\ DoneInv'
    BY <1>0, <1>6 DEF SelectInv, WorldInv, PcInv, IdleInv, TryInv, DoneInv, world
  <2> QED
    BY <2>6, <2>7 DEF SelectInv
<1> QED
  BY <1>5, <1>6 DEF OpenMember

LEMMA CloseBundleStep == ASSUME SelectInv, CloseBundle PROVE SelectInv'
<1>0. /\ Bundling /\ pc = "expand" /\ ~BundleRefused(recipe, Bundle)
      /\ Len(opened) = Len(Bundle.inner) /\ opened' = <<>>
      /\ UNCHANGED <<world, cache, parts, input, found, plans, at, runs>>
  BY DEF CloseBundle, Bundling
<1>1. /\ Len(groups) + 1 \in DOMAIN found.bundles /\ Len(groups) \in Nat
      /\ Bundle \in ToSet(found.bundles)
      /\ DOMAIN Bundle.inner = 1..Len(Bundle.inner)
  BY <1>0, BundleFacts DEF SelectInv
<1>2. /\ found = Discovered(recipe, Paths)
      /\ opened \in Seq(ToSet(opened)) /\ groups \in Seq(ToSet(groups))
      /\ \A k \in 1..Len(opened) : /\ opened[k] = Opened(Bundle.inner[k].file, "apk")
                                   /\ GoodMember(recipe, Bundle.inner[k])
      /\ \A f \in found.generic : f.opens
      /\ \A j \in 1..Len(groups) :
           LET b == found.bundles[j] IN
           ~BundleBroken(recipe, b) /\ groups[j] = BundleGroup(found, b, Unpacked(b))
  BY <1>0 DEF SelectInv, ExpandInv, Bundling
<1>3. opened = Unpacked(Bundle)
  <2>1. DOMAIN opened = DOMAIN Bundle.inner /\ opened = [k \in DOMAIN opened |-> opened[k]]
    BY <1>0, <1>1, <1>2
  <2>2. DOMAIN Unpacked(Bundle) = DOMAIN Bundle.inner
        /\ \A k \in DOMAIN Bundle.inner : Unpacked(Bundle)[k] = opened[k]
    BY <1>0, <1>1, <1>2 DEF Unpacked
  <2> QED
    BY <2>1, <2>2 DEF Unpacked
<1>4. Paths' = Paths /\ recipe' = recipe
  BY <1>0 DEF Paths, world
<1>5. CASE Cardinality(BundlePackages(opened)) > 1 /\ End(Stopped("source"))
  <2>1. BundleBroken(recipe, Bundle)
    BY <1>3, <1>5 DEF BundleBroken
  <2>2. Stopped("source") \in Outcomes(recipe, Paths)
    BY <1>1, <1>2, <2>1, SourceOutcome DEF Broken
  <2> QED
    BY <1>0, <1>5, <2>2, EndKeeps
<1>6. CASE /\ ~(Cardinality(BundlePackages(opened)) > 1) /\ UNCHANGED <<pc, outcome>>
           /\ groups' = Append(groups, BundleGroup(found, Bundle, opened))
  <2> DEFINE new == BundleGroup(found, Bundle, opened)
             T == ToSet(groups) \cup {new}
  <2>1. ~BundleBroken(recipe, Bundle)
    BY <1>0, <1>1, <1>2, <1>3, <1>6 DEF BundleBroken, GoodMember
  <2>2. groups \in Seq(T) /\ new \in T
    <3>1. ToSet(groups) \subseteq T
      OBVIOUS
    <3> QED
      BY <1>2, <3>1, SeqMonotonic
  <2>3. /\ groups' \in Seq(T) /\ Len(groups') = Len(groups) + 1 /\ ToSet(groups') = T
        /\ \A k \in 1..Len(groups) : groups'[k] = groups[k]
        /\ groups'[Len(groups) + 1] = new
    BY <1>6, <2>2, AppendFacts
  <2> HIDE DEF T
  <2>4. \A k \in 1..Len(groups') :
          LET b == found.bundles[k] IN
          ~BundleBroken(recipe, b) /\ groups'[k] = BundleGroup(found, b, Unpacked(b))
    <3> SUFFICES ASSUME NEW k \in 1..Len(groups')
                 PROVE  LET b == found.bundles[k] IN
                        ~BundleBroken(recipe, b) /\ groups'[k] = BundleGroup(found, b, Unpacked(b))
      OBVIOUS
    <3>1. CASE k \in 1..Len(groups)
      BY <1>2, <2>3, <3>1
    <3>2. CASE k = Len(groups) + 1
      BY <1>3, <2>1, <2>3, <3>2 DEF Bundle
    <3> QED
      BY <1>1, <2>3, <3>1, <3>2
  <2>5. Len(groups') <= Len(found.bundles)
    <3>1. found.bundles \in Seq(AnyFile)
      BY <1>2, PathsAreFiles, FoundFacts DEF SelectInv
    <3> QED
      BY <1>1, <2>3, <3>1
  <2>6. /\ opened' \in Seq(ToSet(opened')) /\ Len(opened') = 0
    BY <1>0
  <2>7. Len(groups') < Len(found'.bundles) => Len(opened') <= Len(Bundle'.inner)
    <3> SUFFICES ASSUME Len(groups') < Len(found'.bundles) PROVE Len(opened') <= Len(Bundle'.inner)
      OBVIOUS
    <3>1. found.bundles \in Seq(AnyFile)
      BY <1>2, PathsAreFiles, FoundFacts DEF SelectInv
    <3>2. Len(groups') + 1 \in DOMAIN found.bundles
      BY <1>0, <1>1, <2>3, <2>5, <3>1
    <3>3. Bundle' \in AnyFile
      BY <1>0, <3>1, <3>2 DEF Bundle
    <3>4. Len(Bundle'.inner) \in Nat
      <4>1. Bundle'.inner \in Seq(ToSet(Bundle'.inner))
        BY <3>3, FilesAssumption
      <4> QED
        BY <4>1
    <3> QED
      BY <3>4, <2>6
  <2>8. pc' = "expand" /\ UNCHANGED <<found, plans, at>> /\ groups' \in Seq(ToSet(groups'))
    BY <1>0, <1>6, <2>3
  <2>9. ExpandInv'
    BY <1>0, <1>4, <2>4, <2>5, <2>6, <2>7, <2>8 DEF SelectInv, ExpandInv
  <2>10. WorldInv' /\ PcInv' /\ IdleInv' /\ TryInv' /\ DoneInv'
    BY <1>0, <2>8, <1>6 DEF SelectInv, WorldInv, PcInv, IdleInv, TryInv, DoneInv, world
  <2> QED
    BY <2>9, <2>10 DEF SelectInv
<1> QED
  BY <1>5, <1>6 DEF CloseBundle

LEMMA LeaveStep == ASSUME SelectInv, Leave PROVE SelectInv'
<1>1. <<>> \in Seq(AnyFile)
  OBVIOUS
<1>2. WorldInv'
  BY <1>1 DEF Leave, SelectInv, WorldInv, world
<1>3. PcInv' /\ IdleInv' /\ ExpandInv' /\ TryInv' /\ DoneInv'
  BY DEF Leave, PcInv, IdleInv, ExpandInv, TryInv, DoneInv
<1> QED
  BY <1>2, <1>3 DEF SelectInv

LEMMA ReplaceStep == ASSUME SelectInv, Replace PROVE SelectInv'
<1>1. pc = "off" /\ pc' = "off" /\ UNCHANGED <<recipe, cache, input, found, opened, groups, plans, at, outcome, runs>>
  BY DEF Replace
<1>2. PICK j \in DOMAIN folders[1], f \in Newer : folders' = [folders EXCEPT ![1][j] = f]
  BY DEF Replace
<1>3. DOMAIN folders = 1..2 /\ folders[1] \in Seq(AnyFile) /\ folders[2] \in Seq(AnyFile)
  BY DEF SelectInv, WorldInv
<1>4. f \in AnyFile
  BY DEF AnyFile
<1>5. folders'[1] = [folders[1] EXCEPT ![j] = f] /\ folders'[2] = folders[2] /\ DOMAIN folders' = 1..2
  BY <1>2, <1>3
<1>6. folders'[1] \in Seq(AnyFile)
  BY <1>3, <1>4, <1>5, ExceptSeq
<1>7. WorldInv'
  BY <1>1, <1>3, <1>5, <1>6 DEF SelectInv, WorldInv
<1>8. PcInv' /\ IdleInv' /\ ExpandInv' /\ TryInv' /\ DoneInv'
  BY <1>1 DEF SelectInv, PcInv, IdleInv, ExpandInv, TryInv, DoneInv
<1> QED
  BY <1>7, <1>8 DEF SelectInv

-----------------------------------------------------------------------------
(* The groups a selection tries *)

\* A function on the indices of a sequence is a sequence of that length.
LEMMA MapFacts ==
  ASSUME NEW T, NEW s \in Seq(T), NEW f, f = [j \in DOMAIN s |-> f[j]]
  PROVE  f \in Seq(ToSet(f)) /\ Len(f) = Len(s) /\ Len(f) \in Nat
<1>1. DOMAIN s = 1..Len(s) /\ Len(s) \in Nat
  OBVIOUS
<1>2. \A j \in 1..Len(s) : f[j] \in ToSet(f)
  BY <1>1 DEF ToSet
<1>3. f \in [1..Len(s) -> ToSet(f)]
  BY <1>1, <1>2
<1> QED
  BY <1>1, <1>3

\* What two sequences hold together, and when a sequence is empty.
LEMMA ConcatFacts ==
  ASSUME NEW T, NEW s \in Seq(T), NEW t \in Seq(T)
  PROVE  s \o t \in Seq(T) /\ ToSet(s \o t) = ToSet(s) \cup ToSet(t)
<1> DEFINE u == s \o t
<1>1. /\ u \in Seq(T) /\ Len(u) = Len(s) + Len(t) /\ Len(s) \in Nat /\ Len(t) \in Nat
      /\ \A i \in 1..Len(s) : u[i] = s[i]
      /\ \A i \in 1..Len(t) : u[Len(s) + i] = t[i]
      /\ \A i \in 1..Len(u) : i \in 1..Len(s) \/ i - Len(s) \in 1..Len(t)
      /\ DOMAIN u = 1..Len(u) /\ DOMAIN s = 1..Len(s) /\ DOMAIN t = 1..Len(t)
  OBVIOUS
<1> HIDE DEF u
<1>2. \A x : x \in ToSet(u) => x \in ToSet(s) \/ x \in ToSet(t)
  <2> SUFFICES ASSUME NEW x \in ToSet(u) PROVE x \in ToSet(s) \/ x \in ToSet(t)
    OBVIOUS
  <2>1. PICK i \in 1..Len(u) : x = u[i]
    BY <1>1 DEF ToSet
  <2>2. CASE i \in 1..Len(s)
    BY <1>1, <2>1, <2>2 DEF ToSet
  <2>3. CASE i - Len(s) \in 1..Len(t)
    <3>1. u[Len(s) + (i - Len(s))] = t[i - Len(s)]
      BY <1>1, <2>3
    <3>2. Len(s) + (i - Len(s)) = i
      BY <1>1
    <3> QED
      BY <1>1, <2>1, <2>3, <3>1, <3>2 DEF ToSet
  <2> QED
    BY <1>1, <2>2, <2>3
<1>3. \A x : x \in ToSet(s) => x \in ToSet(u)
  <2>1. 1..Len(s) \subseteq 1..Len(u)
    BY <1>1
  <2> QED
    BY <1>1, <2>1 DEF ToSet
<1>4. \A x : x \in ToSet(t) => x \in ToSet(u)
  <2>1. \A i \in 1..Len(t) : Len(s) + i \in 1..Len(u)
    BY <1>1
  <2> QED
    BY <1>1, <2>1 DEF ToSet
<1>5. ToSet(u) = ToSet(s) \cup ToSet(t)
  BY <1>2, <1>3, <1>4
<1> QED
  BY <1>1, <1>5 DEF u

LEMMA EmptyFacts ==
  ASSUME NEW T, NEW s \in Seq(T)
  PROVE  s = <<>> <=> ToSet(s) = {}
<1>1. s = <<>> <=> Len(s) = 0
  OBVIOUS
<1>2. Len(s) \in Nat /\ DOMAIN s = 1..Len(s)
  OBVIOUS
<1>3. Len(s) # 0 => s[1] \in ToSet(s)
  BY <1>2 DEF ToSet
<1>4. Len(s) = 0 => ToSet(s) = {}
  BY <1>2 DEF ToSet
<1> QED
  BY <1>1, <1>3, <1>4

\* The groups of a discovery as a set: one for each bundle, one for each
\* package, or the companion data alone (build_candidate_groups).
Built(d) ==
  {BundleGroup(d, b, Unpacked(b)) : b \in ToSet(d.bundles)}
  \cup {DirectGroup(d, p) : p \in {q \in ToSet(Packages) : ApksOf(d, q) # {}}}
WithData(d) ==
  IF Built(d) = {} /\ (d.generic # {} \/ d.loose # {})
  THEN {Group(Companions(d), d, "none", "companion")} ELSE Built(d)
MayTry(rec, g) == rec.packages = {} \/ g.package = "none" \/ g.package \in rec.packages

LEMMA DirectFacts ==
  ASSUME NEW d
  PROVE  /\ DirectGroups(d) \in Seq(Built(d))
         /\ ToSet(DirectGroups(d)) =
              {DirectGroup(d, p) : p \in {q \in ToSet(Packages) : ApksOf(d, q) # {}}}
<1> DEFINE P == {q \in ToSet(Packages) : ApksOf(d, q) # {}}
           own == Only(Packages, P)
           D == DirectGroups(d)
<1>1. Packages \in Seq(ToSet(Packages))
  BY FilesAssumption
<1>2. own \in Seq(ToSet(Packages)) /\ ToSet(own) = ToSet(Packages) \cap P
  BY <1>1, OnlyFacts
<1>3. D = [j \in DOMAIN own |-> DirectGroup(d, own[j])]
  BY DEF DirectGroups
<1> HIDE DEF own, D
<1>4. D = [j \in DOMAIN own |-> D[j]] /\ DOMAIN D = DOMAIN own
  BY <1>3
<1>5. D \in Seq(ToSet(D))
  BY <1>2, <1>4, MapFacts
<1>6. ToSet(D) = {DirectGroup(d, own[j]) : j \in DOMAIN own}
  BY <1>3, <1>4 DEF ToSet
<1>7. {own[j] : j \in DOMAIN own} = P
  BY <1>2 DEF ToSet
<1>8. ToSet(D) = {DirectGroup(d, p) : p \in P}
  BY <1>6, <1>7
<1>9. ToSet(D) \subseteq Built(d)
  BY <1>8 DEF Built
<1>10. D \in Seq(Built(d))
  BY <1>5, <1>9, SeqMonotonic
<1> QED
  BY <1>8, <1>10 DEF D

LEMMA GroupsFacts ==
  ASSUME NEW T, NEW d, d.bundles \in Seq(T), NEW rec
  PROVE  /\ Groups(rec, d) \in Seq(WithData(d)) /\ Len(Groups(rec, d)) \in Nat
         /\ ToSet(Groups(rec, d)) = {g \in WithData(d) : MayTry(rec, g)}
<1> DEFINE B == [j \in DOMAIN d.bundles |-> BundleGroup(d, d.bundles[j], Unpacked(d.bundles[j]))]
           all == B \o DirectGroups(d)
           gs == WithCompanion(d, all)
<1>1. B = [j \in DOMAIN d.bundles |-> B[j]] /\ DOMAIN B = DOMAIN d.bundles
  OBVIOUS
<1>2. B \in Seq(ToSet(B))
  <2> HIDE DEF B
  <2> QED
    BY <1>1, MapFacts
<1>3. ToSet(B) = {BundleGroup(d, b, Unpacked(b)) : b \in ToSet(d.bundles)}
  BY DEF ToSet
<1>4. Groups(rec, d) = Accepted(rec, gs)
  BY DEF Groups
<1> HIDE DEF B
<1>5. B \in Seq(Built(d))
  <2>1. ToSet(B) \subseteq Built(d)
    BY <1>3 DEF Built
  <2> QED
    BY <1>2, <2>1, SeqMonotonic
<1>6. all \in Seq(Built(d)) /\ ToSet(all) = Built(d)
  <2>1. DirectGroups(d) \in Seq(Built(d))
    BY DirectFacts
  <2>2. all \in Seq(Built(d)) /\ ToSet(all) = ToSet(B) \cup ToSet(DirectGroups(d))
    BY <1>5, <2>1, ConcatFacts
  <2> QED
    BY <1>3, <2>2, DirectFacts DEF Built
<1> HIDE DEF all
<1>7. all = <<>> <=> Built(d) = {}
  BY <1>6, EmptyFacts
<1>8. gs \in Seq(WithData(d)) /\ ToSet(gs) = WithData(d)
  <2>1. CASE Built(d) = {} /\ (d.generic # {} \/ d.loose # {})
    <3> DEFINE g == Group(Companions(d), d, "none", "companion")
    <3>1. gs = <<g>> /\ WithData(d) = {g}
      BY <1>7, <2>1 DEF WithCompanion, WithData
    <3> HIDE DEF g
    <3>2. <<g>> \in Seq({g}) /\ ToSet(<<g>>) = {g}
      BY DEF ToSet
    <3> QED
      BY <3>1, <3>2
  <2>2. CASE ~(Built(d) = {} /\ (d.generic # {} \/ d.loose # {}))
    BY <1>6, <1>7, <2>2 DEF WithCompanion, WithData
  <2> QED
    BY <2>1, <2>2
<1> HIDE DEF gs
<1>9. Accepted(rec, gs) = Only(gs, {g \in ToSet(gs) : MayTry(rec, g)})
  BY DEF Accepted, MayTry
<1>10. /\ Accepted(rec, gs) \in Seq(WithData(d))
       /\ ToSet(Accepted(rec, gs)) = ToSet(gs) \cap {g \in ToSet(gs) : MayTry(rec, g)}
  BY <1>8, <1>9, OnlyFacts
<1>11. Len(Accepted(rec, gs)) \in Nat
  BY <1>10
<1> QED
  BY <1>4, <1>8, <1>10, <1>11

-----------------------------------------------------------------------------
(* Grouping, trying and settling *)

LEMMA GroupDirectStep == ASSUME SelectInv, GroupDirect PROVE SelectInv'
<1> DEFINE kept == Accepted(recipe, WithCompanion(found, groups \o DirectGroups(found)))
<1>0. /\ pc = "expand" /\ Len(groups) = Len(found.bundles)
      /\ UNCHANGED <<world, cache, parts, input, found, opened, plans, at, runs>>
  BY DEF GroupDirect
<1>1. /\ found = Discovered(recipe, Paths) /\ ~(Len(Paths) > recipe.max_files)
      /\ groups \in Seq(ToSet(groups))
      /\ \A j \in 1..Len(groups) :
           LET b == found.bundles[j] IN
           ~BundleBroken(recipe, b) /\ groups[j] = BundleGroup(found, b, Unpacked(b))
      /\ plans = {} /\ at = <<1, 1>> /\ \A f \in found.generic : f.opens
  BY <1>0 DEF SelectInv, ExpandInv, IdleInv
<1>2. found.bundles \in Seq(AnyFile) /\ Len(found.bundles) \in Nat
      /\ DOMAIN found.bundles = 1..Len(found.bundles)
  BY <1>1, PathsAreFiles, FoundFacts DEF SelectInv
<1>3. groups = [j \in DOMAIN found.bundles |->
                  BundleGroup(found, found.bundles[j], Unpacked(found.bundles[j]))]
  <2>1. groups = [j \in 1..Len(groups) |-> groups[j]]
    BY <1>1
  <2> QED
    BY <1>0, <1>1, <1>2, <2>1
<1>4. kept = Groups(recipe, found)
  BY <1>3 DEF Groups
<1>5. Paths' = Paths /\ recipe' = recipe
  BY <1>0 DEF Paths, world
<1>6. CASE (kept = <<>> \/ \E f \in found.apks : ~f.opens) /\ End(Stopped("source"))
  <2>1. Stopped("source") \in Outcomes(recipe, Paths)
    BY <1>1, <1>4, <1>6, SourceOutcome DEF Broken
  <2> QED
    BY <1>0, <1>6, <2>1, EndKeeps
<1>7. CASE /\ kept # <<>> /\ ~(\E f \in found.apks : ~f.opens)
           /\ groups' = kept /\ pc' = "try" /\ UNCHANGED outcome
  <2>1. ~Broken(recipe, found)
    <3>1. \A b \in ToSet(found.bundles) : ~BundleBroken(recipe, b)
      BY <1>0, <1>1, <1>2 DEF ToSet
    <3> QED
      BY <1>1, <1>7, <3>1 DEF Broken
  <2>2. Len(groups') \in Nat /\ Len(groups') # 0
    <3>1. Groups(recipe, found) \in Seq(WithData(found)) /\ Len(Groups(recipe, found)) \in Nat
      BY <1>2, GroupsFacts
    <3>2. Groups(recipe, found) # <<>>
      BY <1>4, <1>7
    <3>3. Len(Groups(recipe, found)) # 0
      BY <3>1, <3>2
    <3> HIDE DEF kept
    <3> QED
      BY <1>4, <1>7, <3>1, <3>3
  <2>3. NumAbis \in Nat /\ NumAbis # 0 /\ NumAbis' = NumAbis
    <3>1. recipe.abis \in Seq(ToSet(recipe.abis)) /\ recipe.abis # <<>>
      BY RecipeAssumption DEF SelectInv, WorldInv
    <3>2. Len(recipe.abis) \in Nat /\ Len(recipe.abis) # 0
      BY <3>1
    <3> QED
      BY <1>5, <3>2 DEF NumAbis
  <2>4. at' = <<1, 1>> /\ plans' = {} /\ at'[1] = 1 /\ at'[2] = 1
    BY <1>0, <1>1
  <2>5. at' \in (1..(Len(groups') + 1)) \X (1..NumAbis')
    BY <2>2, <2>3, <2>4
  <2>6. Tried' = {}
    <3>1. \A m \in (1..Len(groups')) \X (1..NumAbis') : ~(m[1] < 1 \/ (m[1] = 1 /\ m[2] < 1))
      BY <2>2, <2>3
    <3> QED
      BY <2>4, <3>1 DEF Tried
  <2>7. plans' = {Attempt(recipe', groups'[m[1]], m[2]) : m \in Tried'} /\ \A p \in plans' : ~Fatal(p)
    BY <2>4, <2>6
  <2> HIDE DEF kept
  <2>8. TryInv'
    BY <1>0, <1>1, <1>4, <1>5, <1>7, <2>1, <2>2, <2>4, <2>5, <2>7 DEF TryInv
  <2>9. WorldInv' /\ PcInv' /\ IdleInv' /\ ExpandInv' /\ DoneInv'
    BY <1>0, <1>7 DEF SelectInv, WorldInv, PcInv, IdleInv, ExpandInv, DoneInv, world
  <2> QED
    BY <2>8, <2>9 DEF SelectInv
<1> QED
  BY <1>6, <1>7 DEF GroupDirect

\* The groups and the machines of a selection, as index sets.
LEMMA TryFacts ==
  ASSUME SelectInv, pc = "try"
  PROVE  /\ Len(groups) \in Nat /\ DOMAIN groups = 1..Len(groups)
         /\ NumAbis \in Nat /\ NumAbis # 0 /\ DOMAIN recipe.abis = 1..NumAbis
<1>1. Discovered(recipe, Paths).bundles \in Seq(AnyFile)
  BY PathsAreFiles, FoundFacts DEF SelectInv
<1>2. groups \in Seq(WithData(found))
  BY <1>1, GroupsFacts DEF SelectInv, TryInv
<1>3. recipe.abis \in Seq(ToSet(recipe.abis)) /\ recipe.abis # <<>>
  BY RecipeAssumption DEF SelectInv, WorldInv
<1>4. Len(recipe.abis) \in Nat /\ Len(recipe.abis) # 0 /\ DOMAIN recipe.abis = 1..Len(recipe.abis)
  BY <1>3
<1>5. Len(groups) \in Nat /\ DOMAIN groups = 1..Len(groups)
  BY <1>2
<1> QED
  BY <1>4, <1>5 DEF NumAbis

LEMMA TryStep == ASSUME SelectInv, Try PROVE SelectInv'
<1> DEFINE tried == Attempt(recipe, groups[at[1]], at[2])
           a == at[1]
           k == at[2]
<1>0. pc = "try" /\ at[1] <= Len(groups) /\ UNCHANGED <<world, cache, parts, input, found, opened, groups, runs>>
  BY DEF Try
<1>1. /\ Len(groups) \in Nat /\ DOMAIN groups = 1..Len(groups)
      /\ NumAbis \in Nat /\ NumAbis # 0 /\ DOMAIN recipe.abis = 1..NumAbis
  BY <1>0, TryFacts
<1>2. /\ found = Discovered(recipe, Paths) /\ groups = Groups(recipe, found)
      /\ ~(Len(Paths) > recipe.max_files) /\ ~Broken(recipe, found) /\ groups # <<>>
      /\ at \in (1..(Len(groups) + 1)) \X (1..NumAbis)
      /\ plans = {Attempt(recipe, groups[m[1]], m[2]) : m \in Tried}
      /\ \A p \in plans : ~Fatal(p)
  BY <1>0 DEF SelectInv, TryInv
<1>3. a \in 1..Len(groups) /\ k \in 1..NumAbis
  BY <1>0, <1>1, <1>2
<1>4. Paths' = Paths /\ recipe' = recipe /\ NumAbis' = NumAbis
  BY <1>0 DEF Paths, world, NumAbis
<1>5. CASE Fatal(tried) /\ End(Stopped(tried.kind))
  <2>1. tried \in Attempts(recipe, Groups(recipe, Discovered(recipe, Paths)))
    BY <1>1, <1>2, <1>3 DEF Attempts
  <2>2. Fails(recipe, Paths)
    BY <1>5, <2>1 DEF Fails
  <2>3. tried.kind \in {"source", "recipe"}
    BY <1>5 DEF Fatal
  <2> HIDE DEF tried
  <2>4. Stopped(tried.kind) \in Outcomes(recipe, Paths)
    BY <2>2, <2>3 DEF Outcomes
  <2> QED
    BY <1>0, <1>5, <2>4, EndKeeps
<1>6. CASE /\ ~Fatal(tried) /\ plans' = plans \cup {tried} /\ UNCHANGED <<pc, outcome>>
           /\ at' = IF at[2] < NumAbis THEN <<at[1], at[2] + 1>> ELSE <<at[1] + 1, 1>>
  <2>1. at' \in (1..(Len(groups) + 1)) \X (1..NumAbis) /\ (at'[1] > Len(groups) => at'[2] = 1)
    <3>1. CASE k < NumAbis
      BY <1>1, <1>3, <1>6, <3>1
    <3>2. CASE ~(k < NumAbis)
      BY <1>1, <1>3, <1>6, <3>2
    <3> QED
      BY <3>1, <3>2
  <2>2. Tried' = Tried \cup {<<a, k>>}
    <3> DEFINE All == (1..Len(groups)) \X (1..NumAbis)
    <3>1. Tried = {m \in All : m[1] < a \/ (m[1] = a /\ m[2] < k)}
      BY DEF Tried
    <3>2. Tried' = {m \in All : m[1] < at'[1] \/ (m[1] = at'[1] /\ m[2] < at'[2])}
      BY <1>0, <1>4 DEF Tried
    <3>3. ASSUME NEW x \in 1..Len(groups), NEW y \in 1..NumAbis
          PROVE  (x < at'[1] \/ (x = at'[1] /\ y < at'[2])) <=> (x < a \/ (x = a /\ y < k) \/ (x = a /\ y = k))
      <4>1. CASE k < NumAbis
        <5>1. at'[1] = a /\ at'[2] = k + 1
          BY <1>6, <4>1
        <5> HIDE DEF a, k
        <5> QED
          BY <1>3, <5>1
      <4>2. CASE ~(k < NumAbis)
        <5>1. at'[1] = a + 1 /\ at'[2] = 1
          BY <1>6, <4>2
        <5> HIDE DEF a, k
        <5> QED
          BY <1>1, <1>3, <4>2, <5>1
      <4> QED
        BY <4>1, <4>2
    <3>4. \A m \in All : /\ m[1] \in 1..Len(groups) /\ m[2] \in 1..NumAbis
                         /\ (m = <<a, k>> <=> m[1] = a /\ m[2] = k)
      OBVIOUS
    <3>5. <<a, k>> \in All
      BY <1>3
    <3> HIDE DEF a, k, All
    <3>6. \A m \in All : (m[1] < at'[1] \/ (m[1] = at'[1] /\ m[2] < at'[2]))
                          <=> (m[1] < a \/ (m[1] = a /\ m[2] < k) \/ m = <<a, k>>)
      BY <3>3, <3>4
    <3> QED
      BY <3>1, <3>2, <3>5, <3>6
  <2>3. plans' = {Attempt(recipe', groups'[m[1]], m[2]) : m \in Tried'}
    <3>1. <<a, k>>[1] = a /\ <<a, k>>[2] = k
      OBVIOUS
    <3>2. {Attempt(recipe, groups[m[1]], m[2]) : m \in Tried \cup {<<a, k>>}}
            = {Attempt(recipe, groups[m[1]], m[2]) : m \in Tried} \cup {tried}
      BY <3>1
    <3> HIDE DEF a, k, tried
    <3> QED
      BY <1>0, <1>2, <1>4, <1>6, <2>2, <3>2
  <2>4. \A p \in plans' : ~Fatal(p)
    BY <1>2, <1>6
  <2> HIDE DEF a, k, tried
  <2>5. TryInv'
    BY <1>0, <1>2, <1>4, <1>6, <2>1, <2>3, <2>4 DEF TryInv
  <2>6. WorldInv' /\ PcInv' /\ IdleInv' /\ ExpandInv' /\ DoneInv'
    BY <1>0, <1>6 DEF SelectInv, WorldInv, PcInv, IdleInv, ExpandInv, DoneInv, world
  <2> QED
    BY <2>5, <2>6 DEF SelectInv
<1> QED
  BY <1>5, <1>6 DEF Try

LEMMA SettleStep == ASSUME SelectInv, Settle PROVE SelectInv'
<1>0. pc = "try" /\ at[1] > Len(groups) /\ UNCHANGED <<world, cache, parts, input, found, opened, groups, plans, at, runs>>
  BY DEF Settle
<1>1. /\ Len(groups) \in Nat /\ DOMAIN groups = 1..Len(groups)
      /\ NumAbis \in Nat /\ DOMAIN recipe.abis = 1..NumAbis
  BY <1>0, TryFacts
<1>2. /\ found = Discovered(recipe, Paths) /\ groups = Groups(recipe, found)
      /\ ~(Len(Paths) > recipe.max_files) /\ ~Broken(recipe, found) /\ groups # <<>>
      /\ at \in (1..(Len(groups) + 1)) \X (1..NumAbis)
      /\ plans = {Attempt(recipe, groups[m[1]], m[2]) : m \in Tried}
      /\ \A p \in plans : ~Fatal(p)
  BY <1>0 DEF SelectInv, TryInv
<1>3. Tried = (1..Len(groups)) \X (1..NumAbis)
  BY <1>0, <1>1, <1>2 DEF Tried
<1>4. plans = Attempts(recipe, groups)
  <2> DEFINE All == (1..Len(groups)) \X (1..NumAbis)
  <2>1. ASSUME NEW p \in plans PROVE p \in Attempts(recipe, groups)
    <3>1. PICK m \in All : p = Attempt(recipe, groups[m[1]], m[2])
      BY <1>2, <1>3
    <3>2. m[1] \in DOMAIN groups /\ m[2] \in DOMAIN recipe.abis
      BY <1>1
    <3> QED
      BY <3>1, <3>2 DEF Attempts
  <2>2. ASSUME NEW p \in Attempts(recipe, groups) PROVE p \in plans
    <3>1. PICK x \in 1..Len(groups), y \in 1..NumAbis : p = Attempt(recipe, groups[x], y)
      BY <1>1 DEF Attempts
    <3>2. <<x, y>> \in All /\ <<x, y>>[1] = x /\ <<x, y>>[2] = y
      OBVIOUS
    <3> QED
      BY <1>2, <1>3, <3>1, <3>2
  <2> QED
    BY <2>1, <2>2
<1>5. ~Fails(recipe, Paths)
  BY <1>2, <1>4 DEF Fails
<1>6. PICK result \in Resolved(plans) : End(result)
  BY DEF Settle
<1>7. result \in Outcomes(recipe, Paths)
  BY <1>2, <1>4, <1>5, <1>6 DEF Outcomes
<1> QED
  BY <1>0, <1>6, <1>7, EndKeeps

\* Every step of the selection keeps the invariant.
LEMMA SelectStep ==
  ASSUME SelectInv, [Next]_vars
  PROVE  SelectInv'
<1>1. CASE UNCHANGED vars
  BY <1>1 DEF vars, SelectInv, PcInv, WorldInv, IdleInv, ExpandInv, TryInv, DoneInv, Bundling,
              Bundle, NextKey, CacheKey, Paths, Tried, NumAbis
<1> QED
  BY <1>1, StartStep, ScanStep, OpenCompanionsStep, RefuseBundleStep, RefuseMemberStep,
     StartCopyStep, FinishCopyStep, OpenMemberStep, CloseBundleStep, GroupDirectStep,
     TryStep, SettleStep, LeaveStep, ReplaceStep DEF Next

LEMMA SelectInit == Init => SelectInv
<1> SUFFICES ASSUME Init PROVE SelectInv
  OBVIOUS
<1>1. PICK dirs \in Folders : folders = dirs
  BY DEF Init
<1>2. DOMAIN folders = 1..2 /\ \A d \in 1..2 : folders[d] \in Seq(ToSet(folders[d]))
  BY <1>1, FilesAssumption
<1>3. ToSet(folders[1]) \subseteq AnyFile /\ ToSet(folders[2]) \subseteq AnyFile
  BY <1>1 DEF AnyFile
<1>4. folders[1] \in Seq(AnyFile) /\ folders[2] \in Seq(AnyFile)
  BY <1>2, <1>3, SeqMonotonic
<1>5. <<>> \in Seq(AnyFile) /\ DOMAIN <<>> = {}
  OBVIOUS
<1>6. WorldInv
  BY <1>2, <1>4, <1>5, FilesAssumption DEF Init, WorldInv
<1> QED
  BY <1>6 DEF Init, SelectInv, PcInv, IdleInv, ExpandInv, TryInv, DoneInv

LEMMA Selection == Spec => []SelectInv
BY SelectInit, SelectStep, PTL DEF Spec

-----------------------------------------------------------------------------
(* What the rules of a recipe select *)

\* The least element is one of the set (FiniteSetsExt).
LEMMA MinFacts ==
  ASSUME NEW S, S \subseteq Nat, S # {}
  PROVE  Min(S) \in S
<1>1. \E x \in S : \A y \in S : x <= y
  BY LeastNat
<1> QED
  BY <1>1 DEF Min

\* One file: none for an optional rule, else one that is valid, a member of
\* the group's archives or a file taken whole (_choose_one).
LEMMA ChooseOneFacts ==
  ASSUME NEW rule, NEW g, NEW abi, ChooseOne(rule, g, abi).kind = "ok"
  PROVE  \/ ~rule.required /\ ChooseOne(rule, g, abi).items = {}
         \/ \E b \in Candidates(g, rule, abi) \cup Whole(g, rule, abi), w \in BOOLEAN :
              /\ Valid(b, rule, abi) /\ (w => b \in Whole(g, rule, abi))
              /\ ChooseOne(rule, g, abi).items = {Item(rule, rule.dest, b, w)}
<1> DEFINE members == IF rule.kind \in {"entry", "entry_or_file"} THEN Candidates(g, rule, abi)
                      ELSE {}
           wholes == Whole(g, rule, abi)
           identities == {<<b.size, b.crc>> : b \in members \cup wholes}
           from == IF members # {} THEN members ELSE wholes
           b == CHOOSE b \in from : TRUE
           w == members = {}
           made == ChooseOne(rule, g, abi)
<1>1. \/ ~rule.required /\ made = Selected({})
      \/ identities # {} /\ made = Selected({Item(rule, rule.dest, b, w)})
  <2>1. "source" # "ok" /\ "plan" # "ok"
    OBVIOUS
  <2> QED
    BY <2>1 DEF ChooseOne, Stopped, Selected
<1>2. CASE ~rule.required /\ made = Selected({})
  BY <1>2 DEF Selected
<1>3. CASE identities # {} /\ made = Selected({Item(rule, rule.dest, b, w)})
  <2>1. from # {}
    BY <1>3
  <2>2. b \in from
    BY <2>1
  <2>3. from \subseteq Candidates(g, rule, abi) \cup Whole(g, rule, abi) /\ w \in BOOLEAN
    OBVIOUS
  <2>4. \A c \in Candidates(g, rule, abi) : Valid(c, rule, abi)
    BY DEF Candidates
  <2>5. \A c \in Whole(g, rule, abi) : Valid(c, rule, abi)
    BY DEF Whole
  <2>8. w => b \in Whole(g, rule, abi)
    BY <2>2
  <2> HIDE DEF b, from, w
  <2>6. Valid(b, rule, abi)
    BY <2>2, <2>3, <2>4, <2>5
  <2>7. made.items = {Item(rule, rule.dest, b, w)}
    BY <1>3 DEF Selected
  <2> QED
    BY <2>2, <2>3, <2>6, <2>7, <2>8
<1> QED
  BY <1>1, <1>2, <1>3

\* A tree: nothing for an optional rule that matches nothing, else one item for
\* each destination, in a number the rule accepts (_choose_many).
LEMMA ChooseManyFacts ==
  ASSUME NEW rule, NEW g, NEW abi, ChooseMany(rule, g, abi).kind = "ok"
  PROVE  /\ \/ ~rule.required /\ ChooseMany(rule, g, abi).items = {}
            \/ Cardinality(ChooseMany(rule, g, abi).items) \in rule.counts
         /\ ChooseMany(rule, g, abi).items \subseteq TreeItems(rule, g, abi)
         /\ \A i, j \in ChooseMany(rule, g, abi).items : Key[i.dest] = Key[j.dest] => i = j
<1> DEFINE items == TreeItems(rule, g, abi)
           made == ChooseMany(rule, g, abi)
           kept == OnePerDest(items)
<1>1. \/ ~rule.required /\ made = Selected({})
      \/ /\ Cardinality(kept) \in rule.counts /\ made = Selected(kept)
         /\ \A i, j \in items : Key[i.dest] = Key[j.dest] => i.dest = j.dest
  <2>1. "source" # "ok" /\ "plan" # "ok"
    OBVIOUS
  <2> QED
    BY <2>1 DEF ChooseMany, Stopped, Selected
<1>2. \A k \in kept : k \in items /\ k = CHOOSE i \in items : i.dest = k.dest
  <2> SUFFICES ASSUME NEW k \in kept PROVE k \in items /\ k = CHOOSE i \in items : i.dest = k.dest
    OBVIOUS
  <2> HIDE DEF items
  <2>1. PICK d \in {i.dest : i \in items} : k = CHOOSE i \in items : i.dest = d
    BY DEF OnePerDest
  <2>2. \E i \in items : i.dest = d
    BY <2>1
  <2>3. k \in items /\ k.dest = d
    BY <2>1, <2>2
  <2> QED
    BY <2>1, <2>3
<1>3. \A i, j \in kept : i.dest = j.dest => i = j
  BY <1>2
<1>4. kept \subseteq items
  BY <1>2
<1> HIDE DEF kept, items, made
<1>5. CASE ~rule.required /\ made = Selected({})
  BY <1>5 DEF Selected, made
<1>6. CASE /\ Cardinality(kept) \in rule.counts /\ made = Selected(kept)
           /\ \A i, j \in items : Key[i.dest] = Key[j.dest] => i.dest = j.dest
  <2>1. made.items = kept
    BY <1>6 DEF Selected
  <2> QED
    BY <1>3, <1>4, <1>6, <2>1 DEF made, items
<1> QED
  BY <1>1, <1>5, <1>6

\* What one rule adds to a plan: items of its own, one for each destination.
LEMMA NewFacts ==
  ASSUME NEW rule, NEW g, NEW abi, Chosen(rule, g, abi).kind = "ok"
  PROVE  LET items == Chosen(rule, g, abi).items IN
         /\ \A i \in items : i.rule = rule.id
         /\ \A i, j \in items : Key[i.dest] = Key[j.dest] => i = j
         /\ rule.required /\ (rule.kind = "entries" => 0 \notin rule.counts) => items # {}
         /\ rule.kind # "entries" => Cardinality(items) <= 1
         /\ rule.kind # "entries" => \A i \in items : Valid(i.blob, rule, abi)
         /\ rule.kind = "entries" /\ items # {} =>
              Cardinality(items) \in rule.counts
<1> DEFINE items == Chosen(rule, g, abi).items
<1>0. Cardinality({}) = 0
  BY FS_EmptySet
<1>1. CASE rule.kind = "entries"
  <2>1. Chosen(rule, g, abi) = ChooseMany(rule, g, abi)
    BY <1>1 DEF Chosen
  <2>2. /\ (~rule.required /\ items = {}) \/ Cardinality(items) \in rule.counts
        /\ items \subseteq TreeItems(rule, g, abi)
        /\ \A i, j \in items : Key[i.dest] = Key[j.dest] => i = j
    BY <2>1, ChooseManyFacts
  <2>3. \A i \in TreeItems(rule, g, abi) : i.rule = rule.id
    BY DEF TreeItems, Item
  <2> HIDE DEF items
  <2>4. \A i \in items : i.rule = rule.id
    BY <2>2, <2>3
  <2> QED
    BY <1>0, <1>1, <2>2, <2>4 DEF items
<1>2. CASE rule.kind # "entries"
  <2>1. Chosen(rule, g, abi) = ChooseOne(rule, g, abi)
    BY <1>2 DEF Chosen
  <2>2. \/ ~rule.required /\ items = {}
        \/ \E b \in Candidates(g, rule, abi) \cup Whole(g, rule, abi), w \in BOOLEAN :
             Valid(b, rule, abi) /\ items = {Item(rule, rule.dest, b, w)}
    BY <2>1, ChooseOneFacts
  <2> HIDE DEF items
  <2>3. CASE ~rule.required /\ items = {}
    BY <1>0, <1>2, <2>3 DEF items
  <2>4. CASE \E b \in Candidates(g, rule, abi) \cup Whole(g, rule, abi), w \in BOOLEAN :
               Valid(b, rule, abi) /\ items = {Item(rule, rule.dest, b, w)}
    <3>1. PICK b, w : Valid(b, rule, abi) /\ items = {Item(rule, rule.dest, b, w)}
      BY <2>4
    <3>2. Item(rule, rule.dest, b, w).rule = rule.id /\ Item(rule, rule.dest, b, w).blob = b
      BY DEF Item
    <3>3. Cardinality(items) = 1
      BY <3>1, FS_Singleton
    <3> QED
      BY <1>2, <3>1, <3>2, <3>3 DEF items
  <2> QED
    BY <2>2, <2>3, <2>4
<1> QED
  BY <1>1, <1>2

\* A plan is what its rules add, none of which fails (build_plan_for).
LEMMA PlanFacts ==
  ASSUME NEW rec \in Recipes, NEW g, NEW abi, PlanFor(rec, g, abi).kind = "ok"
  PROVE  /\ PlanFor(rec, g, abi).items = UNION {New(rec, g, abi, j).items : j \in DOMAIN rec.rules}
         /\ \A j \in DOMAIN rec.rules :
              /\ New(rec, g, abi, j).kind = "ok"
              /\ \A i \in New(rec, g, abi, j).items : i.dest \in rec.commit[abi]
              /\ \A l \in 1..(j - 1) : \A i \in New(rec, g, abi, j).items, k \in New(rec, g, abi, l).items :
                   Key[i.dest] # Key[k.dest]
<1> DEFINE failed == {j \in DOMAIN rec.rules : Ends(rec, g, abi, j) # "ok"}
<1>1. failed \subseteq Nat
  <2>1. rec.rules \in Seq(ToSet(rec.rules))
    BY RecipeAssumption
  <2> QED
    BY <2>1
<1>2. failed = {}
  <2> SUFFICES ASSUME failed # {} PROVE FALSE
    OBVIOUS
  <2>1. Min(failed) \in failed
    BY <1>1, MinFacts
  <2>2. PlanFor(rec, g, abi).kind = Ends(rec, g, abi, Min(failed))
    BY DEF PlanFor, Stopped
  <2> QED
    BY <2>1, <2>2
<1>3. PlanFor(rec, g, abi).items = UNION {New(rec, g, abi, j).items : j \in DOMAIN rec.rules}
  BY <1>2 DEF PlanFor, Selected
<1>4. ASSUME NEW j \in DOMAIN rec.rules
      PROVE  /\ New(rec, g, abi, j).kind = "ok"
             /\ \A i \in New(rec, g, abi, j).items : i.dest \in rec.commit[abi]
             /\ \A l \in 1..(j - 1) : \A i \in New(rec, g, abi, j).items, k \in New(rec, g, abi, l).items :
                  Key[i.dest] # Key[k.dest]
  <2>1. Ends(rec, g, abi, j) = "ok"
    BY <1>2
  <2>2. "recipe" # "ok" /\ "plan" # "ok"
    OBVIOUS
  <2> QED
    BY <2>1, <2>2 DEF Ends
<1> QED
  BY <1>3, <1>4

\* A selection that succeeds takes the items of one attempt (resolve_plan).
LEMMA OutcomeFacts ==
  ASSUME NEW rec, NEW fs, NEW result \in Outcomes(rec, fs)
  PROVE  /\ result.kind \in Kinds
         /\ result.kind = "ok" =>
              LET gs == Groups(rec, Discovered(rec, fs)) IN
              \E a \in DOMAIN gs, k \in DOMAIN rec.abis :
                /\ PlanFor(rec, gs[a], rec.abis[k]).kind = "ok"
                /\ result.items = PlanFor(rec, gs[a], rec.abis[k]).items
<1> DEFINE gs == Groups(rec, Discovered(rec, fs))
           tried == Attempts(rec, gs)
<1>1. CASE result \in {Stopped("source"), Stopped("recipe"), Stopped("plan")}
  BY <1>1 DEF Stopped, Kinds
<1>2. CASE \E p \in Best(tried) : result = Selected(p.items)
  <2>1. PICK p \in tried : p.kind = "ok" /\ result = Selected(p.items)
    BY <1>2 DEF Best, Successes
  <2>2. result.kind = "ok" /\ result.items = p.items
    BY <2>1 DEF Selected
  <2>3. PICK a \in DOMAIN gs, k \in DOMAIN rec.abis : p = Attempt(rec, gs[a], k)
    BY <2>1 DEF Attempts
  <2> HIDE DEF gs, tried
  <2> DEFINE made == PlanFor(rec, gs[a], rec.abis[k])
  <2>4. made.kind = "ok" /\ p.items = made.items
    <3>1. p.kind = (IF made.kind = "ok" /\ made.items = {} THEN "plan" ELSE made.kind)
          /\ p.items = made.items
      BY <2>3 DEF Attempt, Attempted
    <3> HIDE DEF made
    <3> QED
      BY <2>1, <3>1
  <2>5. result.kind \in Kinds
    BY <2>2 DEF Kinds
  <2> QED
    BY <2>2, <2>4, <2>5 DEF gs
<1>3. result \in {Stopped("source"), Stopped("recipe"), Stopped("plan")}
      \/ \E p \in Best(tried) : result = Selected(p.items)
  <2> HIDE DEF tried
  <2>1. result \in {Stopped("source"), Stopped("recipe")} \/ result \in Resolved(tried)
    BY DEF Outcomes, tried
  <2>2. ASSUME result \in Resolved(tried)
        PROVE  result = Stopped("plan") \/ \E p \in Best(tried) : result = Selected(p.items)
    BY <2>2 DEF Resolved
  <2> QED
    BY <2>1, <2>2
<1> QED
  BY <1>1, <1>2, <1>3

-----------------------------------------------------------------------------
(* Theorems *)

LEMMA TypeFromInv == SelectInv => TypeOK
<1> SUFFICES ASSUME SelectInv PROVE TypeOK
  OBVIOUS
<1>1. pc \in {"off", "scan", "open", "expand", "copy", "try", "done"} /\ runs \in 0..MaxRuns /\ recipe \in Recipes
      /\ \A key \in DOMAIN cache : cache[key] \in InnerFiles
  BY DEF SelectInv, PcInv, WorldInv
<1>2. pc = "done" => outcome.kind \in Kinds
  BY OutcomeFacts DEF SelectInv, DoneInv
<1>3. pc # "done" => outcome.kind = "none"
  BY DEF SelectInv, PcInv, NoResult
<1>4. pc = "try" => at[1] \in 1..(Len(groups) + 1) /\ at[2] \in 1..NumAbis
  BY DEF SelectInv, TryInv
<1>5. (pc = "expand" => Len(groups) <= Len(found.bundles)) /\ (pc = "copy" => NextKey \in parts)
  BY DEF SelectInv, ExpandInv
<1> QED
  BY <1>1, <1>2, <1>3, <1>4, <1>5 DEF TypeOK

\* Every variable is what the code's objects can be, whatever the recipe, the
\* files and the kills: in particular the loops over bundles, groups and ABIs
\* stay within their lists.
THEOREM TypeCorrect == Spec => []TypeOK
BY Selection, TypeFromInv, PTL

\* A selection that succeeds satisfies its recipe.
LEMMA FitsFromInv == SelectInv => Fits
<1> SUFFICES ASSUME SelectInv, Done, outcome.kind = "ok"
    PROVE  \E k \in DOMAIN recipe.abis :
             LET abi == recipe.abis[k] IN
             /\ \A rule \in ToSet(recipe.rules) :
                  LET own == {i \in outcome.items : i.rule = rule.id} IN
                  /\ rule.required /\ (rule.kind = "entries" => 0 \notin rule.counts) => own # {}
                  /\ rule.kind # "entries" => Cardinality(own) <= 1
                  /\ rule.kind # "entries" => \A i \in own : Valid(i.blob, rule, abi)
                  /\ rule.kind = "entries" /\ own # {} => Cardinality(own) \in rule.counts
             /\ \A i, j \in outcome.items : Key[i.dest] = Key[j.dest] => i = j
             /\ \A i \in outcome.items : i.dest \in recipe.commit[abi]
  BY DEF Fits
<1> DEFINE gs == Groups(recipe, Discovered(recipe, Paths))
           rules == recipe.rules
<1>1. recipe \in Recipes /\ outcome \in Outcomes(recipe, Paths)
  BY DEF SelectInv, WorldInv, DoneInv, Done
<1>2. PICK a \in DOMAIN gs, k \in DOMAIN recipe.abis :
        /\ PlanFor(recipe, gs[a], recipe.abis[k]).kind = "ok"
        /\ outcome.items = PlanFor(recipe, gs[a], recipe.abis[k]).items
  BY <1>1, OutcomeFacts
<1> DEFINE abi == recipe.abis[k]
           items(j) == New(recipe, gs[a], abi, j).items
<1>3. /\ outcome.items = UNION {items(j) : j \in DOMAIN rules}
      /\ \A j \in DOMAIN rules :
           /\ New(recipe, gs[a], abi, j).kind = "ok"
           /\ \A i \in items(j) : i.dest \in recipe.commit[abi]
           /\ \A l \in 1..(j - 1) : \A i \in items(j), m \in items(l) : Key[i.dest] # Key[m.dest]
  BY <1>1, <1>2, PlanFacts
<1>4. \A j \in DOMAIN rules :
        /\ \A i \in items(j) : i.rule = rules[j].id
        /\ \A i, m \in items(j) : Key[i.dest] = Key[m.dest] => i = m
        /\ rules[j].required /\ (rules[j].kind = "entries" => 0 \notin rules[j].counts) => items(j) # {}
        /\ rules[j].kind # "entries" => Cardinality(items(j)) <= 1
        /\ rules[j].kind # "entries" => \A i \in items(j) : Valid(i.blob, rules[j], abi)
        /\ rules[j].kind = "entries" /\ items(j) # {} => Cardinality(items(j)) \in rules[j].counts
  BY <1>3, NewFacts DEF New
<1>5. /\ rules \in Seq(ToSet(rules)) /\ DOMAIN rules = 1..Len(rules) /\ Len(rules) \in Nat
      /\ \A i, j \in DOMAIN rules : rules[i].id = rules[j].id => i = j
  BY <1>1, RecipeAssumption
<1> HIDE DEF items, gs, abi
<1>6. ASSUME NEW j \in DOMAIN rules
      PROVE  {i \in outcome.items : i.rule = rules[j].id} = items(j)
  <2>1. ASSUME NEW i \in outcome.items, i.rule = rules[j].id PROVE i \in items(j)
    <3>1. PICK l \in DOMAIN rules : i \in items(l)
      BY <1>3
    <3>2. l = j
      BY <1>4, <1>5, <2>1, <3>1
    <3> QED
      BY <3>1, <3>2
  <2>2. items(j) \subseteq outcome.items
    BY <1>3
  <2> QED
    BY <1>4, <2>1, <2>2
<1>7. ASSUME NEW rule \in ToSet(rules)
      PROVE  LET own == {i \in outcome.items : i.rule = rule.id} IN
             /\ rule.required /\ (rule.kind = "entries" => 0 \notin rule.counts) => own # {}
             /\ rule.kind # "entries" => Cardinality(own) <= 1
             /\ rule.kind # "entries" => \A i \in own : Valid(i.blob, rule, abi)
             /\ rule.kind = "entries" /\ own # {} => Cardinality(own) \in rule.counts
  <2>1. PICK j \in DOMAIN rules : rule = rules[j]
    BY DEF ToSet
  <2> QED
    BY <1>4, <1>6, <2>1
<1>8. ASSUME NEW i \in outcome.items, NEW m \in outcome.items, Key[i.dest] = Key[m.dest]
      PROVE  i = m
  <2>1. PICK j \in DOMAIN rules, l \in DOMAIN rules : i \in items(j) /\ m \in items(l)
    BY <1>3
  <2>2. ~(l \in 1..(j - 1)) /\ ~(j \in 1..(l - 1))
    BY <1>3, <1>8, <2>1
  <2>3. j = l
    BY <1>5, <2>2
  <2> QED
    BY <1>4, <1>8, <2>1, <2>3
<1>9. \A i \in outcome.items : i.dest \in recipe.commit[abi]
  BY <1>3
<1> QED
  BY <1>7, <1>8, <1>9 DEF abi

\* Whatever the player has, a plan satisfies the recipe for one ABI: nothing
\* required is missing, nothing invalid is taken and no two items share a path,
\* not even on a card that does not tell case apart.
THEOREM PlanFits == Spec => []Fits
BY Selection, FitsFromInv, PTL

-----------------------------------------------------------------------------
(* Where the items of a plan come from *)

\* What a group offers: its archives as files, their members, the loose files.
Held(g) == (UNION {{a.blob} \cup Entries(a) : a \in g.archives}) \cup {f.blob : f \in g.loose}

\* An item is what SourceItem makes it.
Shaped(i) == i = [rule |-> i.rule, dest |-> i.dest, blob |-> i.blob, whole |-> i.whole]

LEMMA ItemFacts ==
  ASSUME NEW rule, NEW g, NEW abi, Chosen(rule, g, abi).kind = "ok",
         NEW i \in Chosen(rule, g, abi).items
  PROVE  /\ i.blob \in Held(g) /\ i.whole \in BOOLEAN /\ Shaped(i)
         /\ i.whole => i.blob \in Whole(g, rule, abi)
<1>1. ASSUME NEW names, NEW m \in Matches(g, rule, names)
      PROVE  Member(m) \in Held(g)
  <2>1. PICK a \in g.archives : m \in {a} \X (DOMAIN a.entries \cap names)
    BY DEF Matches
  <2>2. m[1] = a /\ m[2] \in DOMAIN a.entries
    BY <2>1
  <2>3. Member(m) \in Entries(a)
    BY <2>2 DEF Member, Entries
  <2> QED
    BY <2>3 DEF Held
<1>2. ASSUME NEW b \in Candidates(g, rule, abi) PROVE b \in Held(g)
  <2>1. PICK j, m : m \in Matches(g, rule, Patterns(rule, abi)[j]) /\ b = Member(m)
    BY DEF Candidates
  <2> QED
    BY <1>1, <2>1
<1>3. ASSUME NEW b \in Whole(g, rule, abi) PROVE b \in Held(g)
  <2>1. b \in Containers(g, rule) \/ b \in LooseFiles(g, rule)
    BY DEF Whole
  <2>2. b \in Containers(g, rule) => \E a \in g.archives : b = a.blob
    BY DEF Containers
  <2>3. b \in LooseFiles(g, rule) => \E f \in g.loose : b = f.blob
    BY DEF LooseFiles
  <2> QED
    BY <2>1, <2>2, <2>3 DEF Held
<1>4. CASE rule.kind = "entries"
  <2>1. i \in TreeItems(rule, g, abi)
    BY <1>4, ChooseManyFacts DEF Chosen
  <2>2. PICK j, m : /\ m \in Matches(g, rule, Patterns(rule, abi)[j])
                    /\ i = Item(rule, rule.into[m[2]], Member(m), FALSE)
    BY <2>1 DEF TreeItems
  <2>3. i.blob = Member(m) /\ i.whole = FALSE /\ Shaped(i)
    BY <2>2 DEF Item, Shaped
  <2> QED
    BY <1>1, <2>2, <2>3
<1>5. CASE rule.kind # "entries"
  <2>1. PICK b \in Candidates(g, rule, abi) \cup Whole(g, rule, abi), w \in BOOLEAN :
          i = Item(rule, rule.dest, b, w) /\ (w => b \in Whole(g, rule, abi))
    BY <1>5, ChooseOneFacts DEF Chosen
  <2>2. i.blob = b /\ i.whole = w /\ Shaped(i)
    BY <2>1 DEF Item, Shaped
  <2> QED
    BY <1>2, <1>3, <2>1, <2>2
<1> QED
  BY <1>4, <1>5

\* The files a group is made of, next to the companion data: the loose APKs of
\* one package, one bundle, or none.
OneSource(fs, F) ==
  \/ F = {}
  \/ \E p \in ToSet(Packages) : F = {f \in ToSet(fs) : Class(f) = "apk" /\ f.package = p}
  \/ \E b \in ToSet(fs) : Class(b) = "bundle" /\ F = {b} \cup Inner(b)
DataOf(fs) == {f \in ToSet(fs) : Class(f) \in {"archive", "none"}}

LEMMA HeldFacts ==
  ASSUME NEW rec, NEW fs \in Seq(AnyFile), NEW g \in WithData(Discovered(rec, fs))
  PROVE  \E F : OneSource(fs, F) /\ Held(g) \subseteq Inside(F) \cup Inside(DataOf(fs))
<1> DEFINE d == Discovered(rec, fs)
           data == Inside(DataOf(fs))
<1>1. /\ ToSet(d.bundles) = {f \in ToSet(fs) : Class(f) = "bundle"}
      /\ d.apks = {f \in ToSet(fs) : Class(f) = "apk"}
      /\ d.generic \subseteq DataOf(fs) /\ d.loose \subseteq DataOf(fs)
  BY FoundFacts DEF DataOf
<1> HIDE DEF d
\* opening a file shows what is inside it
<1>2. ASSUME NEW F, NEW kind, NEW f \in F
      PROVE  {Opened(f, kind).blob} \cup Entries(Opened(f, kind)) \subseteq Inside(F)
  <2>1. Opened(f, kind).blob = f.blob /\ Opened(f, kind).entries = f.entries
    BY DEF Opened
  <2>2. Entries(Opened(f, kind)) = Entries(f)
    BY <2>1 DEF Entries
  <2> QED
    BY <2>1, <2>2 DEF Inside
<1>3. ASSUME NEW a \in Companions(d) PROVE {a.blob} \cup Entries(a) \subseteq data
  BY <1>1, <1>2 DEF Companions
<1>4. \A f \in d.loose : f.blob \in data
  BY <1>1 DEF Inside
<1>5. ASSUME NEW F, NEW archives, NEW package, NEW kind, g = Group(archives, d, package, kind),
             \A a \in archives : {a.blob} \cup Entries(a) \subseteq Inside(F) \cup data
      PROVE  Held(g) \subseteq Inside(F) \cup data
  <2>1. g.archives = archives /\ g.loose = d.loose
    BY <1>5 DEF Group
  <2> HIDE DEF data
  <2> QED
    BY <1>4, <1>5, <2>1 DEF Held
<1>6. \/ \E b \in ToSet(d.bundles) : g = BundleGroup(d, b, Unpacked(b))
      \/ \E p \in ToSet(Packages) : g = DirectGroup(d, p)
      \/ g = Group(Companions(d), d, "none", "companion")
  BY DEF WithData, Built, d
<1>7. ASSUME NEW b \in ToSet(d.bundles), g = BundleGroup(d, b, Unpacked(b))
      PROVE  \E F : OneSource(fs, F) /\ Held(g) \subseteq Inside(F) \cup data
  <2> DEFINE F == {b} \cup Inner(b)
             archives == ToSet(Unpacked(b)) \cup {Opened(b, "bundle")} \cup Companions(d)
  <2>1. OneSource(fs, F)
    BY <1>1 DEF OneSource
  <2>2. \A a \in ToSet(Unpacked(b)) : \E f \in Inner(b) : a = Opened(f, "apk")
    BY DEF ToSet, Unpacked, Inner
  <2> HIDE DEF data
  <2>3. \A a \in archives : {a.blob} \cup Entries(a) \subseteq Inside(F) \cup data
    <3> SUFFICES ASSUME NEW a \in archives PROVE {a.blob} \cup Entries(a) \subseteq Inside(F) \cup data
      OBVIOUS
    <3>1. CASE a \in ToSet(Unpacked(b))
      <4>1. PICK f \in F : a = Opened(f, "apk")
        BY <2>2, <3>1
      <4> HIDE DEF F
      <4> QED
        BY <1>2, <4>1
    <3>2. CASE a = Opened(b, "bundle")
      <4>1. b \in F
        OBVIOUS
      <4> HIDE DEF F
      <4> QED
        BY <1>2, <3>2, <4>1
    <3>3. CASE a \in Companions(d)
      <4> HIDE DEF F
      <4> QED
        BY <1>3, <3>3
    <3> QED
      BY <3>1, <3>2, <3>3
  <2> HIDE DEF F
  <2>4. Held(g) \subseteq Inside(F) \cup data
    BY <1>5, <1>7, <2>3 DEF BundleGroup
  <2> QED
    BY <2>1, <2>4
<1>8. ASSUME NEW p \in ToSet(Packages), g = DirectGroup(d, p)
      PROVE  \E F : OneSource(fs, F) /\ Held(g) \subseteq Inside(F) \cup data
  <2> DEFINE F == {f \in ToSet(fs) : Class(f) = "apk" /\ f.package = p}
             archives == {Opened(f, "apk") : f \in ApksOf(d, p)} \cup Companions(d)
  <2>1. OneSource(fs, F) /\ ApksOf(d, p) = F
    BY <1>1 DEF OneSource, ApksOf
  <2> HIDE DEF data, F
  <2>2. \A a \in archives : {a.blob} \cup Entries(a) \subseteq Inside(F) \cup data
    <3> SUFFICES ASSUME NEW a \in archives PROVE {a.blob} \cup Entries(a) \subseteq Inside(F) \cup data
      OBVIOUS
    <3>1. CASE a \in Companions(d)
      BY <1>3, <3>1
    <3>2. CASE \E f \in F : a = Opened(f, "apk")
      BY <1>2, <3>2
    <3> QED
      BY <2>1, <3>1, <3>2
  <2>3. Held(g) \subseteq Inside(F) \cup data
    BY <1>5, <1>8, <2>2 DEF DirectGroup
  <2> QED
    BY <2>1, <2>3
<1>9. ASSUME g = Group(Companions(d), d, "none", "companion")
      PROVE  \E F : OneSource(fs, F) /\ Held(g) \subseteq Inside(F) \cup data
  <2>1. OneSource(fs, {})
    BY DEF OneSource
  <2> HIDE DEF data
  <2>2. Held(g) \subseteq Inside({}) \cup data
    BY <1>3, <1>5, <1>9
  <2> QED
    BY <2>1, <2>2
<1> QED
  BY <1>6, <1>7, <1>8, <1>9

\* A plan that succeeds takes what one group holds.
LEMMA PlanSource ==
  ASSUME NEW rec \in Recipes, NEW fs \in Seq(AnyFile),
         NEW a \in DOMAIN Groups(rec, Discovered(rec, fs)), NEW abi,
         LET g == Groups(rec, Discovered(rec, fs))[a] IN PlanFor(rec, g, abi).kind = "ok"
  PROVE  LET g == Groups(rec, Discovered(rec, fs))[a] IN
         /\ g \in WithData(Discovered(rec, fs))
         /\ \A i \in PlanFor(rec, g, abi).items :
              /\ i.blob \in Held(g) /\ i.whole \in BOOLEAN /\ Shaped(i)
              /\ i.whole => \E j \in DOMAIN rec.rules : i.blob \in Whole(g, rec.rules[j], abi)
<1> DEFINE g == Groups(rec, Discovered(rec, fs))[a]
<1>1. Discovered(rec, fs).bundles \in Seq(AnyFile)
  BY FoundFacts
<1>2. Groups(rec, Discovered(rec, fs)) \in Seq(WithData(Discovered(rec, fs)))
  BY <1>1, GroupsFacts
<1>3. g \in WithData(Discovered(rec, fs))
  BY <1>2
<1> HIDE DEF g
<1>4. /\ PlanFor(rec, g, abi).items = UNION {New(rec, g, abi, j).items : j \in DOMAIN rec.rules}
      /\ \A j \in DOMAIN rec.rules : New(rec, g, abi, j).kind = "ok"
  BY PlanFacts DEF g
<1>5. \A i \in PlanFor(rec, g, abi).items :
        /\ i.blob \in Held(g) /\ i.whole \in BOOLEAN /\ Shaped(i)
        /\ i.whole => \E j \in DOMAIN rec.rules : i.blob \in Whole(g, rec.rules[j], abi)
  BY <1>4, ItemFacts DEF New
<1> QED
  BY <1>3, <1>5 DEF g

LEMMA GenuineFromInv == SelectInv => Genuine
<1> SUFFICES ASSUME SelectInv, Done, outcome.kind = "ok"
             PROVE  \E s \in Sources : \A i \in outcome.items : i.blob \in s \cup Data
  BY DEF Genuine
<1> DEFINE gs == Groups(recipe, Discovered(recipe, Paths))
<1>1. recipe \in Recipes /\ outcome \in Outcomes(recipe, Paths) /\ Paths \in Seq(AnyFile)
  BY PathsAreFiles DEF SelectInv, WorldInv, DoneInv, Done
<1>2. PICK a \in DOMAIN gs, k \in DOMAIN recipe.abis :
        /\ PlanFor(recipe, gs[a], recipe.abis[k]).kind = "ok"
        /\ outcome.items = PlanFor(recipe, gs[a], recipe.abis[k]).items
  BY <1>1, OutcomeFacts
<1>3. gs[a] \in WithData(Discovered(recipe, Paths)) /\ \A i \in outcome.items : i.blob \in Held(gs[a])
  BY <1>1, <1>2, PlanSource
<1> HIDE DEF gs
<1>4. PICK F : OneSource(Paths, F) /\ Held(gs[a]) \subseteq Inside(F) \cup Inside(DataOf(Paths))
  BY <1>1, <1>3, HeldFacts
<1>5. Inside({}) = {}
  BY DEF Inside
<1>6. Inside(F) \in Sources
  BY <1>4, <1>5 DEF OneSource, Sources
<1>7. Inside(DataOf(Paths)) = Data
  BY DEF DataOf, Data
<1> QED
  BY <1>3, <1>4, <1>6, <1>7

\* Nothing of two sources is ever mixed, and nothing comes from a file that is
\* no longer there: what an interrupted run or an older bundle has left in the
\* cache is used only for the content the present bundle names.
THEOREM PlanGenuine == Spec => []Genuine
BY Selection, GenuineFromInv, PTL

-----------------------------------------------------------------------------
(* What the selection depends on *)

\* The items of the plans tried have contents that size and CRC tell apart,
\* and what they take whole is among what rules may take whole.
LEMMA TriedBlobs ==
  ASSUME NEW rec \in Recipes, NEW fs \in Seq(AnyFile),
         NEW p \in Successes(Attempts(rec, Groups(rec, Discovered(rec, fs)))), NEW i \in p.items
  PROVE  /\ i.blob \in Blobs /\ i.whole \in BOOLEAN /\ Shaped(i)
         /\ i.whole => i.blob \in Wholes(rec, fs)
<1> DEFINE gs == Groups(rec, Discovered(rec, fs))
<1>1. PICK a \in DOMAIN gs, k \in DOMAIN rec.abis : p = Attempt(rec, gs[a], k) /\ p.kind = "ok"
  BY DEF Successes, Attempts
<1> HIDE DEF gs
<1> DEFINE made == PlanFor(rec, gs[a], rec.abis[k])
<1>2. made.kind = "ok" /\ p.items = made.items
  <2>1. p.kind = (IF made.kind = "ok" /\ made.items = {} THEN "plan" ELSE made.kind)
        /\ p.items = made.items
    BY <1>1 DEF Attempt, Attempted
  <2> HIDE DEF made
  <2> QED
    BY <1>1, <2>1
<1>3. /\ gs[a] \in WithData(Discovered(rec, fs)) /\ i.blob \in Held(gs[a]) /\ i.whole \in BOOLEAN
      /\ Shaped(i)
      /\ i.whole => \E j \in DOMAIN rec.rules : i.blob \in Whole(gs[a], rec.rules[j], rec.abis[k])
  BY <1>2, PlanSource DEF gs
<1>10. i.whole => i.blob \in Wholes(rec, fs)
  BY <1>3 DEF Wholes, gs
<1>4. PICK F : OneSource(fs, F) /\ Held(gs[a]) \subseteq Inside(F) \cup Inside(DataOf(fs))
  BY <1>3, HeldFacts
<1>5. ToSet(fs) \subseteq AnyFile
  BY FoundFacts
<1>6. F \subseteq AnyFile \cup InnerFiles
  <2>1. \A b \in AnyFile : Inner(b) \subseteq InnerFiles
    BY DEF Inner, InnerFiles
  <2> QED
    BY <1>4, <1>5, <2>1 DEF OneSource
<1>7. DataOf(fs) \subseteq AnyFile \cup InnerFiles
  BY <1>5 DEF DataOf
<1>8. ASSUME NEW X, X \subseteq AnyFile \cup InnerFiles PROVE Inside(X) \subseteq Blobs
  BY <1>8 DEF Inside, Blobs
<1>9. i.blob \in Blobs
  BY <1>3, <1>4, <1>6, <1>7, <1>8
<1> QED
  BY <1>3, <1>9, <1>10

\* Plans of one fingerprint have the same items, if no two files that they
\* take whole have one size and differ.
LEMMA FingerprintWrites ==
  ASSUME NEW p, NEW q, Fingerprint(p) \subseteq Fingerprint(q),
         \A i \in p.items \cup q.items : i.blob \in Blobs /\ i.whole \in BOOLEAN /\ Shaped(i),
         \A i, j \in p.items \cup q.items :
           i.whole /\ j.whole /\ i.blob.size = j.blob.size => i.blob = j.blob
  PROVE  p.items \subseteq q.items
<1> DEFINE tag(i) == IF i.whole THEN -1 ELSE i.blob.crc
<1> SUFFICES ASSUME NEW i \in p.items PROVE i \in q.items
  OBVIOUS
<1>1. <<i.rule, i.dest, i.blob.size, tag(i)>> \in Fingerprint(q)
  BY DEF Fingerprint
<1>2. PICK j \in q.items : <<i.rule, i.dest, i.blob.size, tag(i)>> = <<j.rule, j.dest, j.blob.size, tag(j)>>
  BY <1>1 DEF Fingerprint
<1> HIDE DEF tag
<1>3. i.rule = j.rule /\ i.dest = j.dest /\ i.blob.size = j.blob.size /\ tag(i) = tag(j)
  BY <1>2
<1> USE DEF tag
<1>4. i.blob \in Blobs /\ j.blob \in Blobs /\ i.whole \in BOOLEAN /\ j.whole \in BOOLEAN
  OBVIOUS
<1>5. i.blob.crc \in Nat /\ j.blob.crc \in Nat
  BY <1>4, ContentAssumption
<1>6. i.whole = j.whole
  BY <1>3, <1>4, <1>5
<1>7. i.blob = j.blob
  <2>1. CASE i.whole
    BY <1>3, <1>6, <2>1
  <2>2. CASE ~i.whole
    <3>1. i.blob.crc = j.blob.crc
      BY <1>3, <1>6, <2>2
    <3> QED
      BY <1>3, <1>4, <3>1, ContentAssumption
  <2> QED
    BY <2>1, <2>2
<1> HIDE DEF tag
<1>8. i = j
  BY <1>3, <1>6, <1>7 DEF Shaped
<1> QED
  BY <1>8

\* All that the choice between the plans may come to is then the same.
LEMMA ResolvedSame ==
  ASSUME NEW tried, NEW r \in Resolved(tried), NEW s \in Resolved(tried), NEW W,
         \A p \in Successes(tried) : \A i \in p.items :
           /\ i.blob \in Blobs /\ i.whole \in BOOLEAN /\ Shaped(i)
           /\ i.whole => i.blob \in W,
         \A b, c \in W : b.size = c.size => b = c
  PROVE  Same(r, s)
<1>1. CASE r = Stopped("plan") /\ s = Stopped("plan")
  BY <1>1 DEF Same
<1>2. ASSUME NEW p \in Successes(tried), NEW q \in Successes(tried),
             r = Selected(p.items), s = Selected(q.items), Fingerprint(p) = Fingerprint(q)
      PROVE  Same(r, s)
  <2>1. p.items \subseteq q.items
    BY <1>2, FingerprintWrites
  <2>2. q.items \subseteq p.items
    BY <1>2, FingerprintWrites
  <2>3. p.items = q.items
    BY <2>1, <2>2
  <2> QED
    BY <1>2, <2>3 DEF Same
<1>3. \/ r = Stopped("plan") /\ s = Stopped("plan")
      \/ \E p, q \in Successes(tried) :
           r = Selected(p.items) /\ s = Selected(q.items) /\ Fingerprint(p) = Fingerprint(q)
  BY DEF Resolved, Best
<1> QED
  BY <1>1, <1>2, <1>3

\* A selection comes to what one of other files may come to if these offer the
\* same groups and are neither more broken nor more than may be; and to nothing
\* else if size tells apart what rules may take whole.
LEMMA SameGroupsAgree ==
  ASSUME NEW rec \in Recipes, NEW fs \in Seq(AnyFile), NEW hs \in Seq(AnyFile),
         NEW result \in Outcomes(rec, fs),
         Len(fs) > rec.max_files <=> Len(hs) > rec.max_files,
         Broken(rec, Discovered(rec, fs)) <=> Broken(rec, Discovered(rec, hs)),
         ToSet(Groups(rec, Discovered(rec, fs))) = ToSet(Groups(rec, Discovered(rec, hs)))
  PROVE  /\ \E other \in Results(rec, hs) : Same(result, other)
         /\ (\A b, c \in Wholes(rec, fs) : b.size = c.size => b = c) =>
              \A other \in Results(rec, hs) : Same(result, other)
<1> DEFINE G(x) == Groups(rec, Discovered(rec, x))
           tried(x) == Attempts(rec, G(x))
           Of(S) == {Attempt(rec, g, k) : g \in S, k \in DOMAIN rec.abis}
<1>1. ASSUME NEW gs
      PROVE  Attempts(rec, gs) = Of(ToSet(gs))
  <2>1. ASSUME NEW p \in Attempts(rec, gs) PROVE p \in Of(ToSet(gs))
    BY DEF Attempts, ToSet
  <2>2. ASSUME NEW p \in Of(ToSet(gs)) PROVE p \in Attempts(rec, gs)
    <3>1. PICK g \in ToSet(gs), k \in DOMAIN rec.abis : p = Attempt(rec, g, k)
      OBVIOUS
    <3>2. PICK a \in DOMAIN gs : g = gs[a]
      BY DEF ToSet
    <3> QED
      BY <3>1, <3>2 DEF Attempts
  <2> QED
    BY <2>1, <2>2
<1>2. tried(fs) = tried(hs)
  <2> HIDE DEF Of
  <2>1. tried(fs) = Of(ToSet(G(fs))) /\ tried(hs) = Of(ToSet(G(hs)))
    BY <1>1
  <2> QED
    BY <2>1
<1>3. G(fs) = <<>> <=> G(hs) = <<>>
  <2>1. Discovered(rec, fs).bundles \in Seq(AnyFile) /\ Discovered(rec, hs).bundles \in Seq(AnyFile)
    BY FoundFacts
  <2>2. G(fs) \in Seq(WithData(Discovered(rec, fs))) /\ G(hs) \in Seq(WithData(Discovered(rec, hs)))
    BY <2>1, GroupsFacts
  <2>3. G(fs) = <<>> <=> ToSet(G(fs)) = {}
    BY <2>2, EmptyFacts
  <2>4. G(hs) = <<>> <=> ToSet(G(hs)) = {}
    BY <2>2, EmptyFacts
  <2> QED
    BY <2>3, <2>4
<1>4. Fails(rec, fs) <=> Fails(rec, hs)
  BY <1>2, <1>3 DEF Fails
<1>5. Results(rec, hs) = IF Fails(rec, hs) THEN {Stopped("source")} ELSE Resolved(tried(hs))
  BY DEF Results, Fails
<1>6. CASE Fails(rec, fs)
  <2>1. result \in {Stopped("source"), Stopped("recipe")} /\ Results(rec, hs) = {Stopped("source")}
    BY <1>4, <1>5, <1>6 DEF Outcomes
  <2>2. \A kind \in {"source", "recipe"} : Stopped(kind).kind # "ok" /\ Stopped(kind).items = {}
    BY DEF Stopped
  <2> QED
    BY <2>1, <2>2 DEF Same
<1>7. CASE ~Fails(rec, fs)
  <2>1. result \in Resolved(tried(fs))
    BY <1>7 DEF Outcomes
  <2>2. Results(rec, hs) = Resolved(tried(fs))
    BY <1>2, <1>4, <1>5, <1>7
  <2>3. \A p \in Successes(tried(fs)) : \A i \in p.items :
          /\ i.blob \in Blobs /\ i.whole \in BOOLEAN /\ Shaped(i)
          /\ i.whole => i.blob \in Wholes(rec, fs)
    BY TriedBlobs
  <2> HIDE DEF tried
  <2>4. \E other \in Results(rec, hs) : Same(result, other)
    BY <2>1, <2>2 DEF Same
  <2>5. ASSUME \A b, c \in Wholes(rec, fs) : b.size = c.size => b = c,
               NEW other \in Results(rec, hs)
        PROVE  Same(result, other)
    <3>1. other \in Resolved(tried(fs))
      BY <2>2
    <3> QED
      BY <2>1, <2>3, <2>5, <3>1, ResolvedSame
  <2> QED
    BY <2>4, <2>5
<1> QED
  BY <1>6, <1>7

LEMMA ResultsFromInv == SelectInv => (Done => \E result \in Results(recipe, Paths) : Same(outcome, result))
<1> SUFFICES ASSUME SelectInv, Done PROVE \E result \in Results(recipe, Paths) : Same(outcome, result)
  OBVIOUS
<1>1. recipe \in Recipes /\ outcome \in Outcomes(recipe, Paths) /\ Paths \in Seq(AnyFile)
  BY PathsAreFiles DEF SelectInv, WorldInv, DoneInv, Done
<1> QED
  BY <1>1, SameGroupsAgree

\* The selection comes to what the recipe and the files it looks at may come
\* to: the steps, the cache and what earlier selections left do not show.
THEOREM SelectionIsResult ==
  Spec => [](Done => \E result \in Results(recipe, Paths) : Same(outcome, result))
BY Selection, ResultsFromInv, PTL

\* What a group is made of: two discoveries of the same companion data build
\* the same group from a bundle, and from the same APKs of a package.
LEMMA SameGroup ==
  ASSUME NEW d, NEW e, d.generic = e.generic, d.loose = e.loose
  PROVE  /\ \A b : BundleGroup(d, b, Unpacked(b)) = BundleGroup(e, b, Unpacked(b))
         /\ \A p : ApksOf(d, p) = ApksOf(e, p) => DirectGroup(d, p) = DirectGroup(e, p)
         /\ Companions(d) = Companions(e)
         /\ \A archives, package, kind : Group(archives, d, package, kind) = Group(archives, e, package, kind)
<1>1. Companions(d) = Companions(e)
  BY DEF Companions
<1>2. \A archives, package, kind : Group(archives, d, package, kind) = Group(archives, e, package, kind)
  BY DEF Group
<1>3. \A b : BundleGroup(d, b, Unpacked(b)) = BundleGroup(e, b, Unpacked(b))
  BY <1>1, <1>2 DEF BundleGroup
<1>4. \A p : ApksOf(d, p) = ApksOf(e, p) => DirectGroup(d, p) = DirectGroup(e, p)
  BY <1>1, <1>2 DEF DirectGroup
<1> QED
  BY <1>1, <1>2, <1>3, <1>4

\* The groups depend on which files there are, not on their order.
LEMMA SameFilesSameGroups ==
  ASSUME NEW rec, NEW T, NEW fs \in Seq(T), NEW hs \in Seq(T), ToSet(fs) = ToSet(hs)
  PROVE  /\ ToSet(Groups(rec, Discovered(rec, fs))) = ToSet(Groups(rec, Discovered(rec, hs)))
         /\ Broken(rec, Discovered(rec, fs)) <=> Broken(rec, Discovered(rec, hs))
<1> DEFINE d == Discovered(rec, fs)
           e == Discovered(rec, hs)
<1>1. /\ d.bundles \in Seq(T) /\ e.bundles \in Seq(T) /\ ToSet(d.bundles) = ToSet(e.bundles)
      /\ d.apks = e.apks /\ d.generic = e.generic /\ d.loose = e.loose
  <2> DEFINE S == ToSet(fs)
  <2>1. /\ d.bundles \in Seq(T) /\ ToSet(d.bundles) = {f \in S : Class(f) = "bundle"}
        /\ d.apks = {f \in S : Class(f) = "apk"}
        /\ d.generic = {f \in S : Class(f) = "archive"}
        /\ d.loose = {f \in S : Class(f) = "archive" /\ f.ext = "obb"}
                \cup {f \in S : Class(f) = "none" /\ f.ext \in rec.exts}
    BY FoundFacts
  <2>2. /\ e.bundles \in Seq(T) /\ ToSet(e.bundles) = {f \in ToSet(hs) : Class(f) = "bundle"}
        /\ e.apks = {f \in ToSet(hs) : Class(f) = "apk"}
        /\ e.generic = {f \in ToSet(hs) : Class(f) = "archive"}
        /\ e.loose = {f \in ToSet(hs) : Class(f) = "archive" /\ f.ext = "obb"}
                \cup {f \in ToSet(hs) : Class(f) = "none" /\ f.ext \in rec.exts}
    BY FoundFacts
  <2>3. S = ToSet(hs)
    OBVIOUS
  <2> HIDE DEF S, d, e
  <2> QED
    BY <2>1, <2>2, <2>3
<1> HIDE DEF d, e
<1>2. \A p : ApksOf(d, p) = ApksOf(e, p)
  BY <1>1 DEF ApksOf
<1>3. Built(d) = Built(e)
  <2>1. \A b : BundleGroup(d, b, Unpacked(b)) = BundleGroup(e, b, Unpacked(b))
    BY <1>1, SameGroup
  <2>2. \A p : DirectGroup(d, p) = DirectGroup(e, p)
    BY <1>1, <1>2, SameGroup
  <2>3. {BundleGroup(d, b, Unpacked(b)) : b \in ToSet(d.bundles)}
          = {BundleGroup(e, b, Unpacked(b)) : b \in ToSet(e.bundles)}
    BY <1>1, <2>1
  <2>4. {q \in ToSet(Packages) : ApksOf(d, q) # {}} = {q \in ToSet(Packages) : ApksOf(e, q) # {}}
    BY <1>2
  <2>5. {DirectGroup(d, p) : p \in {q \in ToSet(Packages) : ApksOf(d, q) # {}}}
          = {DirectGroup(e, p) : p \in {q \in ToSet(Packages) : ApksOf(e, q) # {}}}
    BY <2>2, <2>4
  <2> QED
    BY <2>3, <2>5 DEF Built
<1>4. WithData(d) = WithData(e)
  <2>1. Group(Companions(d), d, "none", "companion") = Group(Companions(e), e, "none", "companion")
    BY <1>1, SameGroup
  <2> QED
    BY <1>1, <1>3, <2>1 DEF WithData
<1>5. ToSet(Groups(rec, d)) = {g \in WithData(d) : MayTry(rec, g)}
      /\ ToSet(Groups(rec, e)) = {g \in WithData(e) : MayTry(rec, g)}
  BY <1>1, GroupsFacts
<1>6. Broken(rec, d) <=> Broken(rec, e)
  BY <1>1 DEF Broken
<1>7. ToSet(Groups(rec, d)) = ToSet(Groups(rec, e))
  BY <1>4, <1>5
<1> QED
  BY <1>6, <1>7 DEF d, e

LEMMA NameBlindFromInv == SelectInv => NameBlind
<1> SUFFICES ASSUME SelectInv, Done, WholesTold, NEW p \in Bijection(DOMAIN Paths, DOMAIN Paths)
             PROVE  \A result \in Results(recipe, [j \in DOMAIN Paths |-> Paths[p[j]]]) :
                      Same(outcome, result)
  BY DEF NameBlind
<1> DEFINE fs == Paths
           hs == [j \in DOMAIN fs |-> fs[p[j]]]
<1>1. recipe \in Recipes /\ outcome \in Outcomes(recipe, fs) /\ fs \in Seq(AnyFile)
  BY PathsAreFiles DEF SelectInv, WorldInv, DoneInv, Done
<1>6. \A b, c \in Wholes(recipe, fs) : b.size = c.size => b = c
  BY DEF WholesTold
<1> HIDE DEF fs
<1>2. /\ p \in [DOMAIN fs -> DOMAIN fs]
      /\ \A t \in DOMAIN fs : \E s \in DOMAIN fs : p[s] = t
  BY DEF Bijection, Surjection, fs
<1>3. /\ hs \in Seq(AnyFile) /\ Len(hs) = Len(fs)
  <2>1. DOMAIN fs = 1..Len(fs) /\ Len(fs) \in Nat /\ \A j \in 1..Len(fs) : fs[j] \in AnyFile
    BY <1>1
  <2>2. hs \in [1..Len(fs) -> AnyFile]
    BY <1>2, <2>1
  <2> HIDE DEF hs
  <2> QED
    BY <2>1, <2>2
<1>4. ToSet(hs) = ToSet(fs)
  <2>1. ToSet(hs) \subseteq ToSet(fs)
    BY <1>2 DEF ToSet
  <2>2. ToSet(fs) \subseteq ToSet(hs)
    BY <1>2 DEF ToSet
  <2> QED
    BY <2>1, <2>2
<1> HIDE DEF hs
<1>5. \A result \in Results(recipe, hs) : Same(outcome, result)
  BY <1>1, <1>3, <1>4, <1>6, SameFilesSameGroups, SameGroupsAgree
<1> QED
  BY <1>5 DEF fs, hs

\* File names decide nothing: in whatever order they put the files, bundles
\* and splits, a selection succeeds alike and writes the same contents, as long
\* as size tells apart the files that rules may take whole.
THEOREM NamesDecideNothing == Spec => []NameBlind
BY Selection, NameBlindFromInv, PTL

\* A set of one or no element, by its number.
LEMMA AtMostOne ==
  ASSUME NEW S, IsFiniteSet(S), ~(Cardinality(S) > 1), NEW x \in S, NEW y \in S
  PROVE  x = y
<1> SUFFICES ASSUME x # y PROVE FALSE
  OBVIOUS
<1>1. IsFiniteSet({x}) /\ Cardinality({x}) = 1
  BY FS_Singleton
<1>2. Cardinality({x} \cup {y}) = 2
  BY <1>1, FS_AddElement
<1>3. {x} \cup {y} \in SUBSET S
  OBVIOUS
<1>4. Cardinality({x} \cup {y}) <= Cardinality(S) /\ Cardinality(S) \in Nat
  BY <1>3, FS_Subset, FS_CardinalityType
<1> QED
  BY <1>2, <1>4

\* A bundle that is not broken has APKs of one known package.
LEMMA BundlePackage ==
  ASSUME NEW rec, NEW b \in AnyFile, Class(b) = "bundle", ~BundleBroken(rec, b)
  PROVE  \E q \in ToSet(Packages) : BundlePackages(Unpacked(b)) = {q}
<1> DEFINE P == BundlePackages(Unpacked(b))
           f == [j \in DOMAIN b.inner |-> b.inner[j].file.package]
<1>1. b.inner \in Seq(ToSet(b.inner)) /\ b.inner # <<>>
  BY FilesAssumption DEF Class
<1>2. DOMAIN b.inner = 1..Len(b.inner) /\ Len(b.inner) \in Nat /\ 1 \in DOMAIN b.inner
  BY <1>1
<1>3. P = {b.inner[j].file.package : j \in DOMAIN b.inner}
  BY DEF BundlePackages, Unpacked, Opened
<1>4. \A q \in P : q \in ToSet(Packages)
  <2>1. \A j \in DOMAIN b.inner : b.inner[j].file \in InnerFiles /\ Identified(b.inner[j].file)
    BY DEF InnerFiles, BundleBroken
  <2> QED
    BY <1>3, <2>1, FilesAssumption DEF Identified
<1>5. IsFiniteSet(P)
  <2>1. f \in Surjection(DOMAIN b.inner, P)
    <3>1. f \in [DOMAIN b.inner -> P] /\ \A q \in P : \E j \in DOMAIN b.inner : f[j] = q
      BY <1>3
    <3> QED
      BY <3>1 DEF Surjection
  <2>2. IsFiniteSet(DOMAIN b.inner)
    BY <1>2, FS_Interval
  <2> QED
    BY <2>1, <2>2, FS_Surjection
<1>6. ~(Cardinality(P) > 1)
  BY DEF BundleBroken
<1>7. b.inner[1].file.package \in P
  BY <1>2, <1>3
<1> HIDE DEF P
<1>8. P = {b.inner[1].file.package}
  BY <1>5, <1>6, <1>7, AtMostOne
<1> QED
  BY <1>4, <1>7, <1>8 DEF P

\* What Class says of a file.
LEMMA ClassFacts ==
  ASSUME NEW f
  PROVE  /\ Class(f) = "apk" => f.manifest
         /\ Class(f) = "bundle" => f.inner # <<>>
<1>1. "none" # "apk" /\ "bundle" # "apk" /\ "archive" # "apk" /\ "none" # "bundle" /\ "archive" # "bundle"
  OBVIOUS
<1> QED
  BY <1>1 DEF Class

\* Leaving the files of other applications out leaves the same groups to try.
LEMMA OwnGroups ==
  ASSUME NEW rec, NEW fs \in Seq(AnyFile), NEW hs \in Seq(AnyFile),
         ToSet(hs) = {f \in ToSet(fs) : Belongs(rec, f)},
         ~Broken(rec, Discovered(rec, fs)),
         \E f \in ToSet(hs) : Class(f) \in {"apk", "bundle"}
  PROVE  /\ ToSet(Groups(rec, Discovered(rec, fs))) = ToSet(Groups(rec, Discovered(rec, hs)))
         /\ ~Broken(rec, Discovered(rec, hs))
<1> DEFINE d == Discovered(rec, fs)
           e == Discovered(rec, hs)
<1>1. /\ d.bundles \in Seq(AnyFile) /\ ToSet(d.bundles) = {f \in ToSet(fs) : Class(f) = "bundle"}
      /\ d.apks = {f \in ToSet(fs) : Class(f) = "apk"}
      /\ d.generic = {f \in ToSet(fs) : Class(f) = "archive"}
      /\ d.loose = {f \in ToSet(fs) : Class(f) = "archive" /\ f.ext = "obb"}
              \cup {f \in ToSet(fs) : Class(f) = "none" /\ f.ext \in rec.exts}
      /\ ToSet(fs) \subseteq AnyFile
  BY FoundFacts
<1>2. /\ e.bundles \in Seq(AnyFile) /\ ToSet(e.bundles) = {f \in ToSet(hs) : Class(f) = "bundle"}
      /\ e.apks = {f \in ToSet(hs) : Class(f) = "apk"}
      /\ e.generic = {f \in ToSet(hs) : Class(f) = "archive"}
      /\ e.loose = {f \in ToSet(hs) : Class(f) = "archive" /\ f.ext = "obb"}
              \cup {f \in ToSet(hs) : Class(f) = "none" /\ f.ext \in rec.exts}
  BY FoundFacts
<1>3. ~Broken(rec, d)
  OBVIOUS
<1> HIDE DEF d, e
<1>4. /\ ToSet(e.bundles) = {f \in ToSet(d.bundles) : Belongs(rec, f)}
      /\ e.apks = {f \in d.apks : Belongs(rec, f)}
  BY <1>1, <1>2
<1>5. e.generic = d.generic /\ e.loose = d.loose
  <2>1. \A f : Class(f) \in {"archive", "none"} => Belongs(rec, f)
    <3>1. "archive" # "apk" /\ "archive" # "bundle" /\ "none" # "apk" /\ "none" # "bundle"
      OBVIOUS
    <3> QED
      BY <3>1 DEF Belongs
  <2>2. \A f : f \in ToSet(hs) /\ Class(f) \in {"archive", "none"}
                <=> f \in ToSet(fs) /\ Class(f) \in {"archive", "none"}
    BY <2>1
  <2> QED
    BY <1>1, <1>2, <2>2
<1>6. ~Broken(rec, e)
  BY <1>3, <1>4, <1>5 DEF Broken
\* an APK that can be read is of a known package
<1>7. ASSUME NEW f \in d.apks PROVE f.package \in ToSet(Packages)
  <2>1. f \in AnyFile /\ f.manifest /\ f.opens
    BY <1>1, <1>3, ClassFacts DEF Broken
  <2> QED
    BY <2>1, FilesAssumption
<1>8. ASSUME NEW p, ApksOf(e, p) # {} PROVE ApksOf(e, p) = ApksOf(d, p)
  <2>1. \A f \in d.apks : Belongs(rec, f) <=> (rec.packages = {} \/ f.package \in rec.packages)
    BY <1>1 DEF Belongs
  <2> QED
    BY <1>4, <1>8, <2>1 DEF ApksOf
<1>9. ASSUME NEW p \in ToSet(Packages), ApksOf(d, p) # {}, MayTry(rec, DirectGroup(d, p))
      PROVE  ApksOf(e, p) = ApksOf(d, p)
  <2>1. DirectGroup(d, p).package = p
    BY DEF DirectGroup, Group
  <2>2. p # "none"
    BY FilesAssumption
  <2>3. rec.packages = {} \/ p \in rec.packages
    BY <1>9, <2>1, <2>2 DEF MayTry
  <2>4. \A f \in d.apks : f.package = p => Belongs(rec, f)
    BY <1>1, <2>3 DEF Belongs
  <2> QED
    BY <1>4, <2>4 DEF ApksOf
<1>10. ASSUME NEW b \in ToSet(d.bundles), MayTry(rec, BundleGroup(d, b, Unpacked(b)))
       PROVE  b \in ToSet(e.bundles)
  <2>1. b \in AnyFile /\ Class(b) = "bundle" /\ ~BundleBroken(rec, b)
    BY <1>1, <1>3 DEF Broken
  <2>2. PICK q \in ToSet(Packages) : BundlePackages(Unpacked(b)) = {q}
    BY <2>1, BundlePackage
  <2>3. BundleGroup(d, b, Unpacked(b)).package = q
    <3>1. BundleGroup(d, b, Unpacked(b)).package = CHOOSE p \in BundlePackages(Unpacked(b)) : TRUE
      BY DEF BundleGroup, Group
    <3> QED
      BY <2>2, <3>1
  <2>4. rec.packages = {} \/ q \in rec.packages
    BY <1>10, <2>3, FilesAssumption DEF MayTry
  <2>5. Belongs(rec, b)
    <3>1. "bundle" # "apk"
      OBVIOUS
    <3> QED
      BY <2>1, <2>2, <2>4, <3>1 DEF Belongs
  <2> QED
    BY <1>4, <2>5
<1>11. /\ \A b : BundleGroup(d, b, Unpacked(b)) = BundleGroup(e, b, Unpacked(b))
       /\ \A p : ApksOf(d, p) = ApksOf(e, p) => DirectGroup(d, p) = DirectGroup(e, p)
  BY <1>5, SameGroup
<1>12. Built(e) # {} /\ Built(d) # {}
  <2>1. PICK f \in ToSet(hs) : Class(f) \in {"apk", "bundle"}
    OBVIOUS
  <2>2. CASE Class(f) = "bundle"
    <3>1. f \in ToSet(e.bundles) /\ f \in ToSet(d.bundles)
      BY <1>2, <1>4, <2>2
    <3> QED
      BY <3>1 DEF Built
  <2>3. CASE Class(f) = "apk"
    <3>1. f \in ApksOf(e, f.package) /\ f \in ApksOf(d, f.package)
      BY <1>2, <1>4, <2>3 DEF ApksOf
    <3>2. f.package \in ToSet(Packages)
      BY <1>7, <3>1 DEF ApksOf
    <3>3. DirectGroup(e, f.package) \in Built(e) /\ DirectGroup(d, f.package) \in Built(d)
      BY <3>1, <3>2 DEF Built
    <3> QED
      BY <3>3
  <2> QED
    BY <2>1, <2>2, <2>3
<1>13. WithData(d) = Built(d) /\ WithData(e) = Built(e)
  BY <1>12 DEF WithData
<1>14. ASSUME NEW g \in Built(d), MayTry(rec, g) PROVE g \in Built(e)
  <2>1. CASE \E b \in ToSet(d.bundles) : g = BundleGroup(d, b, Unpacked(b))
    BY <1>10, <1>11, <1>14, <2>1 DEF Built
  <2>2. CASE \E p \in ToSet(Packages) : ApksOf(d, p) # {} /\ g = DirectGroup(d, p)
    <3>1. PICK p \in ToSet(Packages) : ApksOf(d, p) # {} /\ g = DirectGroup(d, p)
      BY <2>2
    <3>2. ApksOf(e, p) = ApksOf(d, p)
      BY <1>9, <1>14, <3>1
    <3>3. g = DirectGroup(e, p) /\ ApksOf(e, p) # {}
      BY <1>11, <3>1, <3>2
    <3> QED
      BY <3>3 DEF Built
  <2> QED
    BY <2>1, <2>2 DEF Built
<1>15. ASSUME NEW g \in Built(e) PROVE g \in Built(d)
  <2>1. CASE \E b \in ToSet(e.bundles) : g = BundleGroup(e, b, Unpacked(b))
    BY <1>4, <1>11, <2>1 DEF Built
  <2>2. CASE \E p \in ToSet(Packages) : ApksOf(e, p) # {} /\ g = DirectGroup(e, p)
    <3>1. PICK p \in ToSet(Packages) : ApksOf(e, p) # {} /\ g = DirectGroup(e, p)
      BY <2>2
    <3>2. g = DirectGroup(d, p) /\ ApksOf(d, p) # {}
      BY <1>8, <1>11, <3>1
    <3> QED
      BY <3>2 DEF Built
  <2> QED
    BY <2>1, <2>2 DEF Built
<1>16. ToSet(Groups(rec, d)) = {g \in WithData(d) : MayTry(rec, g)}
       /\ ToSet(Groups(rec, e)) = {g \in WithData(e) : MayTry(rec, g)}
  <2>1. d.bundles \in Seq(AnyFile) /\ e.bundles \in Seq(AnyFile)
    BY <1>1, <1>2
  <2>2. ToSet(Groups(rec, d)) = {g \in WithData(d) : MayTry(rec, g)}
    BY <2>1, GroupsFacts
  <2>3. ToSet(Groups(rec, e)) = {g \in WithData(e) : MayTry(rec, g)}
    BY <2>1, GroupsFacts
  <2> QED
    BY <2>2, <2>3
<1>17. ToSet(Groups(rec, d)) = ToSet(Groups(rec, e))
  BY <1>13, <1>14, <1>15, <1>16
<1> QED
  BY <1>6, <1>17 DEF d, e

LEMMA ForeignFromInv == SelectInv => ForeignIgnored
<1> DEFINE own == Only(Paths, {f \in ToSet(Paths) : Belongs(recipe, f)})
<1> SUFFICES ASSUME SelectInv, Done, ~Broken(recipe, Discovered(recipe, Paths)),
                    \E f \in ToSet(own) : Class(f) \in {"apk", "bundle"},
                    Len(Paths) <= recipe.max_files
             PROVE  \E result \in Results(recipe, own) : Same(outcome, result)
  BY DEF ForeignIgnored
<1>1. recipe \in Recipes /\ outcome \in Outcomes(recipe, Paths) /\ Paths \in Seq(AnyFile)
  BY PathsAreFiles DEF SelectInv, WorldInv, DoneInv, Done
<1>2. own \in Seq(AnyFile) /\ Len(own) <= Len(Paths)
      /\ ToSet(own) = ToSet(Paths) \cap {f \in ToSet(Paths) : Belongs(recipe, f)}
  BY <1>1, OnlyFacts
<1> HIDE DEF own
<1>3. ToSet(own) = {f \in ToSet(Paths) : Belongs(recipe, f)}
  BY <1>2
<1>4. ~(Len(Paths) > recipe.max_files) /\ ~(Len(own) > recipe.max_files)
  <2>1. recipe.max_files \in Nat
    BY <1>1, RecipeAssumption
  <2>2. Len(Paths) \in Nat /\ Len(own) \in Nat
    BY <1>1, <1>2
  <2> QED
    BY <1>2, <2>1, <2>2
<1>5. /\ ToSet(Groups(recipe, Discovered(recipe, Paths))) = ToSet(Groups(recipe, Discovered(recipe, own)))
      /\ ~Broken(recipe, Discovered(recipe, own))
  BY <1>1, <1>2, <1>3, OwnGroups
<1>6. \E result \in Results(recipe, own) : Same(outcome, result)
  BY <1>1, <1>2, <1>4, <1>5, SameGroupsAgree
<1> QED
  BY <1>6 DEF own

\* Readable files of other applications next to the game change neither
\* whether a selection succeeds nor what it writes.
THEOREM OthersIgnored == Spec => []ForeignIgnored
BY Selection, ForeignFromInv, PTL

-----------------------------------------------------------------------------
(* The cache of unpacked bundles *)

\* The inner APKs at hand are a sequence, and there is none before a scan.
OpenedInv ==
  /\ \E S : opened \in Seq(S)
  /\ pc \in {"off", "scan", "open"} => opened = <<>>

Inductive == OpenedInv /\ UnpackedTrue

\* An appended APK leaves the earlier ones alone (OpenMember).
LEMMA AppendKeeps ==
  ASSUME NEW S, NEW s \in Seq(S), NEW e
  PROVE  /\ Append(s, e) \in Seq(S \cup {e})
         /\ DOMAIN Append(s, e) = DOMAIN s \cup {Len(s) + 1}
         /\ \A j \in DOMAIN s : Append(s, e)[j] = s[j] /\ j # Len(s) + 1
         /\ Append(s, e)[Len(s) + 1] = e
<1>1. s \in Seq(S \cup {e}) /\ e \in S \cup {e}
  OBVIOUS
<1> QED
  BY <1>1

\* One member of a bundle: what is kept for it is taken only if it is valid.
LEMMA OpenStep ==
  ASSUME Inductive, OpenMember
  PROVE  Inductive'
<1> DEFINE j == Len(opened) + 1
           member == Bundle.inner[j]
           new == Opened(cache[NextKey], "apk")
<1>1. Bundling /\ pc = "expand" /\ found' = found /\ groups' = groups
      /\ CacheValid(NextKey, NextMember)
  BY DEF OpenMember, AtMember
<1>2. Bundle' = Bundle
  BY <1>1 DEF Bundle
<1>3. CASE pc' = "done" /\ opened' = opened
  <2>1. OpenedInv'
    BY <1>3 DEF Inductive, OpenedInv
  <2>2. UnpackedTrue'
    BY <1>3 DEF UnpackedTrue, Bundling
  <2> QED
    BY <2>1, <2>2 DEF Inductive
<1>4. CASE opened' = Append(opened, new) /\ pc' = pc
  <2>1. PICK S : opened \in Seq(S)
    BY DEF Inductive, OpenedInv
  <2>2. /\ Append(opened, new) \in Seq(S \cup {new})
        /\ DOMAIN Append(opened, new) = DOMAIN opened \cup {j}
        /\ \A k \in DOMAIN opened : Append(opened, new)[k] = opened[k]
        /\ Append(opened, new)[j] = new
    BY <2>1, AppendKeeps
  <2>3. new.blob.size = member.file.blob.size /\ new.blob.crc = member.file.blob.crc
    BY <1>1 DEF Opened, CacheValid, Size, NextMember
  <2>4. OpenedInv'
    BY <1>1, <1>4, <2>2 DEF OpenedInv, Bundling
  <2>5. UnpackedTrue'
    <3> SUFFICES ASSUME NEW k \in DOMAIN opened'
                 PROVE  /\ opened'[k].blob.size = Bundle.inner[k].file.blob.size
                        /\ opened'[k].blob.crc = Bundle.inner[k].file.blob.crc
      BY <1>2 DEF UnpackedTrue
    <3>1. CASE k \in DOMAIN opened
      BY <1>1, <1>4, <2>2, <3>1 DEF Inductive, UnpackedTrue
    <3>2. CASE k = j
      BY <1>4, <2>2, <2>3, <3>2
    <3> QED
      BY <1>4, <2>2, <3>1, <3>2
  <2> QED
    BY <2>4, <2>5 DEF Inductive
<1> QED
  BY <1>1, <1>3, <1>4 DEF OpenMember, End

\* Every step of the selection keeps the inductive invariant.
LEMMA InductiveStep ==
  ASSUME Inductive, [Next]_vars
  PROVE  Inductive'
<1>0. \E S : <<>> \in Seq(S)
  <2>1. <<>> \in Seq({})
    OBVIOUS
  <2> QED
    BY <2>1
<1>1. CASE Start
  <2>1. opened' = opened /\ opened = <<>> /\ pc' = "scan"
    BY <1>1 DEF Start, Inductive, OpenedInv
  <2> QED
    BY <2>1, <1>0 DEF Inductive, OpenedInv, UnpackedTrue, Bundling
<1>2. CASE Scan
  <2>1. opened' = opened /\ opened = <<>> /\ pc' \in {"done", "open"}
    BY <1>2 DEF Scan, End, Inductive, OpenedInv
  <2>2. DOMAIN opened' = {}
    BY <2>1
  <2> QED
    BY <2>1, <2>2, <1>0 DEF Inductive, OpenedInv, UnpackedTrue
<1>3. CASE RefuseBundle
  BY <1>3 DEF RefuseBundle, End, Inductive, OpenedInv, UnpackedTrue, Bundling
<1>4. CASE OpenMember
  BY <1>4, OpenStep
<1>12. CASE OpenCompanions
  <2>1. opened' = opened /\ opened = <<>> /\ pc' \in {"done", "expand"}
    BY <1>12 DEF OpenCompanions, End, Inductive, OpenedInv
  <2>2. DOMAIN opened' = {}
    BY <2>1
  <2> QED
    BY <2>1, <2>2, <1>0 DEF Inductive, OpenedInv, UnpackedTrue
<1>13. CASE RefuseMember
  BY <1>13 DEF RefuseMember, End, Inductive, OpenedInv, UnpackedTrue, Bundling
<1>14. CASE StartCopy \/ FinishCopy
  <2>1. /\ opened' = opened /\ Bundle' = Bundle /\ groups' = groups /\ found' = found
        /\ pc \in {"expand", "copy"} /\ pc' \in {"expand", "copy"}
    BY <1>14 DEF StartCopy, FinishCopy, AtMember, Bundle
  <2> QED
    BY <2>1 DEF Inductive, OpenedInv, UnpackedTrue, Bundling
<1>5. CASE CloseBundle
  <2>1. opened' = <<>>
    BY <1>5 DEF CloseBundle
  <2>2. DOMAIN opened' = {}
    BY <2>1
  <2> QED
    BY <2>1, <2>2, <1>0 DEF Inductive, OpenedInv, UnpackedTrue
<1>6. CASE GroupDirect
  BY <1>6 DEF GroupDirect, End, Inductive, OpenedInv, UnpackedTrue, Bundling
<1>7. CASE Try
  BY <1>7 DEF Try, End, Inductive, OpenedInv, UnpackedTrue, Bundling
<1>8. CASE Settle
  BY <1>8 DEF Settle, End, Inductive, OpenedInv, UnpackedTrue, Bundling
<1>9. CASE Leave
  <2>1. opened' = <<>> /\ pc' = "off"
    BY <1>9 DEF Leave
  <2> QED
    BY <2>1, <1>0 DEF Inductive, OpenedInv, UnpackedTrue, Bundling
<1>10. CASE Replace
  BY <1>10 DEF Replace, Inductive, OpenedInv, UnpackedTrue, Bundling
<1>11. CASE UNCHANGED vars
  BY <1>11 DEF vars, Inductive, OpenedInv, UnpackedTrue, Bundling, Bundle
<1> QED
  BY <1>1, <1>2, <1>3, <1>4, <1>5, <1>6, <1>7, <1>8, <1>9, <1>10, <1>11,
     <1>12, <1>13, <1>14 DEF Next

\* The cache is transparent: whatever bundles were unpacked before, at
\* whatever point a run was killed and whatever replaced the files since, the
\* inner APKs of a group have the size and CRC that the bundle gives them.
THEOREM CacheTransparent == Spec => []UnpackedTrue
<1>1. Init => Inductive
  <2> SUFFICES ASSUME Init PROVE Inductive
    OBVIOUS
  <2>1. <<>> \in Seq({})
    OBVIOUS
  <2>2. opened = <<>> /\ pc = "off"
    BY DEF Init
  <2> QED
    BY <2>1, <2>2 DEF Inductive, OpenedInv, UnpackedTrue, Bundling
<1>2. Inductive /\ [Next]_vars => Inductive'
  BY InductiveStep
<1>3. Inductive => UnpackedTrue
  BY DEF Inductive
<1> QED
  BY <1>1, <1>2, <1>3, PTL DEF Spec
===============================================================================
