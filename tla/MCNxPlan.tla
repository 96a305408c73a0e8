------------------------------- MODULE MCNxPlan -------------------------------
(* NxPlan for TLC: two builds of the game, as one APK, as base and split and   *)
(* as bundles, with another application, companion data and stray files.       *)
EXTENDS NxPlan

B(id, size, crc, head) == [id |-> id, size |-> size, crc |-> crc, head |-> head]

lib1 == B("lib1", 3, 31, "arm64")
lib2 == B("lib2", 3, 32, "arm64")
lib3 == B("lib3", 2, 33, "arm32")
data1 == B("data1", 1, 11, "data")
data2 == B("data2", 2, 12, "data")

Plain(name, ext, blob) ==
  [name |-> name, ext |-> ext, stamp |-> 1, blob |-> blob, manifest |-> FALSE,
   package |-> "none", split |-> "", entries |-> <<>>, damage |-> <<>>, inner |-> <<>>,
   opens |-> TRUE]
Holding(f, entries) ==
  [f EXCEPT !.entries = entries, !.damage = [n \in DOMAIN entries |-> "none"]]
Apk(name, blob, package, split, entries) ==
  Holding([Plain(name, "apk", blob) EXCEPT !.manifest = TRUE, !.package = package,
                                           !.split = split], entries)
XApk(name, blob, inner) ==
  [Plain(name, "xapk", blob) EXCEPT
     !.inner = [j \in DOMAIN inner |-> [name |-> inner[j].name, file |-> inner[j]]]]

base == Apk("a", B("base", 5, 51, "zip"), "game", "", "data" :> data1)
config == Apk("c", B("config", 4, 41, "zip"), "game", "arm64", "lib" :> lib1)
\* a later build of the two, the same size as these
base2 == Apk("a", B("base2", 5, 52, "zip"), "game", "", "data" :> data2)
config2 == Apk("c", B("config2", 4, 42, "zip"), "game", "arm64", "lib" :> lib2)
full == Apk("f", B("full", 5, 53, "zip"), "game", "", ("data" :> data1) @@ ("lib" :> lib1) @@ ("Data" :> data1))
\* another build with other data and libraries for both machines
fat == Apk("g", B("fat", 6, 61, "zip"), "game", "", ("data" :> data2) @@ ("lib" :> lib1) @@ ("lib32" :> lib3))
other == Apk("o", B("other", 5, 54, "zip"), "other", "", ("data" :> data2) @@ ("lib" :> lib2))
unreadable == [Apk("u", B("unreadable", 5, 55, "zip"), "none", "", <<>>) EXCEPT !.opens = FALSE]
\* the split again, its library damaged; an empty one
damaged == [Apk("d", B("damaged", 4, 43, "zip"), "game", "arm64", "lib" :> lib1) EXCEPT
              !.damage = "lib" :> "end"]
empty == Plain("e", "apk", B("empty", 0, 0, "none"))
xapk == XApk("x", B("xapk", 9, 91, "zip"), <<base, config>>)
xapk2 == XApk("x", B("xapk2", 9, 92, "zip"), <<base2, config2>>)
\* a bundle that differs from the first in its base, not in sizes
rebuilt == XApk("r", B("rebuilt", 9, 95, "zip"), <<base2, config>>)
hollow == XApk("v", B("hollow", 9, 96, "zip"), <<base, empty>>)
mixed == XApk("m", B("mixed", 9, 93, "zip"), <<base, other>>)
huge == XApk("h", B("huge", 9, 94, "zip"), <<fat, base>>)
obb == Holding(Plain("b", "obb", B("obb", 2, 21, "zip")), "Data" :> data1)
sealed == [Plain("s", "obb", B("sealed", 2, 23, "zip")) EXCEPT !.opens = FALSE]
loose == Plain("l", "obb", B("loose", 4, 22, "data"))
readme == Plain("README", "txt", B("readme", 1, 13, "text"))

Rule(id, kind, dest) ==
  [id |-> id, kind |-> kind, dest |-> dest, into |-> <<>>, required |-> TRUE,
   patterns |-> [arm64 |-> <<>>, arm32 |-> <<>>], scopes |-> {"apk", "bundle"},
   exts |-> {}, split |-> "", sizes |-> {}, crcs |-> {}, magic |-> "any", elf |-> FALSE,
   hashes |-> {}, counts |-> 0..9, totals |-> 0..99]

owner == [Rule("owner", "container", "game.apk") EXCEPT
            !.scopes = {"apk"}, !.sizes = 5..6, !.magic = "zip"]
library == [Rule("lib", "entry", "lib.so") EXCEPT
              !.patterns = [arm64 |-> <<{"lib"}>>, arm32 |-> <<{"lib32"}>>], !.elf = TRUE]
tree == [Rule("tree", "entries", "data") EXCEPT
           !.patterns = [arm64 |-> <<{"data", "Data"}>>, arm32 |-> <<{"data"}, {"lib32"}>>],
           !.into = ("data" :> "data/data") @@ ("Data" :> "data/Data"), !.counts = 1..1]
either == [Rule("obb", "entry_or_file", "main.obb") EXCEPT
             !.patterns = [arm64 |-> <<{"obb"}, {"data"}>>, arm32 |-> <<>>],
             !.exts = {"obb"}, !.sizes = {2}, !.required = FALSE]

Recipe(rules, abis) ==
  [exts |-> {"apk", "xapk", "obb"}, sniff |-> TRUE, prefer_first |-> TRUE,
   packages |-> {"game"}, abis |-> abis, max_files |-> 3, max_apks |-> 2,
   max_member |-> 5, max_bundle |-> 10, rules |-> rules,
   commit |-> [abi \in {"arm64", "arm32"} |->
                {"game.apk", "lib.so", "data/data", "data/Data", "main.obb"}]]

shipped == Recipe(<<owner, [library EXCEPT !.hashes = {"lib1"}]>>, <<"arm64">>)
generic == [Recipe(<<library, tree>>, <<"arm64", "arm32">>) EXCEPT
              !.packages = {}, !.prefer_first = FALSE, !.max_bundle = 12, !.max_member = 6]
trees == [Recipe(<<either, tree>>, <<"arm64">>) EXCEPT !.sniff = FALSE]

MCRecipes == {shipped, generic, trees}
MCShipped == {shipped}
MCNewer == {xapk2, base2}
MCPackages == <<"game", "other">>
\* "data" stands for a member of assets/, "Data" for another of Assets/.
MCPrefixes == [n \in {"lib", "lib32", "data", "Data", "obb"} |->
  CASE n = "data" -> {n, "assets"} [] n = "Data" -> {n, "Assets"} [] OTHER -> {n}]
MCKey == [n \in UNION Range(MCPrefixes) \cup {"game.apk", "lib.so", "data/data", "data/Data", "main.obb"} |->
  CASE n = "Assets" -> "assets" [] n = "data/Data" -> "data/data" [] OTHER -> n]

\* Up to two files with one of the port's directory, or three together: each
\* set of them in one order, since NameBlind is about all.
Universe == <<base, config, full, fat, other, xapk, rebuilt, obb, damaged, readme,
              loose, mixed, huge, hollow, unreadable, sealed>>
Subset(k, n) == {SetToSortSeq(s, <) : s \in kSubset(k, 1..n)}
Files(js) == [j \in DOMAIN js |-> Universe[js[j]]]
MCFolders ==
  {<<Files(g), Files(p)>> : g \in UNION {Subset(k, 16) : k \in 0..2}, p \in Subset(0, 0) \cup Subset(1, 8)}
  \cup {<<Files(g), <<>>>> : g \in Subset(3, 12)}
===============================================================================
