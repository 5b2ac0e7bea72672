---------------------------- MODULE MCArtifacts ----------------------------
(* Two processes of each family, which is enough for them to meet in the    *)
(* cache, in the out-dir of cargo and in the directory of gocacheprog.       *)
EXTENDS Artifacts, TLC

CONSTANTS b1, b2, g1, g2, r1, r2, i1, i2

\* A text that names a dependency and something that is no root, a binary, a second copy
\* of the text in a later batch, and a link, which in b2 has a blank in its target.
Text(hash, mode) == [kind |-> "f", mode |-> mode, text |-> TRUE, body |-> "t",
                     names |-> [n \in {"zlib", "src"} |-> hash]]
Binary(hash, body) == [kind |-> "f", mode |-> 1, text |-> FALSE, body |-> body,
                       names |-> [n \in {"zlib"} |-> hash]]
MCOrder == <<"p", "l", "q", "r">>
MCBuilt ==
  (b1 :> [r \in Rels |-> CASE r = "p" -> Text("h1", 1) [] r = "q" -> Binary("h1", "x")
                           [] r = "r" -> Text("h1", 2) [] r = "l" -> Link("p")]) @@
  (b2 :> [r \in Rels |-> CASE r = "p" -> Text("h2", 1) [] r = "q" -> Binary("h2", "y")
                           [] r = "r" -> None [] r = "l" -> Link("a b")])
MCRoots == (b1 :> [n \in {"zlib"} |-> "h1"]) @@ (b2 :> [n \in {"zlib"} |-> "h2"])
MCScribbles == {None, Binary("h1", "z")}
MCBodies == {"t", "x", "y", "z", "a b"} \cup Rels
MCMentions == UNION {[N -> {"h1", "h2", "*"}] : N \in SUBSET {"zlib", "src"}}

OneDisk == [g \in Gos |-> "tmp"]
MCActions == {<<1>>, <<255, 0>>}
MCOutputs == {<<>>, <<250, 10, 63>>}
MCOutputId(o) ==
  IF o = <<250, 10, 63>> THEN <<8, 129>>
  ELSE IF o = <<>> THEN <<77>> ELSE <<0>>

\* What cargo passes, each option in one token or in two.
Spelled(joined, flag, val) ==
  IF joined THEN <<[flag |-> flag, val |-> val]>>
  ELSE <<[flag |-> flag, val |-> None], [flag |-> "", val |-> val]>>
MCCargoArgs(c, joined) ==
  Spelled(joined, "--crate-name", "foo") \o <<[flag |-> "", val |-> "src"]>>
  \o (IF c.probe THEN <<[flag |-> "--print", val |-> "cfg"]>> ELSE <<>>)
  \o (IF c.type = "bin" /\ joined /\ c.stem = "-b" THEN <<>> ELSE Spelled(joined, "--crate-type", c.type))
  \o Spelled(joined, "--emit", {"dep-info", "link"})
  \o Spelled(joined, "-C", <<"metadata", c.stem>>)
  \o Spelled(joined, "-C", <<"extra-filename", c.stem>>)
  \o (IF c.incremental THEN Spelled(joined, "-C", <<"incremental", "dir">>) ELSE <<>>)
  \o Spelled(joined, "-C", <<"cfg", c.features>>)
  \o Spelled(joined, "--out-dir", "deps") \o Spelled(joined, "-L", "deps")
  \o Spelled(joined, "--extern", "rlib")

Crate(stem, features, type) ==
  [stem |-> stem, features |-> features, type |-> type, probe |-> FALSE, incremental |-> FALSE]
Plain == Crate("-a", {}, "lib")
Unit(build, crates, joined) ==
  [buildOf |-> (r1 :> "native") @@ (r2 :> build), crate |-> (r1 :> crates[1]) @@ (r2 :> crates[2]),
   args |-> (r1 :> MCCargoArgs(crates[1], TRUE)) @@ (r2 :> MCCargoArgs(crates[2], joined))]

\* The same crate in another build, or two variants of one in the same build.
MCUnits ==
  {Unit("cross", <<Plain, Plain>>, TRUE)}
  \cup {Unit("again", <<Plain, Crate("-b", {}, "lib")>>, j) : j \in BOOLEAN}
  \cup {Unit("native", <<Plain, Crate("-b", f, "lib")>>, FALSE) : f \in {{}, {"std"}}}
  \cup {Unit("again", <<Crate("-a", {}, "bin"), Crate("-b", {}, "bin")>>, j) : j \in BOOLEAN}
  \cup {Unit("native", <<[Plain EXCEPT !.probe = TRUE], [Crate("-b", {}, "lib") EXCEPT !.incremental = TRUE]>>, FALSE)}

Tree(s, m, l) == [src |-> s, mod |-> m, rlib |-> l]
MCTrees == {Tree("x", "x", "x"), Tree("x", "y", "x"), Tree("x", "x", "y"), Tree("bad", "x", "x")}
MCUnedited == Tree("x", "x", "x")
MCStd == ("native" :> "std1") @@ ("cross" :> "std2") @@ ("again" :> "std1")
MCClosure == ("native" :> "c1") @@ ("cross" :> "c2") @@ ("again" :> "c2")

\* Every pair of a kind, and one each of two caches, with fewer faults.
OneUnit == {Unit("cross", <<Plain, Plain>>, TRUE)}
Cast(who, units, spent) == [who |-> who, units |-> units, spent |-> spent]
MCCasts ==
  {Cast({r1, r2}, MCUnits, 0), Cast({b1, g1}, OneUnit, 1), Cast({b1, r1}, OneUnit, 1), Cast({g1, r1}, OneUnit, 2)}
  \cup {Cast(w, OneUnit, 0) : w \in {{b1, b2}, {g1, g2}, {i1, i2}}}

\* The gocacheprogs share a directory and get the same requests.
Symmetry == Permutations(Gos)

MCContents == {<<0>>, <<1>>, <<0, 1>>}
=============================================================================
