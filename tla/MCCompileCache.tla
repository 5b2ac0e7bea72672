--------------------------- MODULE MCCompileCache ---------------------------
(* One translation unit that includes "h", looked for in the build tree (h1) *)
(* and in a dependency (h2).  A link looks for a library the same way.       *)
EXTENDS CompileCache, TLC

CONSTANTS j1, j2, b1, b2, src, h1, h2, tool, x, y, v1, v2, v3, t1, o1, o2,
  Search   \* the order of the lookups

TwoBuilds == (j1 :> b1) @@ (j2 :> b2)
Compiles == [j \in Jigs |-> "compile"]
Links == [j \in Jigs |-> "link"]
FirstWants == [j \in Jigs |-> j = j1]

\* The dependency is rebuilt with the same file, or with a file more.
Rebuilt == (b1 :> (h2 :> v1 @@ tool :> t1)) @@ (b2 :> (h2 :> v2 @@ tool :> t1))
Grown == (b1 :> (h2 :> v3 @@ tool :> t1)) @@ (b2 :> (h2 :> v2 @@ tool :> t1))
StoreFiles == (v1 :> x) @@ (v2 :> x) @@ (v3 :> NoFile) @@ (t1 :> x)
Outs == (b1 :> o1) @@ (b2 :> o2)
Fresh == {(src :> x) @@ (h1 :> NoFile)}

TreeFirst == <<h1, h2>>
DepFirst == <<h2, h1>>
Found(f) == {i \in DOMAIN Search : f[Search[i]] # NoFile}
First(f) == CHOOSE i \in Found(f) : \A k \in Found(f) : i <= k

MCReads(k, f) ==
  IF f[Source] = NoFile THEN {}
  ELSE {Source} \cup (IF Found(f) = {} THEN {} ELSE {Search[First(f)]})
MCMisses(k, f) ==
  IF f[Source] = NoFile THEN {Source}
  ELSE {Search[i] : i \in {n \in DOMAIN Search : Found(f) = {} \/ n < First(f)}}
\* y does not compile; a warning says where "h" was found.
MCOutput(k, f) ==
  IF f[Source] = NoFile \/ Found(f) = {}
  THEN [status |-> "missing", object |-> NoFile, err |-> Source]
  ELSE LET h == Search[First(f)]
       IN  IF y \in {f[h], f[Source]}
           THEN [status |-> "error", object |-> NoFile, err |-> y]
           ELSE [status |-> "ok", object |-> <<h, f[Tool]>>, err |-> h]
=============================================================================
