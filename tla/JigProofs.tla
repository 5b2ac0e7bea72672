----------------------------- MODULE JigProofs -----------------------------
(***************************************************************************)
(* Theorems about what jig does with names of files: the compile cache     *)
(* (CompileCache) and relative paths (StorePaths).                         *)
(*                                                                         *)
(* No entry of the compile cache is wrong, for any number of jigs, builds, *)
(* files and compilers, as long as the Discipline of CompileCache holds;   *)
(* so jig implements PlainCompiler.  The argument: an entry is made of     *)
(* what one run of the compiler observed and of the manifest of its        *)
(* inputs.  Whoever reaches the entry has the same primary input and       *)
(* compiler by the request key, the same files read and missed by the      *)
(* manifest, and so the same result by determinism.  The invariant carries *)
(* the observation from the run to the last Put.                           *)
(*                                                                         *)
(* Relative paths between two places of one store lead there, and still do *)
(* when the store has been moved.                                          *)
(***************************************************************************)
EXTENDS CompileCache, StorePaths, SequenceTheorems, WellFoundedInduction, TLAPS

\* The slots that CompileAndStore puts for a status.
SlotsFor(status) == IF status = "ok" THEN {"m", "o", "e", "d"} ELSE {"m", "r", "e"}

ManifestFor(j) == BuildManifest(BuildOf[j], ViewFor(j), obs[j].reads, obs[j].absent)

Shape ==
  /\ tree \in [Builds -> Trees]
  /\ pc \in [Jigs -> PCs]
  /\ DOMAIN cache = CacheSlots
  /\ DOMAIN key = Jigs /\ DOMAIN man = Jigs /\ DOMAIN obs = Jigs /\ DOMAIN toPut = Jigs

\* A running jig knows its own files.
JigInv(j) ==
  /\ pc[j] \notin {"idle", "plain"} => key[j] = RequestKey(j, ViewFor(j))
  /\ pc[j] \in {"manifest", "put"} =>
       /\ obs[j] = Observed(KindOf[j], ViewFor(j))
       /\ Storable(j, obs[j])
  /\ pc[j] = "put" =>
       /\ man[j] = ManifestFor(j)
       /\ toPut[j] \in Seq(SlotsFor(obs[j].out.status))

IInv == Shape /\ EntriesSound /\ \A j \in Jigs : JigInv(j)

----------------------------------------------------------------------------
(* The entry of one run is right for everybody *)

\* A build's view of its files is a valuation of all paths.
LEMMA ViewIsFiles ==
  ASSUME NEW b \in Builds, NEW t \in Trees
  PROVE  ViewOf(b, t) \in Files
  BY ToolchainAssumption, Zenon DEF ViewOf, Files, Trees, Paths

\* Who has the request key of a run and finds its manifest valid has the files
\* that the run depended on.
LEMMA SameInputs ==
  ASSUME Discipline,
         NEW j \in Jigs, NEW t \in Trees, NEW i \in Jigs, NEW u \in Trees,
         NEW f, f = ViewOf(BuildOf[j], t), NEW g, g = ViewOf(BuildOf[i], u),
         RequestKey(j, f) = RequestKey(i, g),
         NEW o, o = Observed(KindOf[j], f),
         \A l \in BuildManifest(BuildOf[j], f, o.reads, o.absent) : Valid(BuildOf[i], g, l)
  PROVE  KindOf[i] = KindOf[j] /\ SameFiles(f, g, Inputs(KindOf[j], f))
<1> DEFINE k == KindOf[j]
           b == BuildOf[j]
           c == BuildOf[i]
<1>1. b \in Builds /\ c \in Builds /\ k \in Kinds
  BY ToolchainAssumption, Zenon
<1>2. f \in Files /\ g \in Files
  BY <1>1, ViewIsFiles, Zenon
<1>3. /\ KindOf[i] = k
      /\ f[Source] = g[Source]
      /\ InputId(b, f, Tool) = InputId(c, g, Tool)
      /\ ~ByContent => StoreOf[b] = StoreOf[c]
  BY Zenon DEF RequestKey
<1>4. \A p \in Deps : f[p] = FileOf[StoreOf[b][p]] /\ g[p] = FileOf[StoreOf[c][p]]
  BY ToolchainAssumption, Zenon DEF ViewOf, Paths
<1>5. ASSUME ~ByContent PROVE \A p \in Deps : f[p] = g[p]
  BY <1>3, <1>4, <1>5, Zenon
<1>6. f[Tool] = g[Tool]
  <2>1. CASE ~ByContent
    BY <2>1, <1>5, ToolchainAssumption, Zenon
  <2>2. CASE ByContent
    BY <2>2, <1>3, ToolchainAssumption, Zenon DEF InputId, ByPath
  <2> QED BY <2>1, <2>2, Zenon
<1>7. ASSUME NEW p \in Reads(k, f) PROVE f[p] = g[p]
  <2>1. p \in Paths /\ f[p] # NoFile
    BY <1>1, <1>2, CompilerAssumption, Zenon
  <2>2. CASE p = Source
    BY <2>2, <1>3, Zenon
  <2>3. CASE ByPath(p)
    BY <2>3, <1>5, Zenon DEF ByPath
  <2>4. CASE p # Source /\ ~ByPath(p)
    <3> DEFINE l == [path |-> p, absent |-> FALSE, id |-> InputId(b, f, p)]
    <3>1. l \in InputLines(b, f, Reads(k, f))
      BY <2>1, <2>4, <1>7, Zenon DEF InputLines, Readable
    <3>2. o.reads = Reads(k, f)
      BY Zenon DEF Observed
    <3>3. Valid(c, g, l)
      BY <3>1, <3>2, Zenon DEF BuildManifest
    <3>4. InputId(c, g, p) = InputId(b, f, p)
      BY <3>3, <2>4, Zenon DEF Valid
    <3> QED BY <3>4, <2>4, Zenon DEF InputId
  <2> QED BY <2>2, <2>3, <2>4, Zenon
<1>8. ASSUME NEW p \in Misses(k, f) PROVE f[p] = g[p]
  <2>1. p \in Paths /\ f[p] = NoFile
    BY <1>1, <1>2, CompilerAssumption, Zenon
  <2>2. CASE p \in Deps
    BY <2>1, <2>2, <1>1, <1>4, <1>5, Zenon DEF Discipline
  <2>3. CASE p \notin Deps
    <3> DEFINE l == [path |-> p, absent |-> TRUE, id |-> NoFile]
    <3>1. k # "link"
      BY <1>2, <1>8, Zenon DEF Discipline
    <3>2. o.absent = Misses(k, f)
      BY <3>1, Zenon DEF Observed
    <3>3. l \in AbsentLines(f, Misses(k, f))
      BY <2>1, <2>3, <1>8, Zenon DEF AbsentLines
    <3>4. Valid(c, g, l)
      BY <3>2, <3>3, Zenon DEF BuildManifest
    <3> QED BY <3>4, <2>1, Zenon DEF Valid
  <2> QED BY <2>2, <2>3, Zenon
<1> QED BY <1>3, <1>6, <1>7, <1>8, Zenon DEF SameFiles, Inputs

\* What a jig is about to put is right for everybody who can reach it.
LEMMA EntryFits ==
  ASSUME Discipline, Shape,
         NEW j \in Jigs, JigInv(j), pc[j] = "put",
         NEW s \in ResultSlots, s \in SlotsFor(obs[j].out.status),
         NEW i \in Jigs, NEW u \in Trees, Reachable(Entry(j, s), i, u)
  PROVE  Fits(s, Entry(j, s).val, i, ViewOf(BuildOf[i], u))
<1> DEFINE t == tree[BuildOf[j]]
           f == ViewFor(j)
           g == ViewOf(BuildOf[i], u)
           k == KindOf[j]
           o == Observed(k, f)
<1>1. t \in Trees /\ f = ViewOf(BuildOf[j], t)
  BY ToolchainAssumption, Zenon DEF Shape, ViewFor, View
<1>2. obs[j] = o /\ Storable(j, o) /\ key[j] = RequestKey(j, f)
  BY Zenon DEF JigInv
<1>3. man[j] = BuildManifest(BuildOf[j], f, o.reads, o.absent)
  BY <1>2, Zenon DEF JigInv, ManifestFor
<1>4. s # "m"
  BY Zenon DEF ResultSlots
<1>5. Entry(j, s).req = key[j] /\ Entry(j, s).man = man[j]
  BY <1>4, Zenon DEF Entry
<1>6. /\ RequestKey(i, g) = RequestKey(j, f)
      /\ \A l \in BuildManifest(BuildOf[j], f, o.reads, o.absent) : Valid(BuildOf[i], g, l)
  BY <1>2, <1>3, <1>5, Zenon DEF Reachable
<1>7. KindOf[i] = k /\ SameFiles(f, g, Inputs(k, f))
  BY <1>1, <1>6, SameInputs
<1>8. f \in Files /\ g \in Files /\ k \in Kinds
  BY <1>1, ViewIsFiles, ToolchainAssumption
<1>9. Output(k, g) = Output(k, f) /\ Reads(k, g) = Reads(k, f)
  BY <1>7, <1>8, CompilerAssumption, Zenon
<1>10. o.out = Output(k, f) /\ o.reads = Reads(k, f)
  BY Zenon DEF Observed
<1>11. MaskOut(i, Output(k, f).object) = MaskOut(j, Output(k, f).object)
  <2>1. PathsIn(BuildOf[i]) = PathsIn(BuildOf[j])
    BY <1>6, <1>7, <1>8, Zenon DEF RequestKey, Discipline, Kinds
  <2> QED BY <1>6, <2>1, Zenon DEF MaskOut, RequestKey
<1>12. CASE s = "r"
  <2>1. Entry(j, s).val = Output(k, f).status
    BY <1>12, <1>2, <1>10, Zenon DEF Entry
  <2>2. Output(k, f).status # "ok"
    BY <1>12, <1>2, <1>10, Zenon DEF SlotsFor
  <2> QED BY <1>12, <2>1, <2>2, <1>7, <1>9, Zenon DEF Fits
<1>13. CASE s \in {"o", "d"}
  <2>1. Output(k, f).status = "ok"
    BY <1>13, <1>2, <1>10, Zenon DEF SlotsFor
  <2>2. CASE s = "o"
    <3>1. Entry(j, s).val = MaskOut(j, Output(k, f).object)
      BY <2>2, <1>2, <1>10, Zenon DEF Entry
    <3> QED BY <2>1, <2>2, <3>1, <1>7, <1>9, <1>11, Zenon DEF Fits
  <2>3. CASE s = "d"
    <3>1. Entry(j, s).val = Reads(k, f)
      BY <2>3, <1>2, <1>10, Zenon DEF Entry
    <3> QED BY <2>1, <2>3, <3>1, <1>7, <1>9, Zenon DEF Fits
  <2> QED BY <1>13, <2>2, <2>3, Zenon
<1>14. CASE s = "e"
  <2>1. Entry(j, s).val = Output(k, f).err
    BY <1>14, <1>2, <1>10, Zenon DEF Entry
  <2> QED BY <1>14, <2>1, <1>7, <1>9, Zenon DEF Fits
<1> QED BY <1>12, <1>13, <1>14, Zenon DEF ResultSlots

----------------------------------------------------------------------------
(* The invariant is kept *)

\* The invariant holds before the first call of jig.
LEMMA InitInv == Init => IInv
<1> SUFFICES ASSUME Init PROVE IInv
  BY Zenon
<1>1. Shape
  BY ToolchainAssumption, Zenon DEF Init, Shape, PCs
<1>2. EntriesSound
  BY Zenon DEF Init, EntriesSound, CacheSlots
<1>3. \A j \in Jigs : JigInv(j)
  BY Zenon DEF Init, JigInv
<1> QED BY <1>1, <1>2, <1>3, Zenon DEF IInv

\* Entries that were right stay right; forgetting some harms nobody.
LEMMA FewerEntries ==
  ASSUME EntriesSound, \A s \in ResultSlots : cache'[s] \subseteq cache[s]
  PROVE  EntriesSound'
  BY Zenon DEF EntriesSound, Reachable

\* A jig does not notice what others do.
LEMMA OtherJig ==
  ASSUME NEW i \in Jigs, JigInv(i), tree'[BuildOf[i]] = tree[BuildOf[i]],
         pc'[i] = pc[i], key'[i] = key[i], man'[i] = man[i], obs'[i] = obs[i],
         toPut'[i] = toPut[i]
  PROVE  JigInv(i)'
<1>1. ViewFor(i)' = ViewFor(i)
  BY Zenon DEF ViewFor, View
<1>2. ManifestFor(i)' = ManifestFor(i)
  BY <1>1, Zenon DEF ManifestFor
<1> QED BY <1>1, <1>2, Zenon DEF JigInv

\* A step of jig j that leaves the cache alone has to keep j's own facts only.
LEMMA OwnStep ==
  ASSUME IInv, NEW j \in Jigs, UNCHANGED <<tree, cache>>, Shape', JigInv(j)',
         \A i \in Jigs \ {j} :
           /\ pc'[i] = pc[i] /\ key'[i] = key[i] /\ man'[i] = man[i]
           /\ obs'[i] = obs[i] /\ toPut'[i] = toPut[i]
  PROVE  IInv'
<1>1. EntriesSound'
  BY FewerEntries, Zenon DEF IInv
<1>2. \A i \in Jigs \ {j} : JigInv(i)'
  BY OtherJig, Zenon DEF IInv
<1> QED BY <1>1, <1>2, Zenon DEF IInv

\* A jig that returns knows nothing any more.
LEMMA ReturnInv ==
  ASSUME IInv, NEW j \in Jigs, Return(j), UNCHANGED <<tree, cache>>
  PROVE  IInv'
<1>1. Shape'
  BY Zenon DEF IInv, Shape, Return, PCs
<1>2. pc'[j] = "idle"
  BY Zenon DEF IInv, Shape, Return
<1>3. JigInv(j)'
  BY <1>2, Zenon DEF JigInv
<1> QED BY <1>1, <1>3, OwnStep, Zenon DEF IInv, Shape, Return

\* The steps up to the compiler run.
LEMMA LookupInv ==
  ASSUME IInv, NEW j \in Jigs,
         Begin(j) \/ RunUncached(j) \/ FindResult(j) \/ ValidateManifest(j) \/ Lookup(j)
  PROVE  IInv'
<1>1. CASE Begin(j)
  <2>1. Shape'
    BY <1>1, Zenon DEF IInv, Shape, Begin, PCs
  <2>2. ViewFor(j)' = ViewFor(j)
    BY <1>1, Zenon DEF Begin, ViewFor, View
  <2>3. JigInv(j)'
    BY <1>1, <2>2, Zenon DEF IInv, Shape, Begin, JigInv
  <2> QED BY <1>1, <2>1, <2>3, OwnStep, Zenon DEF IInv, Shape, Begin
<1>2. CASE RunUncached(j)
  BY <1>2, ReturnInv, Zenon DEF RunUncached
<1>3. CASE FindResult(j)
  <2>1. Shape'
    BY <1>3, Zenon DEF IInv, Shape, FindResult, PCs
  <2>2. ViewFor(j)' = ViewFor(j)
    BY <1>3, Zenon DEF FindResult, ViewFor, View
  <2>3. JigInv(j)'
    BY <1>3, <2>2, Zenon DEF IInv, Shape, FindResult, JigInv
  <2> QED BY <1>3, <2>1, <2>3, OwnStep, Zenon DEF IInv, Shape, FindResult
<1>4. CASE ValidateManifest(j)
  <2>1. Shape' /\ pc'[j] \in {"fetch", "compile"}
    BY <1>4, Zenon DEF IInv, Shape, ValidateManifest, PCs
  <2>2. ViewFor(j)' = ViewFor(j)
    BY <1>4, Zenon DEF ValidateManifest, ViewFor, View
  <2>3. JigInv(j)'
    BY <1>4, <2>1, <2>2, Zenon DEF IInv, Shape, ValidateManifest, JigInv
  <2> QED BY <1>4, <2>1, <2>3, OwnStep, Zenon DEF IInv, Shape, ValidateManifest
<1>5. CASE Lookup(j)
  <2>1. \/ Return(j) /\ UNCHANGED <<tree, cache>>
        \/ /\ pc[j] = "fetch" /\ pc' = [pc EXCEPT ![j] = "compile"]
           /\ UNCHANGED <<tree, cache, key, man, obs, toPut>>
    BY <1>5, Zenon DEF Lookup
  <2>2. CASE Return(j) /\ UNCHANGED <<tree, cache>>
    BY <2>2, ReturnInv, Zenon
  <2>3. CASE /\ pc[j] = "fetch" /\ pc' = [pc EXCEPT ![j] = "compile"]
             /\ UNCHANGED <<tree, cache, key, man, obs, toPut>>
    <3>1. Shape'
      BY <2>3, Zenon DEF IInv, Shape, PCs
    <3>2. ViewFor(j)' = ViewFor(j)
      BY <2>3, Zenon DEF ViewFor, View
    <3>3. JigInv(j)'
      BY <2>3, <3>2, Zenon DEF IInv, Shape, JigInv
    <3> QED BY <2>3, <3>1, <3>3, OwnStep, Zenon DEF IInv, Shape
  <2> QED BY <2>1, <2>2, <2>3, Zenon
<1> QED BY <1>1, <1>2, <1>3, <1>4, <1>5, Zenon

\* The compiler run and the hashing after it: the files are the same in between.
LEMMA CompileInv ==
  ASSUME IInv, NEW j \in Jigs, Compile(j) \/ HashInputs(j)
  PROVE  IInv'
<1>1. CASE Compile(j)
  <2>1. PICK o \in {Observed(KindOf[j], ViewFor(j)), Killed} :
          IF Storable(j, o)
          THEN /\ pc' = [pc EXCEPT ![j] = "manifest"]
               /\ obs' = [obs EXCEPT ![j] = o]
               /\ UNCHANGED <<key, man, toPut>>
          ELSE Return(j)
    BY <1>1, Zenon DEF Compile
  <2>2. pc[j] = "compile" /\ UNCHANGED <<tree, cache>>
    BY <1>1, Zenon DEF Compile
  <2>3. CASE ~Storable(j, o)
    BY <2>1, <2>2, <2>3, ReturnInv, Zenon
  <2>4. CASE Storable(j, o)
    <3>1. o = Observed(KindOf[j], ViewFor(j))
      BY <2>4 DEF Storable, Killed
    <3>2. Shape'
      BY <2>1, <2>2, <2>4, Zenon DEF IInv, Shape, PCs
    <3>3. ViewFor(j)' = ViewFor(j)
      BY <2>2, Zenon DEF ViewFor, View
    <3>4. pc'[j] = "manifest" /\ obs'[j] = o /\ key'[j] = key[j]
      BY <2>1, <2>4, Zenon DEF IInv, Shape
    <3>5. JigInv(j)'
      BY <2>2, <2>4, <3>1, <3>3, <3>4, Zenon DEF IInv, JigInv, Storable
    <3> QED BY <2>1, <2>2, <2>4, <3>2, <3>5, OwnStep, Zenon DEF IInv, Shape
  <2> QED BY <2>3, <2>4, Zenon
<1>2. CASE HashInputs(j)
  <2>1. Shape'
    BY <1>2, Zenon DEF IInv, Shape, HashInputs, PCs
  <2>2. ViewFor(j)' = ViewFor(j)
    BY <1>2, Zenon DEF HashInputs, ViewFor, View
  <2>3. /\ pc[j] = "manifest" /\ pc'[j] = "put" /\ obs' = obs /\ key' = key
        /\ man'[j] = ManifestFor(j) /\ toPut'[j] = PutOrder(j)
    BY <1>2, Zenon DEF IInv, Shape, HashInputs, ManifestFor
  <2>4. PutOrder(j) \in Seq(SlotsFor(obs[j].out.status))
    <3>1. CASE obs[j].out.status = "ok"
      <4>1. PutOrder(j) \in {<<"m", "o", "e">>, <<"m", "o", "e", "d">>}
        BY <3>1, Zenon DEF PutOrder
      <4>2. SlotsFor(obs[j].out.status) = {"m", "o", "e", "d"}
        BY <3>1, Zenon DEF SlotsFor
      <4>3. <<"m", "o", "e">> \in Seq({"m", "o", "e", "d"})
        OBVIOUS
      <4>4. <<"m", "o", "e", "d">> \in Seq({"m", "o", "e", "d"})
        OBVIOUS
      <4> QED BY <4>1, <4>2, <4>3, <4>4, Zenon
    <3>2. CASE obs[j].out.status # "ok"
      <4>1. PutOrder(j) = <<"m", "r", "e">>
        BY <3>2, Zenon DEF PutOrder
      <4>2. SlotsFor(obs[j].out.status) = {"m", "r", "e"}
        BY <3>2, Zenon DEF SlotsFor
      <4> QED BY <4>1, <4>2
    <3> QED BY <3>1, <3>2, Zenon
  <2>5. ManifestFor(j)' = ManifestFor(j)
    BY <2>2, <2>3, Zenon DEF ManifestFor
  <2>6. JigInv(j)'
    BY <2>2, <2>3, <2>4, <2>5, Zenon DEF IInv, JigInv, Storable
  <2> QED BY <1>2, <2>1, <2>6, OwnStep, Zenon DEF IInv, Shape, HashInputs
<1> QED BY <1>1, <1>2, Zenon

\* A Put adds an entry that EntryFits has shown right.
LEMMA PutInv ==
  ASSUME Discipline, IInv, NEW j \in Jigs, Put(j)
  PROVE  IInv'
<1> DEFINE s == Head(toPut[j])
           e == Entry(j, s)
<1>1. /\ pc[j] = "put" /\ toPut[j] # <<>>
      /\ cache' = [cache EXCEPT ![s] = {x \in @ : x.req # e.req \/ x.man # e.man} \cup {e}]
      /\ toPut' = [toPut EXCEPT ![j] = Tail(@)]
      /\ UNCHANGED <<tree, pc, key, man, obs>>
  BY Zenon DEF Put
<1>2. JigInv(j) /\ Shape
  BY Zenon DEF IInv
<1>3. toPut[j] \in Seq(SlotsFor(obs[j].out.status))
  BY <1>1, <1>2, Zenon DEF JigInv
<1>4. s \in SlotsFor(obs[j].out.status) /\ Tail(toPut[j]) \in Seq(SlotsFor(obs[j].out.status))
  <2> DEFINE S == SlotsFor(obs[j].out.status)
  <2>1. \A q \in Seq(S) : q # <<>> => Head(q) \in S /\ Tail(q) \in Seq(S)
    <3> HIDE DEF S
    <3> QED OBVIOUS
  <2> QED BY <1>1, <1>3, <2>1, Zenon
<1>5. s \in CacheSlots
  BY <1>4, Zenon DEF SlotsFor, CacheSlots, ResultSlots
<1>6. Shape'
  BY <1>1, <1>2, Zenon DEF Shape
<1>7. \A i \in Jigs \ {j} : JigInv(i)'
  BY <1>1, <1>2, OtherJig, Zenon DEF IInv, Shape
<1>8. JigInv(j)'
  <2>1. ViewFor(j)' = ViewFor(j)
    BY <1>1, Zenon DEF ViewFor, View
  <2>2. ManifestFor(j)' = ManifestFor(j)
    BY <1>1, <2>1, Zenon DEF ManifestFor
  <2>3. toPut'[j] = Tail(toPut[j])
    BY <1>1, <1>2, Zenon DEF Shape
  <2> QED BY <1>1, <1>2, <1>4, <2>1, <2>2, <2>3, Zenon DEF JigInv, Storable
<1>9. EntriesSound'
  <2> SUFFICES ASSUME NEW r \in ResultSlots, NEW x \in cache'[r], NEW i \in Jigs, NEW u \in Trees,
                      Reachable(x, i, u)
               PROVE  Fits(r, x.val, i, ViewOf(BuildOf[i], u))
    BY Zenon DEF EntriesSound, Reachable
  <2>1. x \in cache[r] \/ (r = s /\ x = e)
    BY <1>1, <1>2, <1>5, Zenon DEF Shape, CacheSlots
  <2>2. CASE x \in cache[r]
    BY <2>2, Zenon DEF IInv, EntriesSound
  <2>3. CASE r = s /\ x = e
    BY <2>3, <1>1, <1>2, <1>4, EntryFits, Zenon
  <2> QED BY <2>1, <2>2, <2>3, Zenon
<1> QED BY <1>6, <1>7, <1>8, <1>9, Zenon DEF IInv

\* The steps of the build and of the daemon.
LEMMA WorldInv ==
  ASSUME Discipline, IInv,
         (\E b \in Builds, p \in Tree, c \in Contents \cup {NoFile} : Edit(b, p, c)) \/ Evict
  PROVE  IInv'
<1>1. CASE \E b \in Builds, p \in Tree, c \in Contents \cup {NoFile} : Edit(b, p, c)
  <2>1. PICK b \in Builds, p \in Tree, c \in Contents \cup {NoFile} : Edit(b, p, c)
    BY <1>1, Zenon
  <2>2. Shape'
    BY <2>1, Zenon DEF IInv, Shape, Edit, jigVars, Trees
  <2>3. EntriesSound'
    BY <2>1, FewerEntries, Zenon DEF IInv, Edit
  <2>4. ASSUME NEW j \in Jigs PROVE JigInv(j)'
    <3>1. CASE BuildOf[j] = b
      <4>1. pc'[j] = "idle"
        BY <2>1, <3>1, Zenon DEF Edit, Discipline, jigVars
      <4> QED BY <4>1, Zenon DEF JigInv
    <3>2. CASE BuildOf[j] # b
      <4>1. tree'[BuildOf[j]] = tree[BuildOf[j]]
        BY <2>1, <3>2, ToolchainAssumption, Zenon DEF IInv, Shape, Edit
      <4> QED BY <2>1, <4>1, OtherJig, Zenon DEF IInv, Edit, jigVars
    <3> QED BY <3>1, <3>2, Zenon
  <2> QED BY <2>2, <2>3, <2>4, Zenon DEF IInv
<1>2. CASE Evict
  <2>1. Shape'
    BY <1>2, Zenon DEF IInv, Shape, Evict, jigVars
  <2>2. \A s \in ResultSlots : cache'[s] \subseteq cache[s]
    BY <1>2, Zenon DEF IInv, Shape, Evict, CacheSlots
  <2>3. EntriesSound'
    BY <2>2, FewerEntries, Zenon DEF IInv
  <2>4. \A j \in Jigs : JigInv(j)'
    BY <1>2, OtherJig, Zenon DEF IInv, Evict, jigVars
  <2> QED BY <2>1, <2>3, <2>4, Zenon DEF IInv
<1> QED BY <1>1, <1>2, Zenon

\* Every step keeps the invariant.
LEMMA NextInv ==
  ASSUME Discipline, IInv, [Next]_vars
  PROVE  IInv'
<1>1. ASSUME NEW j \in Jigs, JigStep(j) PROVE IInv'
  <2>1. CASE Begin(j) \/ RunUncached(j) \/ FindResult(j) \/ ValidateManifest(j) \/ Lookup(j)
    BY <2>1, LookupInv, Zenon
  <2>2. CASE Compile(j) \/ HashInputs(j)
    BY <2>2, CompileInv, Zenon
  <2>3. CASE Put(j)
    BY <2>3, PutInv, Zenon
  <2>4. CASE Exit(j)
    BY <2>4, ReturnInv, Zenon DEF Exit
  <2> QED BY <1>1, <2>1, <2>2, <2>3, <2>4, Zenon DEF JigStep
<1>2. CASE (\E b \in Builds, p \in Tree, c \in Contents \cup {NoFile} : Edit(b, p, c)) \/ Evict
  BY <1>2, WorldInv, Zenon
<1>3. CASE UNCHANGED vars
  <2>1. Shape'
    BY <1>3, Zenon DEF IInv, Shape, vars
  <2>2. EntriesSound'
    BY <1>3, FewerEntries, Zenon DEF IInv, vars
  <2>3. \A j \in Jigs : JigInv(j)'
    BY <1>3, OtherJig, Zenon DEF IInv, vars
  <2> QED BY <2>1, <2>2, <2>3, Zenon DEF IInv
<1> QED BY <1>1, <1>2, <1>3, Zenon DEF Next

\* Whoever reaches a stored result would get the same from the compiler, for every
\* number of jigs and builds and every deterministic compiler, if nobody edits the
\* tree under a running jig, rebuilt dependencies have files where the old ones had,
\* links do not search and compiles embed no path of a rebuilt dependency.
THEOREM Soundness == Discipline => (Spec => []EntriesSound)
<1> SUFFICES ASSUME Discipline PROVE Spec => []EntriesSound
  BY Zenon
<1>1. Init => IInv
  BY InitInv, Zenon
<1>2. IInv /\ [Next]_vars => IInv'
  BY NextInv, Zenon
<1>3. IInv => EntriesSound
  BY Zenon DEF IInv
<1> QED BY <1>1, <1>2, <1>3, PTL DEF Spec

----------------------------------------------------------------------------
(* jig is the compiler *)

\* Between its first look at the source and its return a jig has a source, and when it
\* fetches results its manifest is valid.
FetchInv(j) ==
  /\ pc[j] \notin {"idle", "plain"} => ViewFor(j)[Source] # NoFile
  /\ pc[j] = "fetch" => \A l \in man[j] : Valid(BuildOf[j], ViewFor(j), l)

ReplayInv == DOMAIN result = Jigs /\ \A j \in Jigs : FetchInv(j)

Busy == [j \in Jigs |-> pc[j] \in {"plain", "lookup", "validate", "fetch", "compile"}]

\* What the abstract compiler shows of a result.
Shown ==
  [j \in Jigs |-> IF result[j] \in {NoResult, Failed} THEN result[j]
                  ELSE [status |-> result[j].status, object |-> result[j].object,
                        dep |-> result[j].dep]]

\* Steps of others, and of the build as long as this jig is idle, are not noticed.
LEMMA OtherFetch ==
  ASSUME NEW i \in Jigs, FetchInv(i), tree'[BuildOf[i]] = tree[BuildOf[i]],
         pc'[i] = pc[i], man'[i] = man[i]
  PROVE  FetchInv(i)'
<1>1. ViewFor(i)' = ViewFor(i)
  BY Zenon DEF ViewFor, View
<1> QED BY <1>1, Zenon DEF FetchInv

\* A jig that returns has nothing to keep.
LEMMA IdleFetch ==
  ASSUME NEW i \in Jigs, pc'[i] = "idle"
  PROVE  FetchInv(i)'
  BY Zenon DEF FetchInv

\* Every step keeps the manifest valid that results are fetched by.
LEMMA ReplayNext ==
  ASSUME Discipline, IInv, ReplayInv, [Next]_vars
  PROVE  ReplayInv'
<1>1. Shape
  BY Zenon DEF IInv
<1>2. ASSUME NEW j \in Jigs, JigStep(j) PROVE ReplayInv'
  <2>1. tree' = tree /\ DOMAIN result' = Jigs
    BY <1>2, Zenon DEF JigStep, Begin, RunUncached, FindResult, ValidateManifest, Lookup, Compile,
                HashInputs, Put, Exit, ReplayInv
  <2>2. \A i \in Jigs \ {j} : pc'[i] = pc[i] /\ man'[i] = man[i]
    BY <1>1, <1>2, Zenon DEF Shape, JigStep, Begin, RunUncached, FindResult, ValidateManifest, Lookup,
                Compile, HashInputs, Put, Exit, Return
  <2>3. \A i \in Jigs \ {j} : FetchInv(i)'
    BY <2>1, <2>2, OtherFetch, Zenon DEF ReplayInv
  <2>4. ViewFor(j)' = ViewFor(j)
    BY <2>1, Zenon DEF ViewFor, View
  <2>5. FetchInv(j)'
    <3>1. FetchInv(j)
      BY Zenon DEF ReplayInv
    <3>2. CASE Begin(j)
      BY <1>1, <2>4, <3>2, Zenon DEF Begin, FetchInv, Shape
    <3>3. CASE ValidateManifest(j)
      BY <1>1, <2>4, <3>1, <3>3, Zenon DEF ValidateManifest, FetchInv, Shape
    <3>4. CASE RunUncached(j) \/ Exit(j)
      BY <1>1, <3>4, IdleFetch, Zenon DEF RunUncached, Exit, Return, Shape
    <3>5. CASE FindResult(j)
      BY <1>1, <2>4, <3>1, <3>5, Zenon DEF FindResult, FetchInv, Shape
    <3>6. CASE Lookup(j)
      <4>1. pc'[j] \in {"idle", "compile"} /\ pc[j] = "fetch"
        BY <1>1, <3>6, Zenon DEF Lookup, Return, Shape
      <4> QED BY <2>4, <3>1, <4>1, Zenon DEF FetchInv
    <3>7. CASE Compile(j)
      <4>1. pc'[j] \in {"idle", "manifest"} /\ pc[j] = "compile"
        BY <1>1, <3>7, Zenon DEF Compile, Return, Shape
      <4> QED BY <2>4, <3>1, <4>1, Zenon DEF FetchInv
    <3>8. CASE HashInputs(j) \/ Put(j)
      <4>1. pc'[j] = "put" /\ pc[j] \in {"manifest", "put"}
        BY <1>1, <3>8, Zenon DEF HashInputs, Put, Shape
      <4> QED BY <2>4, <3>1, <4>1, Zenon DEF FetchInv
    <3> QED BY <1>2, <3>2, <3>3, <3>4, <3>5, <3>6, <3>7, <3>8, Zenon DEF JigStep
  <2> QED BY <2>1, <2>3, <2>5, Zenon DEF ReplayInv
<1>3. ASSUME NEW b \in Builds, NEW p \in Tree, NEW c \in Contents \cup {NoFile}, Edit(b, p, c)
      PROVE  ReplayInv'
  <2>1. ASSUME NEW j \in Jigs PROVE FetchInv(j)'
    <3>1. CASE BuildOf[j] = b
      <4>1. pc'[j] = "idle"
        BY <1>3, <3>1, Zenon DEF Edit, Discipline, jigVars
      <4> QED BY <4>1, IdleFetch, Zenon
    <3>2. CASE BuildOf[j] # b
      <4>1. tree'[BuildOf[j]] = tree[BuildOf[j]]
        BY <1>1, <1>3, <3>2, ToolchainAssumption, Zenon DEF Shape, Edit
      <4> QED BY <1>3, <4>1, OtherFetch, Zenon DEF ReplayInv, Edit, jigVars
    <3> QED BY <3>1, <3>2, Zenon
  <2> QED BY <1>3, <2>1, Zenon DEF ReplayInv, Edit, jigVars
<1>4. CASE Evict \/ UNCHANGED vars
  <2>1. UNCHANGED <<tree, pc, man, result>>
    BY <1>4, Zenon DEF Evict, jigVars, vars
  <2> QED BY <2>1, OtherFetch, Zenon DEF ReplayInv
<1> QED BY <1>2, <1>3, <1>4, Zenon DEF Next

\* An answer from the cache is what the compiler would make now.
LEMMA AnswerFits ==
  ASSUME IInv, ReplayInv, NEW j \in Jigs, pc[j] = "fetch",
         NEW s \in ResultSlots, Entries(j, s) # {}
  PROVE  Fits(s, Answer(j, s), j, ViewFor(j))
<1> DEFINE e == CHOOSE x \in Entries(j, s) : TRUE
           t == tree[BuildOf[j]]
<1>1. e \in Entries(j, s)
  BY Zenon
<1>2. e \in cache[s] /\ e.req = key[j] /\ e.man = man[j]
  BY <1>1, Zenon DEF Entries
<1>3. t \in Trees /\ ViewFor(j) = ViewOf(BuildOf[j], t)
  BY ToolchainAssumption, Zenon DEF IInv, Shape, ViewFor, View
<1>4. /\ key[j] = RequestKey(j, ViewFor(j))
      /\ ViewFor(j)[Source] # NoFile
      /\ \A l \in man[j] : Valid(BuildOf[j], ViewFor(j), l)
  BY Zenon DEF IInv, JigInv, ReplayInv, FetchInv
<1> HIDE DEF e
<1>5. Reachable(e, j, t)
  BY <1>2, <1>3, <1>4, Zenon DEF Reachable
<1>6. Fits(s, e.val, j, ViewOf(BuildOf[j], t))
  BY <1>2, <1>3, <1>5, Zenon DEF IInv, EntriesSound
<1> QED BY <1>3, <1>6, Zenon DEF Answer, e

\* A replay returns what the compiler would, but for the warnings that may be lost.
LEMMA ReplayIsResult ==
  ASSUME IInv, ReplayInv, NEW j \in Jigs, pc[j] = "fetch",
         NEW got \in SUBSET {s \in ResultSlots : Entries(j, s) # {}}, Usable(j, got)
  PROVE  \E err \in {NoFile, Output(KindOf[j], ViewFor(j)).err} :
           Replayed(j, got) = [Result(j, ViewFor(j)) EXCEPT !.err = err]
<1> DEFINE f == ViewFor(j)
           o == Output(KindOf[j], f)
<1>1. \A s \in got : s \in ResultSlots /\ Fits(s, Answer(j, s), j, f)
  BY AnswerFits, Zenon
<1>2. "e" \in got => Answer(j, "e") = o.err
  BY <1>1, Zenon DEF Fits
<1> DEFINE err == IF "e" \in got THEN Answer(j, "e") ELSE NoFile
<1>3. err \in {NoFile, o.err}
  BY <1>2, Zenon
<1>4. CASE Failure(j, got)
  <2>1. Answer(j, "r") = o.status /\ o.status # "ok"
    BY <1>1, <1>4, Zenon DEF Failure, Fits
  <2>2. Replayed(j, got) = [status |-> o.status, object |-> NoFile, dep |-> {}, err |-> err]
    BY <1>4, <2>1, Zenon DEF Replayed
  <2>3. [Result(j, f) EXCEPT !.err = err]
          = [status |-> o.status, object |-> NoFile, dep |-> {}, err |-> err]
    BY <2>1 DEF Result
  <2> QED BY <1>3, <2>2, <2>3, Zenon
<1>5. CASE ~Failure(j, got)
  <2>1. "o" \in got /\ (WantsDep[j] => "d" \in got)
    BY <1>5, Zenon DEF Usable
  <2>2. o.status = "ok" /\ Answer(j, "o") = MaskOut(j, o.object)
    BY <1>1, <2>1, Zenon DEF Fits
  <2>3. WantsDep[j] => Answer(j, "d") = Reads(KindOf[j], f)
    BY <1>1, <2>1, Zenon DEF Fits
  <2> DEFINE object == [text |-> o.object, out |-> OutOf[BuildOf[j]], paths |-> PathsIn(BuildOf[j])]
             dep == IF WantsDep[j] THEN Reads(KindOf[j], f) ELSE {}
  <2>4. UnmaskOut(j, Answer(j, "o")) = object
    BY <2>2 DEF UnmaskOut, MaskOut
  <2>5. Replayed(j, got) = [status |-> "ok", object |-> object, dep |-> dep, err |-> err]
    <3>1. (IF Failure(j, got) \/ ~WantsDep[j] THEN {} ELSE Answer(j, "d")) = dep
      BY <1>5, <2>3, Zenon
    <3> HIDE DEF object, dep, err
    <3> QED BY <1>5, <2>4, <3>1, Zenon DEF Replayed, err
  <2>6. [Result(j, f) EXCEPT !.err = err] = [status |-> "ok", object |-> object, dep |-> dep, err |-> err]
    <3>1. Result(j, f) = [status |-> "ok", object |-> object, dep |-> dep, err |-> o.err]
      BY <2>2, Zenon DEF Result
    <3> HIDE DEF object, dep, err
    <3> QED BY <3>1
  <2> QED BY <1>3, <2>5, <2>6, Zenon
<1> QED BY <1>4, <1>5, Zenon

\* A call that returns this result is a step of the compiler.
LEMMA FinishStep ==
  ASSUME IInv, ReplayInv, NEW j \in Jigs, Busy[j], UNCHANGED tree,
         NEW p \in {"idle", "manifest"}, pc' = [pc EXCEPT ![j] = p],
         NEW r, result' = [result EXCEPT ![j] = r],
         \/ r = Failed
         \/ \E err \in {NoFile, Output(KindOf[j], ViewFor(j)).err} :
              r = [Result(j, ViewFor(j)) EXCEPT !.err = err]
  PROVE  Plain!Finish(j)
<1>1. Shape /\ DOMAIN result = Jigs
  BY Zenon DEF IInv, ReplayInv
<1>2. Busy' = [Busy EXCEPT ![j] = FALSE]
  <2> DEFINE S == {"plain", "lookup", "validate", "fetch", "compile"}
  <2>1. \A i \in Jigs : (pc'[i] \in S) = (IF i = j THEN FALSE ELSE pc[i] \in S)
    <3>1. pc'[j] \notin S /\ \A i \in Jigs : i # j => pc'[i] = pc[i]
      BY <1>1, Zenon DEF Shape
    <3> HIDE DEF S
    <3>2. ASSUME NEW i \in Jigs, i # j PROVE (pc'[i] \in S) = (IF i = j THEN FALSE ELSE pc[i] \in S)
      <4>1. pc'[i] = pc[i]
        BY <3>1, <3>2, Zenon
      <4> DEFINE was == pc[i] \in S
                 is == IF i = j THEN FALSE ELSE was
      <4>2. is = was
        BY <3>2, Zenon
      <4>3. (pc'[i] \in S) = was
        BY <4>1, Zenon
      <4> HIDE DEF is, was
      <4>4. (pc'[i] \in S) = is
        BY <4>2, <4>3, Zenon
      <4> QED BY <4>4, Zenon DEF is, was
    <3>3. (pc'[j] \in S) = FALSE
      BY <3>1
    <3> QED BY <3>2, <3>3, Zenon
  <2> HIDE DEF S
  <2>2. Busy = [i \in Jigs |-> pc[i] \in S] /\ Busy' = [i \in Jigs |-> pc'[i] \in S]
    BY Zenon DEF Busy, S
  <2>3. [i \in Jigs |-> pc'[i] \in S] = [i \in Jigs |-> IF i = j THEN FALSE ELSE pc[i] \in S]
    BY <2>1, Zenon
  <2>4. [[i \in Jigs |-> pc[i] \in S] EXCEPT ![j] = FALSE]
          = [i \in Jigs |-> IF i = j THEN FALSE ELSE pc[i] \in S]
    BY Zenon
  <2> QED BY <2>2, <2>3, <2>4, Zenon
<1>3. CASE r = Failed
  <2>1. Shown' = [Shown EXCEPT ![j] = Failed]
    BY <1>1, <1>3, Zenon DEF Shown
  <2> QED BY <1>2, <2>1, Zenon DEF Plain!Finish, Busy, Shown
<1>4. CASE r # Failed
  <2>1. PICK err \in {NoFile, Output(KindOf[j], ViewFor(j)).err} :
          r = [Result(j, ViewFor(j)) EXCEPT !.err = err]
    BY <1>4, Zenon
  <2>2. ViewFor(j) \in Files /\ ViewFor(j) = ViewOf(BuildOf[j], tree[BuildOf[j]])
    BY <1>1, ViewIsFiles, ToolchainAssumption, Zenon DEF Shape, ViewFor, View
  <2>3. r \notin {NoResult, Failed}
    BY <2>1, <2>2, CompileCacheAssumption, Zenon
  <2> DEFINE x == Result(j, ViewFor(j))
             v == [status |-> x.status, object |-> x.object, dep |-> x.dep]
  <2>4. r.status = x.status /\ r.object = x.object /\ r.dep = x.dep
    BY <2>1, Zenon DEF Result
  <2>5. Shown' = [Shown EXCEPT ![j] = v]
    <3> HIDE DEF x
    <3> QED BY <1>1, <2>3, <2>4, Zenon DEF Shown
  <2>6. v = Plain!Visible(Plain!Result(j, Plain!ViewOf(BuildOf[j], tree[BuildOf[j]])))
    BY <2>2, Zenon DEF Plain!Visible, Plain!Result, Plain!ViewOf, Result, ViewOf, Plain!PathsIn, PathsIn,
                Plain!Paths, Paths
  <2> QED BY <1>2, <2>5, <2>6, Zenon DEF Plain!Finish, Busy, Shown
<1> QED BY <1>3, <1>4, Zenon

\* A step that returns nothing and starts nothing is none of the compiler.
LEMMA QuietStep ==
  ASSUME NEW j \in Jigs, IInv, UNCHANGED <<tree, result>>, NEW p \in PCs,
         pc' = [pc EXCEPT ![j] = p],
         \/ {p, pc[j]} \subseteq {"plain", "lookup", "validate", "fetch", "compile"}
         \/ {p, pc[j]} \subseteq {"idle", "manifest", "put"}
  PROVE  UNCHANGED <<tree, Busy, Shown>>
<1> DEFINE S == {"plain", "lookup", "validate", "fetch", "compile"}
<1>1. \A i \in Jigs : (pc'[i] \in S) = (pc[i] \in S)
  <2>1. /\ (p \in S /\ pc[j] \in S) \/ (p \notin S /\ pc[j] \notin S)
        /\ pc'[j] = p /\ \A i \in Jigs : i # j => pc'[i] = pc[i]
    BY Zenon DEF IInv, Shape
  <2> HIDE DEF S
  <2>2. (pc'[j] \in S) = (pc[j] \in S)
    BY <2>1
  <2>3. ASSUME NEW i \in Jigs, i # j PROVE (pc'[i] \in S) = (pc[i] \in S)
    BY <2>1, <2>3, Zenon
  <2> QED BY <2>2, <2>3, Zenon
<1>2. Busy' = Busy
  <2> HIDE DEF S
  <2>1. Busy = [i \in Jigs |-> pc[i] \in S] /\ Busy' = [i \in Jigs |-> pc'[i] \in S]
    BY Zenon DEF Busy, S
  <2> QED BY <1>1, <2>1, Zenon
<1> QED BY <1>2, Zenon DEF Shown

\* Every step of jig is one of the compiler, or none.
LEMMA JigSimulates ==
  ASSUME IInv, ReplayInv, NEW j \in Jigs, JigStep(j)
  PROVE  Plain!Begin(j) \/ Plain!Finish(j) \/ UNCHANGED <<tree, Busy, Shown>>
<1>1. Shape /\ DOMAIN result = Jigs /\ pc[j] \in PCs
  BY Zenon DEF IInv, ReplayInv, Shape
<1>2. tree' = tree
  BY Zenon DEF JigStep, Begin, RunUncached, FindResult, ValidateManifest, Lookup, Compile,
         HashInputs, Put, Exit
<1>3. pc[j] \in {"plain", "lookup", "validate", "fetch", "compile"} <=> Busy[j]
  BY Zenon DEF Busy
<1>4. [Result(j, ViewFor(j)) EXCEPT !.err = Output(KindOf[j], ViewFor(j)).err] = Result(j, ViewFor(j))
  BY DEF Result
<1>5. CASE Begin(j)
  <2>1. PICK p \in {"lookup", "plain"} : pc' = [pc EXCEPT ![j] = p]
    BY <1>5, Zenon DEF Begin
  <2>2. Busy' = [Busy EXCEPT ![j] = TRUE]
    <3> DEFINE S == {"plain", "lookup", "validate", "fetch", "compile"}
    <3>1. p \in S /\ \A i \in Jigs : pc'[i] = IF i = j THEN p ELSE pc[i]
      BY <1>1, <2>1, Zenon DEF Shape
    <3> HIDE DEF S
    <3>2. \A i \in Jigs : (pc'[i] \in S) = (IF i = j THEN TRUE ELSE pc[i] \in S)
      BY <3>1, Zenon
    <3>3. Busy = [i \in Jigs |-> pc[i] \in S] /\ Busy' = [i \in Jigs |-> pc'[i] \in S]
      BY Zenon DEF Busy, S
    <3>4. [i \in Jigs |-> pc'[i] \in S] = [i \in Jigs |-> IF i = j THEN TRUE ELSE pc[i] \in S]
      BY <3>2, Zenon
    <3>5. [[i \in Jigs |-> pc[i] \in S] EXCEPT ![j] = TRUE]
            = [i \in Jigs |-> IF i = j THEN TRUE ELSE pc[i] \in S]
      BY Zenon
    <3> QED BY <3>3, <3>4, <3>5, Zenon
  <2>3. Shown' = [Shown EXCEPT ![j] = NoResult]
    BY <1>1, <1>5, Zenon DEF Begin, Shown
  <2>4. ~Busy[j]
    BY <1>3, <1>5, Zenon DEF Begin
  <2> QED BY <1>2, <2>2, <2>3, <2>4, Zenon DEF Plain!Begin, Busy, Shown
<1>6. CASE RunUncached(j)
  <2>1. PICK r \in {Result(j, ViewFor(j)), Failed} : result' = [result EXCEPT ![j] = r]
    BY <1>6, Zenon DEF RunUncached
  <2>2. Busy[j] /\ pc' = [pc EXCEPT ![j] = "idle"]
    BY <1>3, <1>6, Zenon DEF RunUncached, Return
  <2>3. \/ r = Failed
        \/ \E err \in {NoFile, Output(KindOf[j], ViewFor(j)).err} :
             r = [Result(j, ViewFor(j)) EXCEPT !.err = err]
    BY <1>4, <2>1, Zenon
  <2> QED BY <1>2, <2>1, <2>2, <2>3, FinishStep, Zenon
<1>7. CASE Lookup(j)
  <2>1. PICK got \in SUBSET {s \in ResultSlots : Entries(j, s) # {}} :
          IF Usable(j, got)
          THEN /\ \E r \in {Replayed(j, got), Failed} : result' = [result EXCEPT ![j] = r]
               /\ Return(j)
          ELSE /\ pc' = [pc EXCEPT ![j] = "compile"]
               /\ UNCHANGED <<key, man, obs, toPut, result>>
    BY <1>7, Zenon DEF Lookup
  <2>2. pc[j] = "fetch"
    BY <1>7, Zenon DEF Lookup
  <2>3. CASE Usable(j, got)
    <3>1. PICK r \in {Replayed(j, got), Failed} : result' = [result EXCEPT ![j] = r]
      BY <2>1, <2>3, Zenon
    <3>2. \/ r = Failed
          \/ \E err \in {NoFile, Output(KindOf[j], ViewFor(j)).err} :
               r = [Result(j, ViewFor(j)) EXCEPT !.err = err]
      BY <2>2, <2>3, <3>1, ReplayIsResult, Zenon
    <3>3. Busy[j] /\ pc' = [pc EXCEPT ![j] = "idle"]
      BY <1>3, <2>1, <2>2, <2>3, Zenon DEF Return
    <3> QED BY <1>2, <3>1, <3>2, <3>3, FinishStep, Zenon
  <2>4. CASE ~Usable(j, got)
    BY <1>2, <2>1, <2>2, <2>4, QuietStep, Zenon DEF PCs
  <2> QED BY <2>3, <2>4, Zenon
<1>8. CASE Compile(j)
  <2>1. PICK r \in {Failed, Result(j, ViewFor(j))} : result' = [result EXCEPT ![j] = r]
    BY <1>8, Zenon DEF Compile
  <2>2. PICK p \in {"idle", "manifest"} : pc' = [pc EXCEPT ![j] = p]
    BY <1>8, Zenon DEF Compile, Return
  <2>3. Busy[j]
    BY <1>3, <1>8, Zenon DEF Compile
  <2>4. \/ r = Failed
        \/ \E err \in {NoFile, Output(KindOf[j], ViewFor(j)).err} :
             r = [Result(j, ViewFor(j)) EXCEPT !.err = err]
    BY <1>4, <2>1, Zenon
  <2> QED BY <1>2, <2>1, <2>2, <2>3, <2>4, FinishStep, Zenon
<1>9. CASE FindResult(j) \/ ValidateManifest(j)
  <2>1. /\ pc[j] \in {"lookup", "validate"} /\ result' = result
        /\ \E p \in {"validate", "fetch", "compile"} : pc' = [pc EXCEPT ![j] = p]
    BY <1>9, Zenon DEF FindResult, ValidateManifest
  <2> QED BY <1>2, <2>1, QuietStep, Zenon DEF PCs
<1>10. CASE HashInputs(j) \/ Exit(j)
  <2>1. /\ pc[j] \in {"manifest", "put"} /\ result' = result
        /\ \E p \in {"idle", "put"} : pc' = [pc EXCEPT ![j] = p]
    BY <1>10, Zenon DEF HashInputs, Exit, Return
  <2> QED BY <1>2, <2>1, QuietStep, Zenon DEF PCs
<1>11. CASE Put(j)
  BY <1>11, Zenon DEF Put, Busy, Shown
<1> QED BY <1>5, <1>6, <1>7, <1>8, <1>9, <1>10, <1>11, Zenon DEF JigStep

\* jig with its cache is the compiler, for every number of jigs and builds and every
\* deterministic compiler: each call returns what the compiler makes of the files of its
\* build at one instant of the call, or fails for a reason outside of them.
THEOREM JigIsCompiler == Discipline => (Spec => ImplementsCompiler)
<1> SUFFICES ASSUME Discipline PROVE Spec => ImplementsCompiler
  BY Zenon
<1>1. Init => IInv /\ ReplayInv
  <2> SUFFICES ASSUME Init PROVE ReplayInv
    BY InitInv, Zenon
  <2> QED BY Zenon DEF Init, ReplayInv, FetchInv
<1>2. IInv /\ ReplayInv /\ [Next]_vars => IInv' /\ ReplayInv'
  BY NextInv, ReplayNext, Zenon
<1>3. Init => Plain!Init
  <2> SUFFICES ASSUME Init PROVE Plain!Init
    BY Zenon
  <2>1. tree \in [Builds -> Unpacked] /\ Shown = [j \in Jigs |-> NoResult]
    BY Zenon DEF Init, Shown
  <2>2. Busy = [j \in Jigs |-> FALSE]
    <3> DEFINE S == {"plain", "lookup", "validate", "fetch", "compile"}
    <3>1. \A j \in Jigs : pc[j] = "idle" /\ "idle" \notin S
      BY Zenon DEF Init
    <3> HIDE DEF S
    <3>2. \A j \in Jigs : (pc[j] \in S) = FALSE
      BY <3>1
    <3>3. Busy = [j \in Jigs |-> pc[j] \in S]
      BY Zenon DEF Busy, S
    <3> QED BY <3>2, <3>3, Zenon
  <2> QED BY <2>1, <2>2, Zenon DEF Plain!Init, Busy, Shown
<1>4. ASSUME IInv, ReplayInv, [Next]_vars PROVE [Plain!Next]_<<tree, Busy, Shown>>
  <2>1. ASSUME NEW j \in Jigs, JigStep(j) PROVE [Plain!Next]_<<tree, Busy, Shown>>
    BY <1>4, <2>1, JigSimulates, Zenon DEF Plain!Next
  <2>2. ASSUME NEW b \in Builds, NEW p \in Tree, NEW c \in Contents \cup {NoFile}, Edit(b, p, c)
        PROVE  Plain!Next
    BY <2>2, Zenon DEF Plain!Next, Plain!Edit, Edit, jigVars
  <2>3. CASE Evict \/ UNCHANGED vars
    BY <2>3, Zenon DEF Evict, jigVars, vars, Busy, Shown
  <2> QED BY <1>4, <2>1, <2>2, <2>3, Zenon DEF Next
<1> QED BY <1>1, <1>2, <1>3, <1>4, PTL DEF Spec, ImplementsCompiler, Plain!Spec, Plain!vars, Busy, Shown

----------------------------------------------------------------------------
(* Relative paths *)

\* A bounded set of naturals has a greatest element.
LEMMA Greatest ==
  ASSUME NEW b \in Nat, NEW T \in SUBSET (0..b), T # {}
  PROVE  \E m \in T : \A n \in T : n <= m
<1> DEFINE D == {b - n : n \in T}
<1>1. D \subseteq Nat /\ D # {}
  <2>1. \A n \in T : b - n \in Nat
    OBVIOUS
  <2>2. PICK n \in T : TRUE
    BY Zenon
  <2>3. QED
    BY <2>1, <2>2, Zenon
<1>2. PICK d \in D : \A e \in D : ~(<<e, d>> \in OpToRel(<, Nat))
  <2> HIDE DEF D
  <2>1. QED
    BY <1>1, NatLessThanWellFounded, WFMin, Zenon
<1>3. \A e \in D : ~(e < d)
  BY <1>1, <1>2, Zenon DEF OpToRel
<1>4. PICK m \in T : d = b - m
  BY Zenon
<1>5. ASSUME NEW n \in T PROVE n <= m
  BY <1>3, <1>4
<1>6. QED
  BY <1>5, Zenon

\* What two paths have as a common beginning is the beginning of each.
LEMMA CommonBeginnings ==
  ASSUME NEW S, NEW p \in Seq(S), NEW q \in Seq(S), NEW c \in CommonPrefixes({p, q})
  PROVE  /\ Len(c) \in Nat /\ Len(c) <= Len(p) /\ Len(c) <= Len(q)
         /\ SubSeq(p, 1, Len(c)) = SubSeq(q, 1, Len(c))
<1>1. IsPrefix(c, p) /\ IsPrefix(c, q) /\ c \in Prefixes(p) \cup Prefixes(q)
  BY Zenon DEF CommonPrefixes
<1>2. c \in Seq(S)
  <2>1. \A s \in Seq(S) : \A l \in 0..Len(s) : SubSeq(s, 1, l) \in Seq(S)
    OBVIOUS
  <2>2. QED
    BY <1>1, <2>1, Zenon DEF Prefixes
<1>3. QED
  BY <1>1, <1>2 DEF IsPrefix

\* Where two paths begin alike, that beginning is one of their common ones.
LEMMA AlikeIsCommon ==
  ASSUME NEW S, NEW p \in Seq(S), NEW q \in Seq(S),
         NEW n \in 0..Len(p), n <= Len(q), SubSeq(p, 1, n) = SubSeq(q, 1, n)
  PROVE  SubSeq(p, 1, n) \in CommonPrefixes({p, q}) /\ Len(SubSeq(p, 1, n)) = n
<1> DEFINE c == SubSeq(p, 1, n)
<1>1. c \in Prefixes(p)
  BY Zenon DEF Prefixes
<1>2. c \in Seq(S) /\ Len(c) = n /\ SubSeq(c, 1, n) = c
  OBVIOUS
<1>3. IsPrefix(c, p) /\ IsPrefix(c, q)
  BY <1>2 DEF IsPrefix
<1>4. QED
  BY <1>1, <1>2, <1>3, Zenon DEF CommonPrefixes

\* A part of a sequence.
LEMMA Part ==
  ASSUME NEW S, NEW s \in Seq(S), NEW m \in 1..Len(s) + 1, NEW n \in m - 1..Len(s)
  PROVE  /\ SubSeq(s, m, n) \in Seq(S)
         /\ Len(SubSeq(s, m, n)) = n - m + 1
         /\ \A i \in 1..n - m + 1 : SubSeq(s, m, n)[i] = s[m + i - 1]
<1>1. \A i \in m..n : s[i] \in S
  BY ElementOfSeq
<1>2. m \in Int /\ n \in Int
  OBVIOUS
<1>3. QED
  BY <1>1, <1>2, SubSeqProperties

\* Shared counts the components two paths begin with in common, and no fewer.
LEMMA SharedBeginning ==
  ASSUME NEW S, NEW p \in Seq(S), NEW q \in Seq(S)
  PROVE  /\ Shared(p, q) \in Nat /\ Shared(p, q) <= Len(p) /\ Shared(p, q) <= Len(q)
         /\ SubSeq(p, 1, Shared(p, q)) = SubSeq(q, 1, Shared(p, q))
         /\ \A n \in 0..Len(p) : n <= Len(q) /\ SubSeq(p, 1, n) = SubSeq(q, 1, n) => n <= Shared(p, q)
<1> DEFINE C == CommonPrefixes({p, q})
           T == {Len(c) : c \in C}
<1>1. T \in SUBSET (0..Len(p)) /\ T # {}
  <2>1. \A c \in C : Len(c) \in 0..Len(p)
    BY CommonBeginnings
  <2>2. SubSeq(p, 1, 0) \in C
    <3>1. 0 \in 0..Len(p) /\ 0 <= Len(q) /\ SubSeq(p, 1, 0) = SubSeq(q, 1, 0)
      OBVIOUS
    <3>2. QED
      BY <3>1, AlikeIsCommon, Zenon
  <2>3. QED
    BY <2>1, <2>2, Zenon
<1>2. PICK m \in T : \A n \in T : n <= m
  <2>1. Len(p) \in Nat
    OBVIOUS
  <2> HIDE DEF T
  <2>2. QED
    BY <1>1, <2>1, Greatest, Zenon
<1>3. \E longest \in C : \A other \in C : Len(other) <= Len(longest)
  BY <1>2, Zenon
<1>4. LongestCommonPrefix({p, q}) \in C
      /\ \A other \in C : Len(other) <= Len(LongestCommonPrefix({p, q}))
  BY <1>3, Zenon DEF LongestCommonPrefix
<1> DEFINE n == Len(LongestCommonPrefix({p, q}))
<1>5. n \in Nat /\ n <= Len(p) /\ n <= Len(q) /\ SubSeq(p, 1, n) = SubSeq(q, 1, n)
  <2>1. \A c \in C : /\ Len(c) \in Nat /\ Len(c) <= Len(p) /\ Len(c) <= Len(q)
                     /\ SubSeq(p, 1, Len(c)) = SubSeq(q, 1, Len(c))
    BY CommonBeginnings, Zenon
  <2> HIDE DEF C
  <2>2. QED
    BY <1>4, <2>1, Zenon
<1>6. ASSUME NEW k \in 0..Len(p), k <= Len(q), SubSeq(p, 1, k) = SubSeq(q, 1, k)
      PROVE  k <= n
  <2>1. SubSeq(p, 1, k) \in C /\ Len(SubSeq(p, 1, k)) = k
    BY <1>6, AlikeIsCommon, Zenon
  <2>2. QED
    BY <1>4, <2>1, Zenon
<1>7. Shared(p, q) = n
  BY Zenon DEF Shared
<1> HIDE DEF n
<1>8. QED
  BY <1>5, <1>6, <1>7, Zenon

\* The relative path that RelativeTo (fixup_mode.cc) writes leads from dir to target.
THEOREM RelativeLeadsThere ==
  ASSUME NEW S, NEW dir \in Seq(S), NEW target \in Seq(S)
  PROVE  Denotes(dir, RelativeTo(dir, target)) = target
<1> DEFINE n == Shared(dir, target)
<1>1. n \in Nat /\ n <= Len(dir) /\ n <= Len(target) /\ SubSeq(dir, 1, n) = SubSeq(target, 1, n)
  BY SharedBeginning, Zenon
<1>2. Denotes(dir, RelativeTo(dir, target))
      = SubSeq(dir, 1, Len(dir) - (Len(dir) - n)) \o SubSeq(target, n + 1, Len(target))
  BY Zenon DEF Denotes, RelativeTo
<1> HIDE DEF n
<1>3. Len(dir) - (Len(dir) - n) = n
  BY <1>1
<1>4. SubSeq(target, 1, n) \o SubSeq(target, n + 1, Len(target)) = SubSeq(target, 1, Len(target))
  <2>1. 1 \in 1..Len(target) + 1 /\ n \in 1 - 1..Len(target) /\ Len(target) \in n..Len(target)
    BY <1>1
  <2>2. QED
    BY <2>1, ConcatAdjacentSubSeq, Zenon
<1>5. QED
  BY <1>1, <1>2, <1>3, <1>4, SubSeqFull, Zenon

\* The beginning of a path under another root is that of the other path under it.
LEMMA MovedBeginning ==
  ASSUME NEW S, NEW to \in Seq(S), NEW d \in Seq(S), NEW t \in Seq(S),
         NEW k \in Nat, NEW n \in Nat, k <= n, n <= Len(d), n <= Len(t),
         \A i \in 1..n : d[i] = t[i]
  PROVE  SubSeq(to \o SubSeq(d, k + 1, Len(d)), 1, Len(to \o SubSeq(d, k + 1, Len(d))) - (Len(d) - n))
         = to \o SubSeq(t, k + 1, n)
<1> DEFINE rest == SubSeq(d, k + 1, Len(d))  way == SubSeq(t, k + 1, n)
<1>0. Len(to) \in Nat /\ Len(d) \in Nat /\ Len(t) \in Nat
  BY LenProperties, Zenon
<1>1. rest \in Seq(S) /\ Len(rest) = Len(d) - k /\ \A i \in 1..Len(d) - k : rest[i] = d[k + i]
  <2>1. k + 1 \in 1..Len(d) + 1 /\ Len(d) \in (k + 1) - 1..Len(d)
    BY <1>0
  <2>2. QED
    BY <1>0, <2>1, Part
<1>2. way \in Seq(S) /\ Len(way) = n - k /\ \A i \in 1..n - k : way[i] = t[k + i]
  <2>1. k + 1 \in 1..Len(t) + 1 /\ n \in (k + 1) - 1..Len(t)
    BY <1>0
  <2>2. QED
    BY <1>0, <2>1, Part
<1> HIDE DEF rest, way
<1> DEFINE moved == to \o rest
           m == Len(to) + n - k
           u == SubSeq(moved, 1, m)
<1>3. /\ moved \in Seq(S) /\ Len(moved) = Len(to) + Len(d) - k
      /\ \A i \in 1..Len(moved) : moved[i] = IF i <= Len(to) THEN to[i] ELSE rest[i - Len(to)]
  <2>1. /\ moved \in Seq(S) /\ Len(moved) = Len(to) + Len(rest)
        /\ \A i \in 1..Len(to) + Len(rest) : moved[i] = IF i <= Len(to) THEN to[i] ELSE rest[i - Len(to)]
    BY <1>1, ConcatProperties, Zenon
  <2> HIDE DEF moved
  <2>2. QED
    BY <1>0, <1>1, <2>1, Zenon
<1>4. /\ to \o way \in Seq(S) /\ Len(to \o way) = m
      /\ \A i \in 1..m : (to \o way)[i] = IF i <= Len(to) THEN to[i] ELSE way[i - Len(to)]
  <2> DEFINE w == to \o way
  <2>1. /\ w \in Seq(S) /\ Len(w) = Len(to) + Len(way)
        /\ \A i \in 1..Len(to) + Len(way) : w[i] = IF i <= Len(to) THEN to[i] ELSE way[i - Len(to)]
    BY <1>2, ConcatProperties, Zenon
  <2> HIDE DEF w
  <2>2. w \in Seq(S) /\ Len(w) = m /\ \A i \in 1..m : w[i] = IF i <= Len(to) THEN to[i] ELSE way[i - Len(to)]
    BY <1>0, <1>2, <2>1, Zenon
  <2>3. QED
    BY <2>2, Zenon DEF w
<1> HIDE DEF moved
<1>5. u \in Seq(S) /\ Len(u) = m /\ \A i \in 1..m : u[i] = moved[i]
  <2>1. 1 \in 1..Len(moved) + 1 /\ m \in 1 - 1..Len(moved)
    BY <1>0, <1>3
  <2>2. QED
    BY <1>0, <1>3, <2>1, Part
<1>6. ASSUME NEW i \in 1..m PROVE u[i] = (to \o way)[i]
  <2>1. u[i] = moved[i]
    BY <1>5, Zenon
  <2>2. moved[i] = IF i <= Len(to) THEN to[i] ELSE rest[i - Len(to)]
    BY <1>0, <1>3
  <2>3. (to \o way)[i] = IF i <= Len(to) THEN to[i] ELSE way[i - Len(to)]
    BY <1>4, Zenon
  <2>4. i > Len(to) => rest[i - Len(to)] = way[i - Len(to)]
    <3> SUFFICES ASSUME i > Len(to) PROVE rest[i - Len(to)] = way[i - Len(to)]
      BY Zenon
    <3> DEFINE e == i - Len(to)
    <3>1. e \in 1..n - k /\ e \in 1..Len(d) - k /\ k + e \in 1..n
      BY <1>0
    <3> HIDE DEF e
    <3>2. rest[e] = d[k + e] /\ way[e] = t[k + e] /\ d[k + e] = t[k + e]
      BY <1>1, <1>2, <3>1, Zenon
    <3>3. QED
      BY <3>2, Zenon DEF e
  <2>5. i > Len(to) \/ i <= Len(to)
    BY <1>0
  <2>6. QED
    <3>1. CASE i <= Len(to)
      BY <2>1, <2>2, <2>3, <3>1, Zenon
    <3>2. CASE i > Len(to)
      <4>1. ~(i <= Len(to))
        BY <1>0, <3>2
      <4>2. QED
        BY <2>1, <2>2, <2>3, <2>4, <3>2, <4>1, Zenon
    <3>3. QED
      BY <2>5, <3>1, <3>2, Zenon
<1>7. Len(moved) - (Len(d) - n) = m
  BY <1>0, <1>3
<1> HIDE DEF u
<1>8. u = to \o way
  BY <1>4, <1>5, <1>6, SeqEqual, Zenon
<1>9. QED
  BY <1>7, <1>8, Zenon DEF u, moved, rest, way

\* An entry that reloc-fixup has made relative leads, after the store was copied from one
\* root to another, to the same place of the copy.
THEOREM RelativeMovesAlong ==
  ASSUME NEW S, NEW dir \in Seq(S), NEW target \in Seq(S), NEW from \in Seq(S), NEW to \in Seq(S),
         IsPrefix(from, dir), IsPrefix(from, target)
  PROVE  Denotes(Rebase(dir, from, to), RelativeTo(dir, target)) = Rebase(target, from, to)
<1> DEFINE n == Shared(dir, target)  k == Len(from)
           moved == to \o SubSeq(dir, k + 1, Len(dir))
<1>1. n \in Nat /\ n <= Len(dir) /\ n <= Len(target) /\ SubSeq(dir, 1, n) = SubSeq(target, 1, n)
  BY SharedBeginning, Zenon
<1>2. k \in Nat /\ k <= Len(dir) /\ k <= Len(target) /\ SubSeq(dir, 1, k) = SubSeq(target, 1, k)
  BY DEF IsPrefix
<1>3. k <= n
  <2>1. k \in 0..Len(dir)
    BY <1>2
  <2> HIDE DEF k
  <2>2. QED
    BY <1>2, <2>1, SharedBeginning, Zenon
<1>4. Rebase(dir, from, to) = moved /\ Rebase(target, from, to) = to \o SubSeq(target, k + 1, Len(target))
  BY Zenon DEF Rebase
<1>5. RelativeTo(dir, target) = [ups |-> Len(dir) - n, down |-> SubSeq(target, n + 1, Len(target))]
  BY Zenon DEF RelativeTo
<1> HIDE DEF n
<1>6. \A i \in 1..n : dir[i] = target[i]
  BY <1>1
<1>7. Denotes(Rebase(dir, from, to), RelativeTo(dir, target))
      = SubSeq(moved, 1, Len(moved) - (Len(dir) - n)) \o SubSeq(target, n + 1, Len(target))
  <2> DEFINE rel == [ups |-> Len(dir) - n, down |-> SubSeq(target, n + 1, Len(target))]
  <2>1. rel.ups = Len(dir) - n /\ rel.down = SubSeq(target, n + 1, Len(target))
    BY Zenon
  <2> HIDE DEF rel, moved
  <2>2. Denotes(moved, rel) = SubSeq(moved, 1, Len(moved) - rel.ups) \o rel.down
    BY Zenon DEF Denotes
  <2>3. QED
    BY <1>4, <1>5, <2>1, <2>2, Zenon DEF rel
<1>8. SubSeq(moved, 1, Len(moved) - (Len(dir) - n)) = to \o SubSeq(target, k + 1, n)
  <2> HIDE DEF k
  <2>1. SubSeq(to \o SubSeq(dir, k + 1, Len(dir)), 1, Len(to \o SubSeq(dir, k + 1, Len(dir))) - (Len(dir) - n))
        = to \o SubSeq(target, k + 1, n)
    <3>1. k \in Nat /\ n \in Nat /\ k <= n /\ n <= Len(dir) /\ n <= Len(target)
      BY <1>1, <1>2, <1>3, Zenon
    <3>2. QED
      BY <3>1, <1>6, MovedBeginning, SMTT(120)
  <2>2. QED
    BY <2>1, Zenon
<1>9. k + 1 \in 1..Len(target) + 1 /\ n \in (k + 1) - 1..Len(target) /\ Len(target) \in n..Len(target)
  BY <1>1, <1>2, <1>3
<1>10. SubSeq(target, k + 1, n) \o SubSeq(target, n + 1, Len(target)) = SubSeq(target, k + 1, Len(target))
  BY <1>9, ConcatAdjacentSubSeq, Zenon
<1>11. SubSeq(target, k + 1, n) \in Seq(S) /\ SubSeq(target, n + 1, Len(target)) \in Seq(S)
  BY <1>1, <1>9, Part
<1>12. (to \o SubSeq(target, k + 1, n)) \o SubSeq(target, n + 1, Len(target))
       = to \o SubSeq(target, k + 1, Len(target))
  <2> DEFINE way == SubSeq(target, k + 1, n)  rest == SubSeq(target, n + 1, Len(target))
  <2> HIDE DEF way, rest
  <2>1. way \in Seq(S) /\ rest \in Seq(S)
    BY <1>11, Zenon DEF way, rest
  <2>2. (to \o way) \o rest = to \o (way \o rest)
    BY <2>1, ConcatAssociative, SMTT(60)
  <2>3. QED
    BY <1>10, <2>2, Zenon DEF way, rest
<1>13. QED
  BY <1>4, <1>7, <1>8, <1>12, Zenon
=============================================================================
