---------------------------- MODULE CompileCache ----------------------------
(***************************************************************************)
(* jig as a compiler with a cache (pkgs/ji/jig/src/cc_mode.cc and          *)
(* manifest.cc): a request key leads to a manifest of the inputs, a valid  *)
(* manifest to the stored results; else the compiler runs, the inputs it   *)
(* named are hashed, and manifest and results are put one by one.  Several *)
(* jigs of several builds share the cache, which forgets what it likes.    *)
(*                                                                         *)
(* Hashes are modelled by what is hashed.  A build edits its tree, between *)
(* the calls of jig or, with Racing, at any time.                          *)
(***************************************************************************)
EXTENDS Toolchain

CONSTANTS
  ByContent,     \* JIG_STORE_IDENTITY=content
  Racing,        \* whether the tree changes under a running jig
  MaxEdits, MaxEvictions,
  Masked,        \* what stands for a masked hash
  NoResult, Failed

ASSUME CompileCacheAssumption ==
  /\ ByContent \in BOOLEAN /\ Racing \in BOOLEAN
  /\ MaxEdits \in Nat /\ MaxEvictions \in Nat
  /\ NoResult # Failed
  /\ \A j \in Jigs, f \in Files : \A e \in {NoFile, Output(KindOf[j], f).err} :
       [Result(j, f) EXCEPT !.err = e] \notin {NoResult, Failed}

VARIABLES
  tree,     \* tree[b]: the build tree
  cache,    \* cache[s]: the entries under the keys of one prefix (keys.h)
  pc, key,  \* where a jig is, and its request key
  man,      \* the manifest it fetched or built
  obs,      \* what it observed of a compiler run
  toPut,    \* the prefixes it still has to put
  result,   \* what its last call returned
  edits, evictions

vars == <<tree, cache, pc, key, man, obs, toPut, result, edits, evictions>>
jigVars == <<pc, key, man, obs, toPut, result>>

PCs == {"idle", "plain", "lookup", "validate", "fetch", "compile", "manifest", "put"}

\* Manifest under the request key; exit status, object, stderr and depfile under
\* the result key, which is the request key and the manifest.
ResultSlots == {"r", "o", "e", "d"}
CacheSlots == {"m"} \cup ResultSlots

----------------------------------------------------------------------------
(* Keys and manifests *)

View(b) == ViewOf(b, tree[b])
ViewFor(j) == View(BuildOf[j])

\* A store file is its path, unless identities go by content.
ByPath(p) == p \in Deps /\ ~ByContent

\* InputId, where there is one.
Readable(f, p) == ByPath(p) \/ f[p] # NoFile
InputId(b, f, p) == IF ByPath(p) THEN <<"S", StoreOf[b][p]>> ELSE <<"C", f[p]>>

\* ComputeRequestKey: arguments name store paths and $out, masked in content mode
\* but for the run path and the interpreter of a link.
RequestKey(j, f) ==
  [kind  |-> KindOf[j],
   src   |-> f[Source],
   tool  |-> InputId(BuildOf[j], f, Tool),
   roots |-> IF ByContent THEN Masked ELSE StoreOf[BuildOf[j]],
   paths |-> IF ByContent /\ KindOf[j] = "compile" THEN Masked ELSE PathsIn(BuildOf[j]),
   out   |-> IF ByContent THEN Masked ELSE OutOf[BuildOf[j]]]

\* Of the store paths in an object only the build's own is swapped for a placeholder.
MaskOut(j, text) ==
  [text |-> text, out |-> IF ByContent THEN Masked ELSE OutOf[BuildOf[j]],
   paths |-> PathsIn(BuildOf[j])]

\* Mutant of UnmaskOut: the placeholder stays in a replayed object.
UnmaskOutForgotten(j, o) == o

UnmaskOut(j, o) == [o EXCEPT !.out = IF ByContent THEN OutOf[BuildOf[j]] ELSE @]

\* The lines of a manifest: an input with its identity, or "!" and an absent path.
InputLines(b, f, reads) ==
  {[path |-> p, absent |-> FALSE, id |-> InputId(b, f, p)] :
     p \in {q \in reads \ {Source} : Readable(f, q)}}

\* Mutant of AbsentLines: what was looked up and absent is not recorded.
NoAbsentLines(f, absent) == {}

\* Store paths "stay absent; what exists by now the compiler wrote itself".
AbsentLines(f, absent) ==
  {[path |-> p, absent |-> TRUE, id |-> NoFile] : p \in {q \in absent \ Deps : f[q] = NoFile}}

BuildManifest(b, f, reads, absent) == InputLines(b, f, reads) \cup AbsentLines(f, absent)

\* One line of ValidateManifest.  An identity by path names the path itself.
Valid(b, f, line) ==
  IF line.absent THEN f[line.path] = NoFile
  ELSE ByPath(line.path) \/ (Readable(f, line.path) /\ InputId(b, f, line.path) = line.id)

----------------------------------------------------------------------------

Init ==
  /\ tree \in [Builds -> Unpacked]
  /\ cache = [s \in CacheSlots |-> {}]
  /\ pc = [j \in Jigs |-> "idle"]
  /\ key = [j \in Jigs |-> NoResult]
  /\ man = [j \in Jigs |-> {}]
  /\ obs = [j \in Jigs |-> NoResult]
  /\ toPut = [j \in Jigs |-> <<>>]
  /\ result = [j \in Jigs |-> NoResult]
  /\ edits = 0 /\ evictions = 0

\* The process ends; the next call of jig starts from nothing.
Return(j) ==
  /\ pc' = [pc EXCEPT ![j] = "idle"]
  /\ key' = [key EXCEPT ![j] = NoResult]
  /\ man' = [man EXCEPT ![j] = {}]
  /\ obs' = [obs EXCEPT ![j] = NoResult]
  /\ toPut' = [toPut EXCEPT ![j] = <<>>]

\* RunCcMode: the source is read, the daemon answers, and there is a request key;
\* else the compiler runs as if there were no cache.
Begin(j) ==
  /\ pc[j] = "idle"
  /\ result' = [result EXCEPT ![j] = NoResult]
  /\ \/ /\ ViewFor(j)[Source] # NoFile
        /\ pc' = [pc EXCEPT ![j] = "lookup"]
        /\ key' = [key EXCEPT ![j] = RequestKey(j, ViewFor(j))]
     \/ /\ pc' = [pc EXCEPT ![j] = "plain"]
        /\ UNCHANGED key
  /\ UNCHANGED <<tree, cache, man, obs, toPut, edits, evictions>>

RunUncached(j) ==
  /\ pc[j] = "plain"
  /\ \E r \in {Result(j, ViewFor(j)), Failed} : result' = [result EXCEPT ![j] = r]
  /\ Return(j)
  /\ UNCHANGED <<tree, cache, edits, evictions>>

\* FindResult; a connection that breaks is a miss like any other.
FindResult(j) ==
  /\ pc[j] = "lookup"
  /\ \/ \E e \in cache["m"] :
          /\ e.req = key[j]
          /\ man' = [man EXCEPT ![j] = e.val]
          /\ pc' = [pc EXCEPT ![j] = "validate"]
     \/ /\ pc' = [pc EXCEPT ![j] = "compile"]
        /\ UNCHANGED man
  /\ UNCHANGED <<tree, cache, key, obs, toPut, result, edits, evictions>>

ValidateManifest(j) ==
  /\ pc[j] = "validate"
  /\ pc' = [pc EXCEPT ![j] = IF \A l \in man[j] : Valid(BuildOf[j], ViewFor(j), l)
                             THEN "fetch" ELSE "compile"]
  /\ UNCHANGED <<tree, cache, key, man, obs, toPut, result, edits, evictions>>

\* Lookup asks for the four results at once; each answer may be missing, because
\* it was never put, has been evicted, or the connection broke.
Entries(j, s) == {e \in cache[s] : e.req = key[j] /\ e.man = man[j]}
Answer(j, s) == (CHOOSE e \in Entries(j, s) : TRUE).val

\* A stored exit status is a stored failure; those of links are never stored.
Failure(j, got) == KindOf[j] # "link" /\ "r" \in got

Usable(j, got) ==
  Failure(j, got) \/ ("o" \in got /\ (WantsDep[j] => "d" \in got))

Replayed(j, got) ==
  [status |-> IF Failure(j, got) THEN Answer(j, "r") ELSE "ok",
   object |-> IF Failure(j, got) THEN NoFile ELSE UnmaskOut(j, Answer(j, "o")),
   dep    |-> IF Failure(j, got) \/ ~WantsDep[j] THEN {} ELSE Answer(j, "d"),
   err    |-> IF "e" \in got THEN Answer(j, "e") ELSE NoFile]

\* Lookup and Replay, which fails when it cannot write.
Lookup(j) ==
  /\ pc[j] = "fetch"
  /\ \E got \in SUBSET {s \in ResultSlots : Entries(j, s) # {}} :
       IF Usable(j, got)
       THEN /\ \E r \in {Replayed(j, got), Failed} : result' = [result EXCEPT ![j] = r]
            /\ Return(j)
       ELSE /\ pc' = [pc EXCEPT ![j] = "compile"]
            /\ UNCHANGED <<key, man, obs, toPut, result>>
  /\ UNCHANGED <<tree, cache, edits, evictions>>

----------------------------------------------------------------------------
(* A miss *)

\* RunObserved: the depfile names what was read; clang logs the paths it missed,
\* the linker does not.
Observed(k, f) ==
  [out    |-> Output(k, f),
   reads  |-> Reads(k, f),
   absent |-> IF k = "link" THEN {} ELSE Misses(k, f)]

Killed == [out |-> [status |-> "killed", object |-> NoFile, err |-> NoFile],
           reads |-> {}, absent |-> {}]

\* CompileAndStore keeps successes, and failures of the compiler that are neither
\* a missing header nor the death of the compiler.
Storable(j, o) ==
  o.out.status = "ok" \/ (o.out.status = "error" /\ KindOf[j] # "link")

Compile(j) ==
  /\ pc[j] = "compile"
  /\ \E o \in {Observed(KindOf[j], ViewFor(j)), Killed} :
       /\ result' = [result EXCEPT ![j] = IF o = Killed THEN Failed ELSE Result(j, ViewFor(j))]
       /\ IF Storable(j, o)
          THEN /\ pc' = [pc EXCEPT ![j] = "manifest"]
               /\ obs' = [obs EXCEPT ![j] = o]
               /\ UNCHANGED <<key, man, toPut>>
          ELSE Return(j)
  /\ UNCHANGED <<tree, cache, edits, evictions>>

\* The slots of a result in the order they are put.
PutOrder(j) ==
  IF obs[j].out.status # "ok" THEN <<"m", "r", "e">>
  ELSE IF WantsDep[j] THEN <<"m", "o", "e", "d">> ELSE <<"m", "o", "e">>

\* Only now are the inputs read and hashed.
HashInputs(j) ==
  /\ pc[j] = "manifest"
  /\ man' = [man EXCEPT ![j] = BuildManifest(BuildOf[j], ViewFor(j), obs[j].reads, obs[j].absent)]
  /\ toPut' = [toPut EXCEPT ![j] = PutOrder(j)]
  /\ pc' = [pc EXCEPT ![j] = "put"]
  /\ UNCHANGED <<tree, cache, key, obs, result, edits, evictions>>

Entry(j, s) ==
  [req |-> key[j],
   man |-> IF s = "m" THEN {} ELSE man[j],
   val |-> CASE s = "m" -> man[j]
             [] s = "r" -> obs[j].out.status
             [] s = "o" -> MaskOut(j, obs[j].out.object)
             [] s = "e" -> obs[j].out.err
             [] s = "d" -> obs[j].reads]

\* The next Put, which replaces what is there.
Put(j) ==
  /\ pc[j] = "put"
  /\ toPut[j] # <<>>
  /\ LET e == Entry(j, Head(toPut[j]))
     IN  cache' = [cache EXCEPT ![Head(toPut[j])] =
                     {x \in @ : x.req # e.req \/ x.man # e.man} \cup {e}]
  /\ toPut' = [toPut EXCEPT ![j] = Tail(@)]
  /\ UNCHANGED <<tree, pc, key, man, obs, result, edits, evictions>>

\* All is put, or an output was unreadable, the connection broke or the jig was
\* killed before that.
Exit(j) ==
  /\ pc[j] \in {"manifest", "put"}
  /\ Return(j)
  /\ UNCHANGED <<tree, cache, result, edits, evictions>>

----------------------------------------------------------------------------
(* The world around *)

\* The build writes or removes a file; make does so before or after a compile, not
\* during it.
Edit(b, p, c) ==
  /\ edits < MaxEdits
  /\ Racing \/ \A j \in Jigs : BuildOf[j] = b => pc[j] = "idle"
  /\ tree' = [tree EXCEPT ![b][p] = c]
  /\ edits' = edits + 1
  /\ UNCHANGED <<cache, jigVars, evictions>>

\* The daemon forgets an entry.
Evict ==
  /\ evictions < MaxEvictions
  /\ \E s \in CacheSlots : \E e \in cache[s] : cache' = [cache EXCEPT ![s] = @ \ {e}]
  /\ evictions' = evictions + 1
  /\ UNCHANGED <<tree, jigVars, edits>>

JigStep(j) ==
  \/ Begin(j) \/ RunUncached(j) \/ FindResult(j) \/ ValidateManifest(j) \/ Lookup(j)
  \/ Compile(j) \/ HashInputs(j) \/ Put(j) \/ Exit(j)

Next ==
  \/ \E j \in Jigs : JigStep(j)
  \/ \E b \in Builds, p \in Tree, c \in Contents \cup {NoFile} : Edit(b, p, c)
  \/ Evict

Spec == Init /\ [][Next]_vars

----------------------------------------------------------------------------
(* Properties *)

\* Whether a jig with the tree t would come by this key and manifest.
Reachable(e, j, t) ==
  LET f == ViewOf(BuildOf[j], t)
  IN  /\ f[Source] # NoFile
      /\ RequestKey(j, f) = e.req
      /\ \A l \in e.man : Valid(BuildOf[j], f, l)

Fits(s, val, j, f) ==
  LET o == Output(KindOf[j], f)
  IN  CASE s = "r" -> val = o.status /\ val # "ok"
        [] s = "o" -> o.status = "ok" /\ val = MaskOut(j, o.object)
        [] s = "e" -> val = o.err
        [] s = "d" -> o.status = "ok" /\ val = Reads(KindOf[j], f)

\* Whoever can reach a stored result by its key and a valid manifest would get the
\* same from the compiler: no entry is wrong, whichever builds and trees ask.
EntriesSound ==
  \A s \in ResultSlots : \A e \in cache[s], j \in Jigs, t \in Trees :
    Reachable(e, j, t) => Fits(s, e.val, j, ViewOf(BuildOf[j], t))

\* What the soundness of the entries rests on: the tree is left alone while a jig
\* runs, a rebuilt dependency has files where the old one had them, a link does not
\* search, and compiles pass on no path of a dependency that is rebuilt.  Without any
\* one of them there are wrong entries.
Discipline ==
  /\ ~Racing
  /\ ByContent => \A b, c \in Builds, p \in Deps :
                    FileOf[StoreOf[b][p]] = NoFile => FileOf[StoreOf[c][p]] = NoFile
  /\ \A j \in Jigs, f \in Files : KindOf[j] = "link" => Misses("link", f) = {}
  /\ ByContent => \A i, j \in Jigs : KindOf[i] = "compile" /\ KindOf[j] = "compile" =>
                    PathsIn(BuildOf[i]) = PathsIn(BuildOf[j])

\* jig with its cache is the compiler (docs/design.md: "Derivations never mention
\* the cache, so outputs are identical either way").
Plain == INSTANCE PlainCompiler WITH
           busy <- [j \in Jigs |-> pc[j] \in {"plain", "lookup", "validate", "fetch", "compile"}],
           result <- [j \in Jigs |-> IF result[j] \in {NoResult, Failed} THEN result[j]
                       ELSE [status |-> result[j].status, object |-> result[j].object,
                             dep |-> result[j].dep]]

ImplementsCompiler == Plain!Spec
=============================================================================
