----------------------------- MODULE RustCache -----------------------------
(***************************************************************************)
(* jig as cargo's RUSTC_WRAPPER (pkgs/ji/jig/src/rustc_mode.cc): the two   *)
(* keys of CompileCache, but a unit has several output files whose names   *)
(* carry a stem that is not in the key, and are stored in one blob with    *)
(* "@" in its place.  Units of one crate in one directory differ by stem.  *)
(*                                                                         *)
(* Arguments are tokens [flag, val]: both are there when they are spelled  *)
(* as one, else the value is the token that follows.  As in CompileCache a *)
(* hash is what is hashed, and a tree is edited between calls only.        *)
(***************************************************************************)
EXTENDS ArtifactStore

CONSTANTS
  Rustcs,       \* processes
  Units,        \* what cargo may call them for: [buildOf, crate, args], where a crate
                \* is [stem, features, type, probe] and cargo gives stems of their own
                \* to the units of a build
  RustTrees,    \* the trees a build may have: [src, mod, rlib]
  Unedited,     \* the one it starts from
  Std,          \* Std[b]: the libstd of the toolchain of a build
  Closure,      \* Closure[b]: the store paths a link embeds
  MaxEdits

Builds == DOMAIN Std

VARIABLES
  rpc,
  buildOf, crate, args,   \* of a process; they do not change
  files,     \* files[b]: the sources
  deps,      \* deps[b]: the files in the out-dir, by stem and extension
  key, man,
  result,    \* "ok" or "failed", of the last call
  edits

rustVars == <<rpc, buildOf, crate, args, files, deps, key, man, result, edits>>
unitVars == <<buildOf, crate, args>>

----------------------------------------------------------------------------
(* ParseRustInvocation *)

Options == {"-C", "--crate-type"}   \* of kTwoTokenOptions
Queries == {"--print", "-", "-vV", "--version"}
Linking == {"bin", "proc-macro", "cdylib", "dylib"}
Named == {"--out-dir", "--sysroot", "--crate-name", "--extern", "--emit", "-L"}

\* TakeNamedOption: -L is dropped, and --out-dir is not in the key.
TakeNamedOption(inv, flag, val) ==
  [inv EXCEPT !.outDir = IF flag = "--out-dir" THEN TRUE ELSE @,
              !.depInfo = @ \/ (flag = "--emit" /\ "dep-info" \in val),
              !.externs = IF flag = "--extern" THEN @ \cup {val} ELSE @,
              !.keyArgs = IF flag \in {"--out-dir", "-L"} THEN @ ELSE Append(@, <<flag, val>>)]

\* Of -C, metadata and extra-filename are not in the key.
TakeCodegenOption(inv, flag, val) ==
  IF flag = "-C" /\ val[1] = "incremental" THEN [inv EXCEPT !.cacheable = FALSE]
  ELSE IF flag = "-C" /\ val[1] = "extra-filename" THEN [inv EXCEPT !.stem = val[2]]
  ELSE IF flag = "-C" /\ val[1] = "metadata" THEN inv
  ELSE [inv EXCEPT !.links = @ \/ (flag = "--crate-type" /\ val \in Linking),
                   !.hasType = @ \/ flag = "--crate-type",
                   !.keyArgs = Append(@, <<flag, val>>)]

\* One turn of the loop, for the token at i unless it was the value of the one before.
Take(s, as, i) ==
  LET a == as[i]
      split == a.val = None /\ i < Len(as)
      val == IF split THEN as[i + 1].val ELSE a.val
  IN  IF s.skip THEN [s EXCEPT !.skip = FALSE]
      ELSE IF a.flag \in Named /\ val # None THEN [inv |-> TakeNamedOption(s.inv, a.flag, val), skip |-> split]
      ELSE IF a.flag \in Queries THEN [s EXCEPT !.inv.query = TRUE]
      ELSE IF a.flag = "-o" THEN [s EXCEPT !.inv.cacheable = FALSE]
      ELSE IF a.flag = "" /\ a.val = "src" THEN [s EXCEPT !.inv.sources = @ + 1]
      ELSE IF a.flag \in Options THEN [inv |-> TakeCodegenOption(s.inv, a.flag, val), skip |-> split]
      ELSE [s EXCEPT !.inv = TakeCodegenOption(@, a.flag, a.val)]

NoArgs ==
  [outDir |-> FALSE, depInfo |-> FALSE, externs |-> {}, keyArgs |-> <<>>, stem |-> "", links |-> FALSE,
   hasType |-> FALSE, cacheable |-> TRUE, query |-> FALSE, sources |-> 0]

ParseRustInvocation(as) ==
  LET after[i \in 0..Len(as)] ==
        IF i = 0 THEN [inv |-> NoArgs, skip |-> FALSE] ELSE Take(after[i - 1], as, i)
      inv == after[Len(as)].inv
      links == inv.links \/ ~inv.hasType
  IN  [inv EXCEPT !.links = links,
                  !.cacheable = @ /\ ~inv.query /\ ~links /\ inv.sources = 1 /\ inv.outDir /\ inv.depInfo]

Inv(r) == ParseRustInvocation(args[r])
View(r) == files[buildOf[r]]

----------------------------------------------------------------------------
(* rustc: external *)

Fails(r) == View(r).src \in {None, "bad"} \/ View(r).mod = None \/ View(r).rlib = None

\* What an output is made from.  What links also holds paths of its closure.
Made(r) ==
  [features |-> crate[r].features, src |-> View(r).src, mod |-> View(r).mod, rlib |-> View(r).rlib,
   std |-> Std[buildOf[r]], closure |-> IF crate[r].type = "lib" THEN None ELSE Closure[buildOf[r]]]

Extensions == {".rlib", ".rmeta", ".d"}
Names(stem) == {<<stem, e>> : e \in Extensions}
RustcWrites(r) == [n \in Names(crate[r].stem) |-> Made(r)]

----------------------------------------------------------------------------
(* Keys and blobs *)

\* Mutant of RequestKey: the toolchain goes by its name, which is masked.
RequestKeyNoStd(r) == [args |-> Inv(r).keyArgs, externs |-> View(r).rlib, src |-> View(r).src]

\* The rustc goes by its name and the files of its libstd, externs by content.
RequestKey(r) ==
  [stdlib |-> Std[buildOf[r]], args |-> Inv(r).keyArgs,
   externs |-> {<<e, View(r)[e]>> : e \in Inv(r).externs}, src |-> View(r).src]

\* BuildManifest over the inputs that dep-info names.
Manifest(r) == {<<"mod", View(r).mod>>}
Valid(r, m) == \A l \in m : View(r)[l[1]] = l[2]

\* ReplaceAll on the name of a file: an empty string is replaced nowhere.
Replace(name, from, to) == IF name[1] = from /\ from # "" THEN <<to, name[2]>> ELSE name

\* PackFiles: the files by name; what cannot be read is left out.
PackFiles(r) ==
  LET there == {n \in Names(crate[r].stem) : n \in DOMAIN deps[buildOf[r]]}
  IN  [n \in {Replace(x, Inv(r).stem, "@") : x \in there} |-> deps[buildOf[r]][<<crate[r].stem, n[2]>>]]

\* Mutant of Unpacked: files keep the names they were stored under.
UnpackedAsStored(r, blob, names) == [x \in names |-> blob[x]]

\* The files that are written, by their names in the blob.
Unpacked(r, blob, names) ==
  [n \in {Replace(x, "@", Inv(r).stem) : x \in names} |->
     blob[CHOOSE x \in names : Replace(x, "@", Inv(r).stem) = n]]

\* Cargo gives the units of a build stems of their own, and what it passes to rustc says
\* what the unit is: what jig takes for cacheable is a library with its own stem, and
\* the arguments in the key tell its features.
Cargo(build, cr, as) ==
  \A r, s \in Rustcs :
    LET inv == ParseRustInvocation(as[r])
        other == ParseRustInvocation(as[s])
    IN  /\ build[r] \in Builds
        /\ r # s /\ build[r] = build[s] => cr[r].stem # cr[s].stem
        /\ inv.cacheable => /\ inv.stem = cr[r].stem /\ inv.stem # "" /\ cr[r].type = "lib"
                            /\ ~cr[r].probe /\ "rlib" \in inv.externs
        /\ inv.cacheable /\ other.cacheable /\ inv.keyArgs = other.keyArgs
             => cr[r].features = cr[s].features

ASSUME NoneAssumption == None \notin {"ok", "failed", "answered"}
ASSUME CargoAssumption == \A u \in Units : Cargo(u.buildOf, u.crate, u.args)

----------------------------------------------------------------------------

RustInit ==
  /\ rpc = [r \in Rustcs |-> "idle"]
  /\ \E u \in Units : buildOf = u.buildOf /\ crate = u.crate /\ args = u.args
  /\ files = [b \in Builds |-> Unedited]
  /\ deps = [b \in Builds |-> <<>>]
  /\ key = [r \in Rustcs |-> None]
  /\ man = [r \in Rustcs |-> {}]
  /\ result = [r \in Rustcs |-> None]
  /\ edits = 0

RustReturn(r, status) ==
  /\ Close(r)
  /\ rpc' = [rpc EXCEPT ![r] = "idle"]
  /\ key' = [key EXCEPT ![r] = None]
  /\ man' = [man EXCEPT ![r] = {}]
  /\ result' = [result EXCEPT ![r] = status]

\* RunRustcMode: what is cacheable and readable is asked for when the daemon is there.
RustBegin(r) ==
  /\ rpc[r] = "idle"
  /\ result' = [result EXCEPT ![r] = None]
  /\ \/ /\ Inv(r).cacheable /\ View(r).src # None
        /\ Connect(r)
        /\ rpc' = [rpc EXCEPT ![r] = "lookup"]
        /\ key' = [key EXCEPT ![r] = RequestKey(r)]
     \/ rpc' = [rpc EXCEPT ![r] = "plain"] /\ UNCHANGED <<up, key>>
  /\ UNCHANGED <<cache, faults, unitVars, files, deps, man, edits>>

RustcRuns(r) ==
  IF Fails(r) THEN UNCHANGED deps
  ELSE deps' = [deps EXCEPT ![buildOf[r]] = Overlay(RustcWrites(r), @)]

RunUncached(r) ==
  /\ rpc[r] = "plain"
  /\ IF crate[r].probe THEN UNCHANGED deps /\ RustReturn(r, "answered")
     ELSE RustcRuns(r) /\ RustReturn(r, IF Fails(r) THEN "failed" ELSE "ok")
  /\ UNCHANGED <<cache, faults, unitVars, files, edits>>

FindResult(r) ==
  /\ rpc[r] = "lookup"
  /\ LET m == Get(r, <<"m/rs", key[r]>>)
     IN  IF m # None /\ Valid(r, m)
         THEN rpc' = [rpc EXCEPT ![r] = "fetch"] /\ man' = [man EXCEPT ![r] = m]
         ELSE rpc' = [rpc EXCEPT ![r] = "compile"] /\ UNCHANGED man
  /\ UNCHANGED <<storeVars, unitVars, files, deps, key, result, edits>>

\* UnpackFiles stops at the first file it cannot write, which may be any, as they are in
\* rustc's order; then rustc runs after all.
Replay(r) ==
  /\ rpc[r] = "fetch"
  /\ LET blob == Get(r, <<"o", key[r], man[r]>>)
     IN  IF blob = None
         THEN rpc' = [rpc EXCEPT ![r] = "compile"] /\ UNCHANGED <<up, faults, deps, key, man, result>>
         ELSE \E names \in SUBSET DOMAIN blob :
                /\ deps' = [deps EXCEPT ![buildOf[r]] = Overlay(Unpacked(r, blob, names), @)]
                /\ Faults(Count(names # DOMAIN blob))
                /\ IF names = DOMAIN blob THEN RustReturn(r, "ok")
                   ELSE rpc' = [rpc EXCEPT ![r] = "compile"] /\ UNCHANGED <<up, key, man, result>>
  /\ UNCHANGED <<cache, unitVars, files, edits>>

\* A failure is passed on and not stored, and so is a success without dep-info.
Compile(r) ==
  /\ rpc[r] = "compile"
  /\ \/ /\ RustcRuns(r)
        /\ IF Fails(r) THEN RustReturn(r, "failed") /\ UNCHANGED faults
           ELSE \/ /\ rpc' = [rpc EXCEPT ![r] = "m/rs"]
                   /\ man' = [man EXCEPT ![r] = Manifest(r)]
                   /\ UNCHANGED <<up, faults, key, result>>
                \/ RustReturn(r, "ok") /\ Faults(1)
     \/ UNCHANGED deps /\ RustReturn(r, "failed") /\ Faults(1)
  /\ UNCHANGED <<cache, unitVars, files, edits>>

\* Manifest, object and stderr are put one after the other.
PutNext(r) ==
  \/ /\ rpc[r] = "m/rs" /\ Put(r, <<"m/rs", key[r]>>, man[r])
     /\ rpc' = [rpc EXCEPT ![r] = "o"]
     /\ UNCHANGED <<up, faults, unitVars, files, deps, key, man, result, edits>>
  \/ /\ rpc[r] = "o" /\ Put(r, <<"o", key[r], man[r]>>, PackFiles(r))
     /\ rpc' = [rpc EXCEPT ![r] = "e"]
     /\ UNCHANGED <<up, faults, unitVars, files, deps, key, man, result, edits>>
  \/ /\ rpc[r] = "e" /\ Put(r, <<"e", key[r], man[r]>>, "warnings")
     /\ RustReturn(r, "ok")
     /\ UNCHANGED <<faults, unitVars, files, deps, edits>>

\* The build edits a source, or another unit's build a dependency, between calls.
Edit(b) ==
  /\ edits < MaxEdits
  /\ \A r \in Rustcs : buildOf[r] = b => rpc[r] = "idle"
  /\ \E t \in RustTrees : t # files[b] /\ files' = [files EXCEPT ![b] = t]
  /\ edits' = edits + 1
  /\ result' = [r \in Rustcs |-> IF buildOf[r] = b THEN None ELSE result[r]]
  /\ UNCHANGED <<storeVars, rpc, unitVars, deps, key, man>>

RustStep(r) ==
  \/ RustBegin(r) \/ RunUncached(r) \/ FindResult(r) \/ Replay(r) \/ Compile(r) \/ PutNext(r)
  \/ Break(r) /\ UNCHANGED rustVars

RustNext == (\E r \in Rustcs : RustStep(r)) \/ \E b \in Builds : Edit(b)

\* The keys of rustc.
RustKey(k) == k[1] \in {"m/rs", "o", "e"}

\* The daemon evicts, or serves the caches of other languages, which have other keys.
RustElsewhere ==
  /\ \A k \in DOMAIN cache' : RustKey(k) => k \in DOMAIN cache /\ cache'[k] = cache[k]
  /\ UNCHANGED rustVars

\* The wrapped rustcs, whatever else happens to the daemon.
RustSpec == cache = <<>> /\ RustInit /\ [][RustNext \/ RustElsewhere]_<<storeVars, rustVars>>

----------------------------------------------------------------------------
(* Properties *)

\* After a call that succeeded the out-dir has the files of this unit, made by rustc or
\* replayed, as rustc would make them of these sources, crates and toolchain: no entry of
\* another variant, toolchain or closure gets in.
UnitsAsBuilt ==
  \A r \in Rustcs : result[r] = "ok" =>
    ~Fails(r) /\ \A n \in Names(crate[r].stem) :
      n \in DOMAIN deps[buildOf[r]] /\ deps[buildOf[r]][n] = Made(r)

\* A file belongs to the unit whose stem it carries: a replay of one variant of a crate
\* never touches the files of a sibling, and leaves none under a name nobody asked for.
VariantsApart ==
  \A b \in Builds : \A n \in DOMAIN deps[b] :
    \E r \in Rustcs : buildOf[r] = b /\ crate[r].stem = n[1] /\ deps[b][n].features = crate[r].features
=============================================================================
