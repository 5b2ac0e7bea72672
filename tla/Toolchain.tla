------------------------------ MODULE Toolchain ------------------------------
(***************************************************************************)
(* What a compile sees and does, for the compile cache of jig: builds with *)
(* a build tree that changes and store paths that do not, and a compiler   *)
(* that is a function of the files it reads and of those it looks up and   *)
(* does not find.                                                          *)
(*                                                                         *)
(* A store path is named by what jig's keys keep of it, "*-zlib/zlib.h";   *)
(* which store object stands behind the name is up to the build.           *)
(***************************************************************************)
EXTENDS Integers, Sequences, FiniteSets

CONSTANTS
  Jigs,           \* invocations of jig as a compiler
  Builds,
  BuildOf,        \* the build of a jig
  KindOf,         \* "compile" or "link"
  WantsDep,       \* whether the command line asks for a depfile
  Tree,           \* paths of the build tree
  Deps,           \* paths of the store, without their hash
  Embedded,       \* those whose path the command line passes on (-D, -rpath)
  Source, Tool,   \* the primary input, and the compiler itself
  Contents,
  Unpacked,       \* the trees a build starts from
  StoreOf,        \* StoreOf[b][p]: the store object behind a name
  FileOf,         \* the file in a store object, or NoFile
  OutOf,          \* $out of a build
  NoFile,
  Reads(_, _),    \* the files a compiler of this kind reads in these files
  Misses(_, _),   \* the paths it looks up there and does not find
  Output(_, _)    \* what it makes of them: [status, object, err]

Kinds == {"compile", "link"}
Paths == Tree \cup Deps
Files == [Paths -> Contents \cup {NoFile}]
Trees == [Tree -> Contents \cup {NoFile}]
Outcomes == {"ok", "error", "missing"}

\* Every file a build can name, its tree being t.
ViewOf(b, t) == [p \in Paths |-> IF p \in Tree THEN t[p] ELSE FileOf[StoreOf[b][p]]]

SameFiles(f, g, ps) == \A p \in ps : f[p] = g[p]

\* The files a result depends on.
Inputs(k, f) == Reads(k, f) \cup Misses(k, f) \cup {Source, Tool}

ASSUME ToolchainAssumption ==
  /\ BuildOf \in [Jigs -> Builds]
  /\ KindOf \in [Jigs -> Kinds]
  /\ WantsDep \in [Jigs -> BOOLEAN]
  /\ Tree \cap Deps = {} /\ Embedded \subseteq Deps
  /\ Source \in Tree /\ Tool \in Deps
  /\ NoFile \notin Contents
  /\ Unpacked \subseteq Trees
  /\ \A b \in Builds, p \in Deps : FileOf[StoreOf[b][p]] \in Contents \cup {NoFile}

\* The compiler is deterministic: the same inputs give the same lookups and the
\* same result.
ASSUME CompilerAssumption ==
  \A k \in Kinds, f \in Files :
    /\ Reads(k, f) \subseteq {p \in Paths : f[p] # NoFile}
    /\ Misses(k, f) \subseteq {p \in Paths : f[p] = NoFile}
    /\ Output(k, f).status \in Outcomes
    /\ \A g \in Files : SameFiles(f, g, Inputs(k, f)) =>
         /\ Reads(k, g) = Reads(k, f)
         /\ Misses(k, g) = Misses(k, f)
         /\ Output(k, g) = Output(k, f)

\* The store paths that end up in what a build makes.
PathsIn(b) == [p \in Embedded |-> StoreOf[b][p]]

\* What the caller of a compiler gets: the object carries the $out of its build and
\* the store paths it was given, the depfile names what was read.
Result(j, f) ==
  LET o == Output(KindOf[j], f)
  IN  [status |-> o.status,
       object |-> IF o.status = "ok"
                  THEN [text |-> o.object, out |-> OutOf[BuildOf[j]],
                        paths |-> PathsIn(BuildOf[j])]
                  ELSE NoFile,
       dep    |-> IF o.status = "ok" /\ WantsDep[j] THEN Reads(KindOf[j], f) ELSE {},
       err    |-> o.err]
=============================================================================
