----------------------------- MODULE Relocation -----------------------------
(***************************************************************************)
(* The life of a binary: jig's driver and the linker make it, the build    *)
(* installs it somewhere under its prefix, reloc-fixup rewrites it, the    *)
(* prefix moves to the store, the store moves anywhere, and the dynamic    *)
(* linker looks for the libraries.                                         *)
(***************************************************************************)
EXTENDS ElfFixup

CONSTANTS
  Commands,    \* command lines
  Places,      \* directories of the package, relative to it
  Installed,   \* where a library of the build tree is installed
  Roots,       \* where the store may be
  MaxFixups    \* reloc-fixup may run more than once

ASSUME RelocationAssumption ==
  /\ StoreDir \in Roots /\ MaxFixups \in Nat
  /\ IsStorePath(Dest) /\ ~IsStorePath(Prefix) /\ IsStorePath(Libc)

VARIABLES
  stage,
  cmd,      \* the command line, and whether it is C++
  img,      \* the ELF file
  origin,   \* for each NEEDED, the directory of the library linked against
  here,     \* the file's directory
  root,     \* where the store is
  exit,     \* of the last reloc-fixup
  fixups,
  opened    \* for each NEEDED, the directory of the library loaded, or <<>>

relocVars == <<stage, cmd, img, origin, here, root, exit, fixups, opened>>

NoImage == Link(<<>>, <<>>, FALSE)

RelocInit(cmds) ==
  /\ stage = "source"
  /\ cmd \in cmds
  /\ img = NoImage /\ origin = <<>> /\ here = Prefix /\ root = StoreDir
  /\ exit = 0 /\ fixups = 0 /\ opened = <<>>

\* jig runs the compiler, which does not link, or whose link fails when a library is
\* nowhere.
Compile ==
  /\ stage = "source"
  /\ \E out \in {BuildDriverArgs(cmd.cxx, cmd.args)} : \E libs \in {Linked(cmd.cxx, out)} :
       LET links == ScanUserArgs(cmd.args).linking /\ \A i \in DOMAIN libs : libs[i].dir # <<>>
       IN  \/ /\ links
              /\ \E merged \in BOOLEAN : img' = Link(libs, out, merged)
              /\ origin' = [i \in DOMAIN libs |-> libs[i].dir]
              /\ stage' = "built"
           \/ /\ ~links
              /\ stage' = "ended" /\ UNCHANGED <<img, origin>>
  /\ UNCHANGED <<cmd, here, root, exit, fixups, opened>>

\* The build installs the binary, and its libraries beside it.
Install ==
  /\ stage = "built"
  /\ \E p \in Places : here' = Prefix \o p
  /\ origin' = [i \in DOMAIN origin |-> IF origin[i] \in DOMAIN Installed THEN Installed[origin[i]] ELSE origin[i]]
  /\ stage' = "installed"
  /\ UNCHANGED <<cmd, img, root, exit, fixups, opened>>

\* RunFixupMode; a failure ends the build, also that to write the file back.
Fixup ==
  /\ stage = "installed" /\ fixups < MaxFixups
  /\ \E fixed \in {FixElf(img, here)} :
       \/ /\ img' = fixed.img
          /\ exit' = IF fixed.errors = 0 THEN 0 ELSE 1
          /\ stage' = IF fixed.errors = 0 THEN "installed" ELSE "failed"
       \/ /\ fixed.img # img
          /\ exit' = 1 /\ stage' = "unwritten" /\ UNCHANGED img
  /\ fixups' = fixups + 1
  /\ UNCHANGED <<cmd, origin, here, root, opened>>

\* finish moves the prefix into the store.
Publish ==
  /\ stage = "installed" /\ fixups > 0
  /\ stage' = "stored"
  /\ here' = Final(here)
  /\ origin' = [i \in DOMAIN origin |-> Final(origin[i])]
  /\ UNCHANGED <<cmd, img, root, exit, fixups, opened>>

\* The package and its closure are copied under another root.
Move ==
  /\ stage = "stored"
  /\ \E r \in Roots \ {root} :
       /\ root' = r
       /\ here' = Rebase(here, root, r)
       /\ origin' = [i \in DOMAIN origin |-> Rebase(origin[i], root, r)]
  /\ UNCHANGED <<stage, cmd, img, exit, fixups, opened>>

----------------------------------------------------------------------------
(* Kernel, stub and dynamic linker *)

\* What is in a directory wherever the store is; Dest has what Prefix had.
LibsNow(dir) == IF IsPrefix(root, dir) THEN Libs(OnDisk(Rebase(dir, root, StoreDir))) ELSE {}

\* reloc_main opens the interpreter relative to /proc/self/exe.
Interpreter ==
  CASE img.entry = "stub" -> IF img.interp.org THEN Denotes(here, img.interp) ELSE img.interp.down
    [] img.type = "INTERP" -> img.interp.down
    [] OTHER -> <<>>

\* A name with a slash is opened, others are searched along RUNPATH.
Opens(need) ==
  IF need.at # 0
  THEN LET s == StringAt(img, need.at)
       IN  IF s # <<>> /\ s[1].target.name \in LibsNow(Denotes(here, s[1].target.entry))
           THEN Denotes(here, s[1].target.entry) ELSE <<>>
  ELSE LET dirs == SelectSeq([i \in DOMAIN img.runpath |->
                       IF img.runpath[i].org THEN Denotes(here, img.runpath[i]) ELSE img.runpath[i].down],
                     LAMBDA d : need.name \in LibsNow(d))
       IN  IF dirs = <<>> THEN <<>> ELSE dirs[1]

Load ==
  /\ stage = "stored"
  /\ opened' = [i \in DOMAIN img.needed |-> Opens(img.needed[i])]
  /\ stage' = "loaded"
  /\ UNCHANGED <<cmd, img, origin, here, root, exit, fixups>>

RelocEnd == stage \in {"ended", "failed", "unwritten", "loaded"} /\ UNCHANGED relocVars

RelocNext == Compile \/ Install \/ Fixup \/ Publish \/ Move \/ Load \/ RelocEnd

RelocSpec == RelocInit([args : Commands, cxx : BOOLEAN]) /\ [][RelocNext]_relocVars

----------------------------------------------------------------------------
(* Properties *)

\* Links without start files get no policy (driver.cc, RefusesLinkPolicy).
Policy == ~ScanUserArgs(cmd.args).no_policy

Moved(dir) == Rebase(Final(dir), StoreDir, root)

\* The directories that come before the one the linker took library i from: those of rpaths
\* and of libraries given by path, and for a library of the package itself, whose directory
\* reloc-fixup adds last, also those of -L.
Ahead(i) ==
  LET args == cmd.args \o LdFlags
      own == IsPrefix(Moved(Dest), origin[i])
  IN  {IF e.org THEN Denotes(here, e) ELSE Moved(e.down) : e \in ToSet(FlattenSeq(Values(args, "rpath")))}
      \cup {Moved(Front(RealDir(f))) : f \in ToSet(Values(args, "file"))}
      \cup {Moved(RealDir(d)) : d \in IF own THEN ToSet(Values(args, "L")) ELSE {}}

\* A binary that reloc-fixup let pass loads, wherever its closure has been moved to, the
\* very libraries it was linked against (README.md: "Binaries find their libraries relative
\* to themselves"), unless the command line itself put another directory with a library of
\* that name ahead; then it loads that one, and always one.
LoadsWhatWasLinked ==
  stage = "loaded" /\ Policy =>
    \A i \in DOMAIN origin : opened[i] = origin[i] \/ opened[i] \in Ahead(i)

\* ... and its interpreter is the libc of its closure.
RunsOnItsLibc ==
  stage = "loaded" /\ Policy /\ img.type # "none" /\ HasCrt
    => Interpreter = root \o SubSeq(Libc, Len(StoreDir) + 1, Len(Libc)) \o <<"lib", "ld.so">>

\* A -nostdlib after the -lc++ it does not mean (driver.cc, links_runtime).
RuntimeForgotten ==
  \E i, k \in DOMAIN cmd.args :
    /\ i < k /\ cmd.args[k].opt = "nostdlib"
    /\ cmd.args[i].opt = "l" /\ cmd.args[i].val[1] \in RuntimeLibs

\* The padding suffices and every library is found: no link of ours is refused, unless
\* its linker merged strings or the runtime was forgotten.
NeverRefused ==
  stage = "failed" => img.merged \/ RuntimeForgotten

\* The rewritten strings stay within the bytes of the RUNPATH the linker wrote: no
\* other string of the table is overwritten.
InPlace ==
  img.dynamic => \A s \in ToSet(img.strings) : s.at + TargetSize(s.target) <= img.slot

=============================================================================
