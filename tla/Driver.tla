------------------------------- MODULE Driver -------------------------------
(***************************************************************************)
(* The command line jig gives the compiler for an ELF target               *)
(* (pkgs/ji/jig/src/driver.cc), and the ELF the linker makes of it.  An    *)
(* argument is a record [opt, val]; the spellings of an option are one.    *)
(***************************************************************************)
EXTENDS StorePaths

CONSTANTS
  Libc, Runtimes,   \* conf.libc, a package, and conf.runtimes, a directory
  HasCrt,           \* conf.crt is given: the stub is linked in
  LdFlags,          \* the package's flags from $PKGS_CC
  RuntimeLibs,      \* IsRuntimeLib
  LibsIn,           \* the libraries of a directory, where it exists
  Real              \* the directory a path denotes, where it is a symlink

kRunpathSlack == 48
kNeededSlack == 80
kInterpSlack == 12

Libs(dir) == IF dir \in DOMAIN LibsIn THEN LibsIn[dir] ELSE {}
RealDir(dir) == IF dir \in DOMAIN Real THEN Real[dir] ELSE dir

\* An element of a RUNPATH: absolute or from $ORIGIN; ours end in "/.", which
\* survives as a trailing slash.
Abs(path, dot) == [org |-> FALSE, ups |-> 0, down |-> path, dot |-> dot]
EntrySize(e) ==
  IF e.org THEN 7 + (IF e.ups = 0 /\ e.down = <<>> THEN 0 ELSE 1 + RelSize(e)) + (IF e.dot THEN 1 ELSE 0)
  ELSE AbsSize(e.down) + (IF e.dot THEN 2 ELSE 0)

IsHostDir(e) == ~e.org /\ e.down # <<>> /\ e.down[1] \in {"usr", "lib", "opt"}

Opts(args) == {a.opt : a \in ToSet(args)}
Values(args, o) == LET s == SelectSeq(args, LAMBDA a : a.opt = o) IN [i \in DOMAIN s |-> s[i].val]
Distinct(s) == FoldLeft(LAMBDA t, x : IF Contains(t, x) THEN t ELSE Append(t, x), <<>>, s)

\* The build system's rpaths become ours to render, host directories but; its
\* dynamic linker is dropped.
ScanUserArgs(raw) ==
  [args      |-> SelectSeq(raw, LAMBDA a : a.opt \notin {"rpath", "interp"}),
   verbatim  |-> SelectSeq(FlattenSeq(Values(raw, "rpath")), LAMBDA e : ~IsHostDir(e)),
   linking   |-> "c" \notin Opts(raw) /\ "src" \in Opts(raw),
   shared    |-> "shared" \in Opts(raw),
   no_policy |-> "nostartfiles" \in Opts(raw)]

\* Whether the C++ runtime is linked: the last word counts.
LinksRuntime(cxx, args) ==
  FoldLeft(LAMBDA r, a : IF a.opt = "l" /\ a.val[1] \in RuntimeLibs THEN TRUE
                         ELSE IF a.opt = "nostdlib" THEN FALSE ELSE r, cxx, args)

\* Mutant of AddRunpathEntries: a directory counts by the first -l alone.
AddRunpathEntriesFirst(cxx, args) ==
  LET wanted == SelectSeq(args, LAMBDA a : a.opt = "l")
      served == SelectSeq([i \in DOMAIN Values(args, "L") |-> RealDir(Values(args, "L")[i])],
                  LAMBDA d : IsStorePath(d) /\ wanted # <<>> /\ wanted[1].val[1] \in Libs(d))
  IN  Distinct(served \o <<Libc \o <<"lib">>>>)

\* Libraries given by path, -L directories that have some -l, the runtime, libc.
AddRunpathEntries(cxx, args) ==
  LET byPath == SelectSeq(Values(args, "file"), LAMBDA f : IsStorePath(f))
      wanted == {v[1] : v \in ToSet(Values(args, "l"))}
      served == SelectSeq([i \in DOMAIN Values(args, "L") |-> RealDir(Values(args, "L")[i])],
                  LAMBDA d : IsStorePath(d) /\ wanted \cap Libs(d) # {})
  IN  Distinct([i \in DOMAIN byPath |-> Front(RealDir(byPath[i]))] \o served
               \o (IF LinksRuntime(cxx, args) THEN <<Runtimes>> ELSE <<>>) \o <<Libc \o <<"lib">>>>)

\* RunpathList::Render: the elements and the length of the text, padding included.
Render(verbatim, entries, libs) ==
  LET elements == verbatim \o [i \in DOMAIN entries |-> Abs(entries[i], TRUE)]
  IN  [entries |-> elements,
       size |-> Total([i \in DOMAIN elements |-> EntrySize(elements[i]) + 1])
                + Max({Len(elements), 1}) * kRunpathSlack + libs * kNeededSlack]

\* ElfLink: RUNPATH, our dynamic linker and the stub.
ElfLink(cxx, user) ==
  LET args == user.args \o LdFlags
      interp == Libc \o <<"lib", "ld.so">>
  IN  <<[opt |-> "runpath", val |-> Render(user.verbatim, AddRunpathEntries(cxx, args), Len(Values(args, "l")))]>>
      \o (IF user.shared THEN <<>>
          ELSE IF ~HasCrt THEN <<[opt |-> "interp", val |-> [path |-> interp, size |-> AbsSize(interp)]]>>
          ELSE <<[opt |-> "crt", val |-> <<>>],
                 [opt |-> "interp", val |-> [path |-> interp, size |-> AbsSize(interp) + 2 * kInterpSlack]]>>)

\* The user's arguments, then the package's: later ones are searched later.
BuildDriverArgs(cxx, raw) ==
  LET user == ScanUserArgs(raw)
  IN  IF ~user.linking THEN user.args
      ELSE user.args \o LdFlags \o (IF user.no_policy THEN <<>> ELSE ElfLink(cxx, user))

----------------------------------------------------------------------------
(* The linker, which is not jig's *)

\* Where a -l is found: the first -L directory that has it, the toolchain's last.
FoundIn(out, lib) ==
  LET dirs == SelectSeq([i \in DOMAIN Values(out, "L") |-> RealDir(Values(out, "L")[i])]
                        \o <<Runtimes, Libc \o <<"lib">>>>, LAMBDA d : lib \in Libs(d))
  IN  IF dirs = <<>> THEN <<>> ELSE dirs[1]

\* The libraries of a link in order, each with the directory it came from.
Linked(cxx, out) ==
  LET asked == SelectSeq(out, LAMBDA a : a.opt \in {"l", "file"})
      implied == IF "nostdlib" \in Opts(out) THEN <<>> ELSE IF cxx THEN <<"c++", "c">> ELSE <<"c">>
      named == [i \in DOMAIN asked |->
                  IF asked[i].opt = "l" THEN [name |-> asked[i].val[1], dir |-> FoundIn(out, asked[i].val[1])]
                  ELSE [name |-> Last(asked[i].val), dir |-> Front(RealDir(asked[i].val))]]
  IN  Distinct(named \o [i \in DOMAIN implied |-> [name |-> implied[i], dir |-> FoundIn(out, implied[i])]])

LastValue(out, o, none) == IF o \in Opts(out) THEN Last(Values(out, o)) ELSE none

\* needed[i].at: 0, or where in the RUNPATH's bytes the name is now.
Link(libs, out, merged) ==
  [needed   |-> [i \in DOMAIN libs |-> [name |-> libs[i].name, at |-> 0]],
   dynamic  |-> "runpath" \in Opts(out),
   runpath  |-> LastValue(out, "runpath", [entries |-> <<>>, size |-> 0]).entries,
   size     |-> LastValue(out, "runpath", [entries |-> <<>>, size |-> 0]).size,
   slot     |-> LastValue(out, "runpath", [entries |-> <<>>, size |-> 0]).size,
   strings  |-> <<>>,
   merged   |-> merged,
   type     |-> IF "interp" \in Opts(out) THEN "INTERP" ELSE "none",
   interp   |-> Abs(LastValue(out, "interp", [path |-> <<>>, size |-> 0]).path, FALSE),
   capacity |-> LastValue(out, "interp", [path |-> <<>>, size |-> 0]).size + 1,
   stub     |-> "crt" \in Opts(out),
   entry    |-> "start"]
=============================================================================
