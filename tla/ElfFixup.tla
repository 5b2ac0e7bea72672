------------------------------ MODULE ElfFixup ------------------------------
(***************************************************************************)
(* reloc-fixup on one ELF file (pkgs/ji/jig/src/fixup_mode.cc and          *)
(* elf_fixup.cc).  The build installs under Prefix what will be at Dest.   *)
(* RUNPATH and interpreter are rewritten in place, in the bytes they have, *)
(* so the sizes of the strings decide what is possible.                    *)
(***************************************************************************)
EXTENDS Driver

CONSTANTS
  Prefix, Dest,
  OwnLibDirs    \* directories under Prefix with shared libraries, sorted

Final(path) == Rebase(path, Prefix, Dest)

OnDisk(path) == Rebase(path, Dest, Prefix)

Origin(dir, target, dot) ==
  LET rel == RelativeTo(dir, target)
  IN  [org |-> TRUE, ups |-> rel.ups, down |-> rel.down, dot |-> dot /\ target # dir]

\* The RUNPATH as directories, each at its final place; what is not in the store
\* drops out.  Then the package's own library directories.
RelativizeRunpath(runpath, here) ==
  LET home == Final(here)
      At(e) == IF e.org THEN Denotes(home, e) ELSE Final(e.down)
      kept == SelectSeq(runpath, LAMBDA e : IsStorePath(At(e)))
  IN  [i \in DOMAIN kept |->
         [entry |-> Origin(home, At(kept[i]), kept[i].dot), dir |-> OnDisk(At(kept[i])), keep |-> TRUE]]
      \o [i \in DOMAIN OwnLibDirs |->
         [entry |-> Origin(home, Final(OwnLibDirs[i]), FALSE), dir |-> OwnLibDirs[i], keep |-> FALSE]]

RenderRunpath(dirs) ==
  LET kept == SelectSeq(dirs, LAMBDA d : d.keep) IN Distinct([i \in DOMAIN kept |-> kept[i].entry])

TextSize(entries) ==
  IF entries = <<>> THEN 0 ELSE Total([i \in DOMAIN entries |-> EntrySize(entries[i]) + 1]) - 1

\* "<entry>/<soname>"
TargetSize(t) == EntrySize(t.entry) + 1 + Chars[t.name]

IsLibc(dir) == "c" \in Libs(dir)

\* The offsets written into DT_NEEDED (and DT_VERNEED), from the start of the RUNPATH.
StringsAt(start, targets) ==
  [i \in DOMAIN targets |-> start + Total([k \in 1..(i - 1) |-> TargetSize(targets[k]) + 1])]

\* Mutant of Fits: the strings of direct libraries are not counted.
FitsRunpathOnly(neu, targets, size) == TextSize(neu) <= size

\* Whether RUNPATH and direct names fit where the old RUNPATH is.
Fits(neu, targets, size) ==
  TextSize(neu) + Total([i \in DOMAIN targets |-> TargetSize(targets[i]) + 1]) <= size

\* What is at an offset of the rewritten bytes.
StringAt(img, at) ==
  LET i == SelectInSeq(img.strings, LAMBDA s : s.at = at) IN IF i = 0 THEN <<>> ELSE <<img.strings[i]>>

Failed(img, n) == [img |-> img, errors |-> n, ok |-> FALSE]

\* The NEEDED of a file, and whether each is a path already; its DT_VERNEED names the
\* same string and goes with it.
ReadDynamic(img) == [i \in DOMAIN img.needed |-> [name |-> img.needed[i].name, slash |-> img.needed[i].at # 0]]

\* A symbol's name is the tail of the RUNPATH.
SymbolInside(img) == img.merged

\* Mutant of Providers: the last directory that has it.
ProvidersLast(dirs, needed) ==
  [i \in DOMAIN needed |->
     IF needed[i].slash THEN 0 ELSE SelectLastInSeq(dirs, LAMBDA d : needed[i].name \in Libs(d.dir))]

\* For each NEEDED that is no path yet, the first directory that has it, or 0.
Providers(dirs, needed) ==
  [i \in DOMAIN needed |->
     IF needed[i].slash THEN 0 ELSE SelectInSeq(dirs, LAMBDA d : needed[i].name \in Libs(d.dir))]

\* The NEEDED that become paths: not libc's.
Direct(dirs, prov) ==
  SelectSeq([i \in DOMAIN prov |-> i], LAMBDA i : prov[i] # 0 /\ ~IsLibc(dirs[prov[i]].dir))

\* The RUNPATH without the directories that served a direct name, or with them.
RunpathWithout(dirs, served) == RenderRunpath([k \in DOMAIN dirs |-> [dirs[k] EXCEPT !.keep = @ /\ k \notin served]])
RunpathWith(dirs, served) == RenderRunpath([k \in DOMAIN dirs |-> [dirs[k] EXCEPT !.keep = @ \/ k \in served]])

\* The new RUNPATH and behind it the direct names, in the bytes of the old; where the
\* names are (offset) is also where their DT_NEEDED point (at).
Rewritten(img, neu, direct, targets, at, offset) ==
  [img EXCEPT
    !.runpath = neu, !.size = TextSize(neu),
    !.strings = IF direct = <<>> THEN @ ELSE [i \in DOMAIN targets |-> [at |-> offset[i], target |-> targets[i]]],
    !.needed = [i \in DOMAIN @ |-> IF Contains(direct, i)
                  THEN [@[i] EXCEPT !.at = at[SelectInSeq(direct, LAMBDA k : k = i)]] ELSE @[i]]]

\* A file that needs no change is left alone; one whose strings are shared with symbols,
\* or too long, is an error beside those for NEEDED that nothing provides.
WriteRunpath(img, neu, direct, targets, start, missing) ==
  IF neu = img.runpath /\ TextSize(neu) = img.size /\ direct = <<>>
  THEN [img |-> img, errors |-> missing, ok |-> TRUE]
  ELSE IF SymbolInside(img) \/ TextSize(neu) > img.size THEN Failed(img, missing + 1)
  ELSE [img |-> Rewritten(img, neu, direct, targets, StringsAt(start, targets),
                  [i \in DOMAIN targets |-> start + Total([k \in 1..(i - 1) |-> TargetSize(targets[k]) + 1])]),
        errors |-> missing, ok |-> TRUE]

\* Without the room for direct names, names stay.
PlaceNames(img, left, all, direct, targets, missing) ==
  IF Fits(left, targets, img.size) THEN WriteRunpath(img, left, direct, targets, TextSize(left) + 1, missing)
  ELSE WriteRunpath(img, all, <<>>, <<>>, 0, missing)

ResolveNeeded(img, dirs, prov, direct) ==
  LET served == {prov[i] : i \in ToSet(direct)}
      missing == {i \in DOMAIN prov : prov[i] = 0 /\ img.needed[i].at = 0}
  IN  PlaceNames(img, RunpathWithout(dirs, served), RunpathWith(dirs, served), direct,
                 [k \in DOMAIN direct |-> [entry |-> dirs[prov[direct[k]]].entry, name |-> img.needed[direct[k]].name]],
                 Cardinality(missing))

\* Every NEEDED that a directory provides becomes a path, but libc's; a directory
\* leaves RUNPATH once its NEEDED are direct.
FixRunpath(img, here) ==
  LET Given(dirs, prov) == ResolveNeeded(img, dirs, prov, Direct(dirs, prov))
      Among(dirs) == Given(dirs, Providers(dirs, ReadDynamic(img)))
  IN  IF ~img.dynamic THEN [img |-> img, errors |-> 0, ok |-> TRUE]
      ELSE Among(RelativizeRunpath(img.runpath, here))

\* Mutant of FixInterp: the interpreter is counted from where the file is now.
FixInterpHere(img, here) ==
  [img |-> IF img.type # "INTERP" \/ ~img.stub THEN img
           ELSE [img EXCEPT !.interp = Origin(here, @.down, FALSE), !.type = "NULL", !.entry = "stub"],
   errors |-> 0, ok |-> TRUE]

\* The interpreter relative to the file, hidden from the kernel; the stub runs first.
FixInterp(img, here) ==
  LET rel == Origin(Final(here), img.interp.down, FALSE)
  IN  IF img.type # "INTERP" \/ ~img.stub THEN [img |-> img, errors |-> 0, ok |-> TRUE]
      ELSE IF IsStorePath(img.interp.down) /\ RelSize(rel) + 1 > img.capacity THEN Failed(img, 1)
      ELSE [img |-> [img EXCEPT !.interp = IF IsStorePath(@.down) THEN rel ELSE @,
                                !.type = "NULL", !.entry = "stub"],
            errors |-> 0, ok |-> TRUE]

\* FixElf: nothing is written back once a step has failed.
FixElf(img, here) ==
  LET Then(run, int) ==
        IF ~run.ok THEN [img |-> img, errors |-> run.errors]
        ELSE IF ~int.ok THEN [img |-> img, errors |-> run.errors + int.errors]
        ELSE [img |-> int.img, errors |-> run.errors]
      After(run) == Then(run, FixInterp(run.img, here))
  IN  After(FixRunpath(img, here))
=============================================================================
