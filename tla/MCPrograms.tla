----------------------------- MODULE MCPrograms -----------------------------
EXTENDS Programs, TLC

CONSTANT MaxArgs

Store == <<"nix", "store">>

(***************************************************************************)
(* Relocation: a program or library of "app" that may use a library of its *)
(* own, one of a dependency given by -l or by path, and the C++ runtime;   *)
(* "long" has a copy of the package's library and of that of "dep".        *)
(***************************************************************************)
Dir(pkg) == Store \o <<pkg, "lib">>
Src == <<"build", "src">>

MCChars ==
  [c \in {"nix", "store", "build", "src", "prefix", "lib", "bin", "home", "alt", "usr", "sub", "deep"} |-> 4]
  @@ [c \in {"app", "dep", "rt", "libc"} |-> 40] @@ ("long" :> 90)
  @@ [c \in {"own", "z", "q", "p", "c++", "c", "ld.so"} |-> 12]
MCLibsIn ==
  (Src :> {"own"}) @@ (<<"build", "prefix", "lib">> :> {"own"}) @@ (Dir("dep") :> {"z"})
  @@ (Dir("long") :> {"q", "p", "z", "own"}) @@ (Dir("rt") :> {"c++"}) @@ (Dir("libc") :> {"c"})
MCReal == (<<"build", "link">> :> Dir("dep"))
MCInstalled == (Src :> <<"build", "prefix", "lib">>)
MCPlaces == {<<"lib">>, <<"lib", "sub", "deep">>}
MCRoots == {Store, <<"home", "alt", "deep">>}
MCLdFlags == <<[opt |-> "L", val |-> Dir("long")]>>
MCOwn == <<<<"build", "prefix", "lib">>>>
MCPrefix == <<"build", "prefix">>
MCDest == <<"nix", "store", "app">>
MCLibc == <<"nix", "store", "libc">>
MCRuntimes == Dir("rt")

A(o, v) == [opt |-> o, val |-> v]
ToOrigin == [org |-> TRUE, ups |-> 1, down |-> <<"lib">>, dot |-> FALSE]
Options == {
  A("L", Src), A("L", <<"build", "link">>), A("l", <<"own">>), A("l", <<"z">>), A("l", <<"q">>),
  A("l", <<"c++">>), A("file", Dir("long") \o <<"q">>),
  A("file", Dir("long") \o <<"p">>), A("nostdlib", <<>>),
  A("rpath", <<Abs(Src, FALSE), Abs(<<"usr", "lib">>, FALSE)>>),
  A("rpath", <<Abs(<<"build", "prefix", "lib">>, FALSE)>>),
  A("rpath", <<ToOrigin, Abs(Dir("long"), FALSE)>>),
  A("shared", <<>>), A("nostartfiles", <<>>), A("c", <<>>), A("interp", <<>>)}
MCCommands == {<<A("src", <<>>)>> \o s : s \in BoundedSeq(Options, MaxArgs)}

(***************************************************************************)
(* Start: package "app" has a script foo, run by the python of "py", which *)
(* is launched itself, and a program bar; a profile, aliases and a virtual *)
(* environment lead to them.                                               *)
(***************************************************************************)
Bin(pkg, f) == Store \o <<pkg, "bin", f>>
Home == <<"home", "u">>
LdSo == Store \o <<"libc", "lib", "ld.so">>

MCDirLinks == (Home \o <<"prof">>) :> (Store \o <<"app">>)
Symlink(abs, p) == [abs |-> abs, path |-> p]
ToLaunch == Symlink(FALSE, <<"..", "..", "launch", "bin", "launch">>)
MCLinks ==
  (Bin("app", "foo") :> ToLaunch) @@ (Bin("py", "python3") :> Symlink(FALSE, <<"python3.14">>))
  @@ (Bin("py", "python3.14") :> ToLaunch)
  @@ ((Home \o <<"bin", "foo">>) :> Symlink(TRUE, Home \o <<"prof", "bin", "foo">>))
  @@ ((Home \o <<"{root}", "python">>) :> Symlink(TRUE, Bin("py", "python3")))
  @@ ((Home \o <<"bin", "bar">>) :> Symlink(TRUE, Bin("app", "bar")))
  @@ ((Home \o <<"old", "foo">>) :> Symlink(TRUE, Bin("gone", "foo")))
MCExecutables == {Bin("launch", "launch"), Bin("app", "bar"), Bin("py", ".python"), LdSo}
MCFiles == MCExecutables \cup {Bin("app", ".foo"), <<"usr", "foo">>}
Odd == <<<<>>, <<"a">>, <<"\\">>, <<"a", "\"">>, <<"a", " ", "b">>, <<"a", "\\", "\"", "\\", "\\">>>>
Record(program, args, path) ==
  [program |-> program, args |-> args,
   env |-> [PATH |-> [prepend |-> path], TZDIR |-> [default |-> <<<<"{store}", "tz">>>>]]]
OddArgs == [i \in 1..36 |-> <<Odd[((i - 1) \div 6) + 1], Odd[((i - 1) % 6) + 1]>>]
ExeOf(i) == Bin("app", "foo" \o ToString(i))
HiddenExeOf(i) == Bin("app", ".foo" \o ToString(i))
MCRecords ==
  (Bin("app", "foo") :> Record(<<"{store}", "py", "bin", "python3">>, <<<<"{root}", "bin", ".foo">>>>,
                               <<<<"{store}", "tool", "bin">>, <<"{root}", "bin">>>>))
  @@ (Bin("py", "python3.14") :> (Record(<<"{root}", "bin", ".python">>, <<>>, <<<<"{root}", "bin">>>>)
                                  @@ [argv0 |-> <<"{argv0}">>]))
  @@ [e \in {ExeOf(i) : i \in DOMAIN OddArgs} |->
        LET i == CHOOSE k \in DOMAIN OddArgs : e = ExeOf(k)
        IN  Record(<<"{root}", "bin", Last(HiddenExeOf(i))>>, OddArgs[i], <<<<"{store}", "dll">>>>)]

(* Commands *)
Args == BoundedSeq({<<"a">>, <<"{root}">>}, 2)
Paths == {Unset, Empty, <<Home \o <<"bin">>>>, <<<<"usr">>, Home \o <<"prof", "bin">>>>, <<<<>>, <<"usr">>>>}
Env(path, tz) == [PATH |-> path, TZDIR |-> tz]
Python == Bin("py", ".python")
Script == Bin("app", ".foo")
ScriptRun == [exe |-> Python, argv |-> <<Bin("py", "python3"), Script>>, ldso |-> LdSo]
Ways ==   \* path executed, argv[0], PATH, what is to run
  {[exe |-> e, argv0 |-> e, path |-> p, wants |-> ScriptRun] :
     e \in {Home \o <<"bin", "foo">>, Home \o <<"prof", "bin", "foo">>, Bin("app", "foo")}, p \in Paths}
  \cup {[exe |-> Home \o <<"bin", "foo">>, argv0 |-> <<"foo">>, path |-> <<Home \o <<"bin">>>>, wants |-> ScriptRun],
        [exe |-> Home \o <<"bin", "foo">>, argv0 |-> <<".", "bin", "foo">>, path |-> Empty, wants |-> ScriptRun],
        [exe |-> Home \o <<"prof", "bin", "foo">>, argv0 |-> <<"foo">>, path |-> <<<<>>, Home \o <<"prof", "bin">>>>,
         wants |-> ScriptRun],
        [exe |-> Home \o <<"bin", "foo">>, argv0 |-> <<"foo">>, wants |-> ScriptRun,
         path |-> <<<<"usr">>, Home \o <<"old">>, Home \o <<"bin">>>>]}
  \cup {[exe |-> Home \o <<"{root}", "python">>, argv0 |-> Home \o <<"{root}", "python">>, path |-> p,
         wants |-> [ScriptRun EXCEPT !.argv = <<Home \o <<"{root}", "python">>>>]] : p \in Paths}
  \cup {[exe |-> e, argv0 |-> e, path |-> Unset, wants |-> [exe |-> e, argv |-> <<e>>, ldso |-> LdSo]] :
          e \in {Bin("app", "bar"), Home \o <<"bin", "bar">>}}
Lines == {<<"\"", "x", " ", "\"">>, <<"x">>}
Tails == {<<>>, <<" ", "a">>, <<" ", "\"", "a", " ", "b", "\"", " ", " ", "\\">>, <<" ", "\"", "\"">>}

(* Layouts *)
P(type, vaddr, offset, filesz, memsz, flags) ==
  [type |-> type, vaddr |-> vaddr, offset |-> offset, filesz |-> filesz, memsz |-> memsz, flags |-> flags]
RX == {"r", "x"}
RW == {"r", "w"}
\* A program of 12 bytes at "at", its headers from the second byte on.
Self(at, text, pie) ==
  LET v == IF pie THEN 0 ELSE at
  IN  [phdr |-> at + 1, phsize |-> 2, interp |-> Symlink(FALSE, <<"..", "..", "libc", "lib", "ld.so">>),
       ph |-> (IF pie THEN <<P("PHDR", v + 1, 1, 8, 8, {"r"})>> ELSE <<>>)
              \o <<P("NULL", v + 4, 4, 2, 2, {"r"}), P("NULL", 0, 0, 0, 0, {}),
                   P("LOAD", v, 0, 8, 8, text), P("LOAD", v + 8, 8, 4, 4, RW)>>,
       mem |-> [a \in 0..47 |-> IF a \in at..(at + 7) THEN [prot |-> text, byte |-> 0]
                                ELSE IF a \in (at + 8)..(at + 11) THEN [prot |-> RW, byte |-> 0]
                                ELSE [prot |-> {}, byte |-> 0]]]
LdSoAt(lo, pg, f1, o2, f2, bss, more) ==
  [base |-> 16, len |-> o2 + f2 + more,
   ph |-> <<P("LOAD", lo, 0, f1, f1, RX), P("NOTE", lo, 0, 1, 1, {"r"}),
            P("LOAD", lo + Up(f1, pg) + (o2 % pg), o2, f2, f2 + bss, RW)>>]
SomeLdSo == LdSoAt(0, 4, 5, 6, 3, 4, 2)
LdSos(pg) == {LdSoAt(lo, pg, f1, f1 + gap, f2, bss, more) :
                lo \in {0, 4}, f1 \in {3, 5}, gap \in 0..1, f2 \in {1, 3, 4}, bss \in {0, 1, 2, 5}, more \in {0, 3}}

Scenario(pe, way, args, line, tz, mounted, pg, self, ld, n) ==
  [pe |-> pe, exe |-> way.exe, argv |-> <<way.argv0>> \o args, line |-> line, env |-> Env(way.path, tz),
   wants |-> [way.wants EXCEPT !.argv = @ \o args], proc |-> mounted, pg |-> pg, self |-> self, ld |-> ld, loads |-> n]
Plain == CHOOSE w \in Ways : w.exe = Bin("app", "bar")
Exe(i) == [exe |-> ExeOf(i), argv0 |-> ExeOf(i), path |-> <<<<"win">>>>,
           wants |-> [exe |-> HiddenExeOf(i), argv |-> <<HiddenExeOf(i)>> \o OddArgs[i], ldso |-> LdSo]]
MCScenarios ==
  {Scenario(FALSE, w, args, <<>>, tz, mounted, 4, Self(4, RX, TRUE), SomeLdSo, 0) :
     w \in Ways, args \in Args, tz \in {Unset, Empty, <<<<"tz">>>>}, mounted \in BOOLEAN}
  \cup {Scenario(TRUE, Exe(i), ArgsOf(l \o t), l \o t, Unset, TRUE, 4, Self(4, RX, TRUE), SomeLdSo, 0) :
          i \in DOMAIN OddArgs, l \in Lines, t \in Tails}
  \cup UNION {{Scenario(FALSE, Plain, <<>>, <<>>, Unset, TRUE, pg, Self(4, text, pie), ld, 0) :
                 text \in {{"r"}, RX}, pie \in BOOLEAN, ld \in LdSos(pg)} : pg \in {2, 4}}
  \cup {Scenario(FALSE, Plain, <<>>, <<>>, Unset, TRUE, 4, Self(4, RX, TRUE), SomeLdSo, 4)}

MCAliasOf == ("z" :> {"z", "z.1"}) @@ ("q" :> {"q"}) @@ ("nss" :> {"nss"})
=============================================================================
