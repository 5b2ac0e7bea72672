------------------------------- MODULE Launch -------------------------------
(***************************************************************************)
(* launch (pkgs/la/launch/src/launch.cc): from the name it was started     *)
(* under to the program, arguments and environment of a record.  A text is *)
(* a sequence of tokens (path components, placeholders, characters); the   *)
(* value of a variable is the sequence of its elements between separators, *)
(* so the empty string is <<"">>, here << <<>> >>.                         *)
(***************************************************************************)
EXTENDS Integers, Sequences, SequencesExt

CONSTANTS
  DirLinks,   \* directories that are symlinks, with where they lead
  Links,      \* other symlinks: [abs, path]
  Files,      \* other files
  Executables,
  Records,    \* the record beside a launcher, by the launcher's path
  Cwd

Unset == <<>>
Empty == <<<<>>>>

\* fs::canonical of a directory.
Canonical(p) ==
  FoldLeft(LAMBDA d, c : CASE c = ".." -> Front(d)
                           [] Append(d, c) \in DOMAIN DirLinks -> DirLinks[Append(d, c)]
                           [] OTHER -> Append(d, c), <<>>, p)

\* Where an entry of a directory really is.
Entry(p) == Append(Canonical(Front(p)), Last(p))
Target(p) ==
  LET t == Links[Entry(p)] IN IF t.abs THEN t.path ELSE Front(p) \o t.path

\* The kernel follows links.
RECURSIVE RealFile(_)
RealFile(p) == IF Entry(p) \in DOMAIN Links THEN RealFile(Target(p)) ELSE Entry(p)

\* access(X_OK).
Runnable(p) == RealFile(p) \in Executables

Dead == [ok |-> FALSE]

\* argv[0] as a path: as given when it has a slash, else as the shell found it.
Argv0Path(argv0, path) ==
  LET Absolute(p) == IF p # <<>> /\ p[1] = "." THEN Cwd \o Tail(p) ELSE p
      At(e) == (IF e = <<>> THEN Cwd ELSE Absolute(e)) \o argv0
      hit == SelectInSeq(path, LAMBDA e : Runnable(At(e)))
  IN  IF Len(argv0) > 1 THEN [ok |-> TRUE, path |-> Absolute(argv0)]
      ELSE IF path = Unset \/ hit = 0 THEN Dead
      ELSE [ok |-> TRUE, path |-> At(path[hit])]

kMaxHops == 32

\* Mutant of Follow: links are not followed.
FollowFirst(cur, hop) == [ok |-> TRUE, path |-> Entry(cur)]

\* From link to link, until one's target is named "launch".
RECURSIVE Follow(_, _)
Follow(cur, hop) ==
  IF hop = kMaxHops \/ Entry(cur) \notin DOMAIN Links THEN Dead
  ELSE IF Last(Target(cur)) = "launch" THEN [ok |-> TRUE, path |-> Entry(cur)]
  ELSE Follow(Target(cur), hop + 1)

\* The link's directory is canonicalized, its name kept: that selects the record.
InvokedPath(argv0, path) ==
  LET start == Argv0Path(argv0, path) IN IF start.ok THEN Follow(start.path, 0) ELSE Dead

Replace(text, key, val) == FlattenSeq([i \in DOMAIN text |-> IF text[i] = key THEN val ELSE <<text[i]>>])

\* One placeholder after the other; what argv0 says is not looked at again.
Expand(text, ctx) ==
  Replace(Replace(Replace(Replace(text, "{root}", ctx.root), "{store}", ctx.store),
                  "{self}", ctx.self), "{argv0}", ctx.argv0)

StringList(val, ctx) == [i \in DOMAIN val |-> Expand(val[i], ctx)]
Join(parts) == IF parts = <<>> THEN Empty ELSE parts

\* Mutant of ApplyOp: an empty variable counts as an element.
ApplyOpEmpty(oper, val, cur, ctx) ==
  CASE oper = "unset" -> Unset
    [] oper = "set" -> Join(StringList(val, ctx))
    [] oper = "default" -> IF cur = Unset THEN Join(StringList(val, ctx)) ELSE cur
    [] oper = "prepend" -> Join(StringList(val, ctx) \o cur)
    [] oper = "append" -> Join(cur \o StringList(val, ctx))

\* An operation of ApplyEnv on the variable's current value.
ApplyOp(oper, val, cur, ctx) ==
  LET parts == StringList(val, ctx)
      old == IF cur = Empty THEN <<>> ELSE cur
  IN  CASE oper = "unset" -> Unset
        [] oper = "set" -> Join(parts)
        [] oper = "default" -> IF cur = Unset THEN Join(parts) ELSE cur
        [] oper = "prepend" -> Join(parts \o old)
        [] oper = "append" -> Join(old \o parts)

\* The operations of an entry, in the order of a JSON object's keys.
ApplyEnv(spec, cur, ctx) ==
  FoldLeft(LAMBDA v, oper : IF oper \in DOMAIN spec THEN ApplyOp(oper, spec[oper], v, ctx) ELSE v,
           cur, <<"append", "default", "prepend", "set", "unset">>)

\* Mutant of Argv0: a record without argv0 passes on ours.
Argv0Kept(rec, program, ctx) == IF "argv0" \in DOMAIN rec THEN Expand(rec.argv0, ctx) ELSE ctx.argv0

Argv0(rec, program, ctx) == IF "argv0" \in DOMAIN rec THEN Expand(rec.argv0, ctx) ELSE program

\* main, up to Run: the record's program, its argv0 and first arguments, the environment.
Prepare(self, argv0, env) ==
  LET ctx == [root  |-> Front(Front(self.path)), store |-> Front(Front(Front(self.path))),
              self  |-> self.path, argv0 |-> argv0]
      rec == Records[self.path]
      program == Expand(rec.program, ctx)
  IN  IF ~self.ok \/ self.path \notin DOMAIN Records THEN Dead
      ELSE [ok |-> TRUE, self |-> self.path, program |-> program,
            argv0 |-> Argv0(rec, program, ctx), pre |-> StringList(rec.args, ctx),
            env |-> [v \in DOMAIN env |->
                       IF v \in DOMAIN rec.env THEN ApplyEnv(rec.env[v], env[v], ctx) ELSE env[v]]]

----------------------------------------------------------------------------
(* The Windows half: a command line is one text *)

Backslashes(n) == [i \in 1..n |-> "\\"]

\* Backslashes are doubled before a quote and at the end.
RECURSIVE Quoted(_, _)
Quoted(arg, slashes) ==
  CASE arg = <<>> -> Backslashes(2 * slashes)
    [] arg # <<>> /\ Head(arg) = "\\" -> Quoted(Tail(arg), slashes + 1)
    [] arg # <<>> /\ Head(arg) # "\\" ->
         Append(Backslashes(IF Head(arg) = "\"" THEN 2 * slashes + 1 ELSE slashes), Head(arg)) \o Quoted(Tail(arg), 0)

AppendArg(arg) == <<" ", "\"">> \o Quoted(arg, 0) \o <<"\"">>

\* What follows argv[0] in our own command line.
UserArgs(line) ==
  LET close == SelectInSeq(Tail(line), LAMBDA c : c = "\"")
      space == SelectInSeq(line, LAMBDA c : c = " ")
      end == IF line # <<>> /\ line[1] = "\"" THEN IF close = 0 THEN Len(line) ELSE close + 1
             ELSE IF space = 0 THEN Len(line) ELSE space - 1
  IN  SubSeq(line, end + 1, Len(line))

\* The command line given to CreateProcess.
CommandLine(argv0, pre, own) ==
  Tail(AppendArg(argv0)) \o FlattenSeq([i \in DOMAIN pre |-> AppendArg(pre[i])]) \o UserArgs(own)

\* CommandLineToArgvW: one character more.
Read(s, c) ==
  LET Put(cs) == [s EXCEPT !.arg = @ \o cs, !.in = TRUE, !.slashes = 0]
      t == IF s.slashes = 0 THEN s ELSE Put(Backslashes(s.slashes))
  IN  CASE c = "\\" -> [s EXCEPT !.slashes = @ + 1]
        [] c = "\"" /\ s.slashes % 2 = 1 -> Put(Append(Backslashes(s.slashes \div 2), "\""))
        [] c = "\"" /\ s.slashes % 2 = 0 -> [Put(Backslashes(s.slashes \div 2)) EXCEPT !.quoted = ~@]
        [] c = " " /\ ~s.quoted /\ ~t.in -> t
        [] c = " " /\ ~s.quoted /\ t.in -> [t EXCEPT !.args = Append(@, t.arg), !.arg = <<>>, !.in = FALSE]
        [] OTHER -> [t EXCEPT !.arg = Append(@, c), !.in = TRUE]

RECURSIVE ReadAll(_, _)
ReadAll(line, s) == IF line = <<>> THEN s.args ELSE ReadAll(Tail(line), Read(s, Head(line)))

\* ... on what follows argv[0].
ArgsOf(line) ==
  ReadAll(Append(UserArgs(line), " "),
          [args |-> <<>>, arg |-> <<>>, in |-> FALSE, quoted |-> FALSE, slashes |-> 0])
=============================================================================
