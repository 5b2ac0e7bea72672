------------------------------- MODULE Start --------------------------------
(***************************************************************************)
(* From a command to a running program: one launcher or several exec each  *)
(* other, the program's stub maps ld.so, ld.so loads libraries under       *)
(* dlaudit.  A scenario fixes the command, the program's layout and what   *)
(* is mounted; on PE the launchers are all there is.                       *)
(***************************************************************************)
EXTENDS Launch, CrtInterp, DlAudit, FiniteSets

CONSTANTS
  Scenarios,    \* [pe, exe, line, argv, env, wants, proc, pg, self, ld, loads]
  Names         \* what ld.so is asked for

VARIABLES
  sc,
  pc,
  proc,      \* the process: [exe, argv, line, env]
  chain,     \* the launchers it has been
  ldso,    \* the path of the interpreter
  seg,       \* how many segments are mapped
  mem, ph,   \* memory, and the program headers in it
  auxv,
  audit,
  loads      \* what ld.so looked for, with the outcome

startVars == <<sc, pc, proc, chain, ldso, seg, mem, ph, auxv, audit, loads>>

Launched == <<proc, chain>>
Memory == <<ldso, seg, mem, ph, auxv>>
Loader == <<audit, loads>>

StartInit(scs) ==
  /\ sc \in scs
  /\ pc = "exec"
  /\ proc = [exe |-> sc.exe, argv |-> sc.argv, line |-> sc.line, env |-> sc.env]
  /\ chain = <<>> /\ ldso = <<>> /\ seg = 0
  /\ mem = sc.self.mem /\ ph = sc.self.ph
  /\ auxv = [base |-> 0, entry |-> "stub"]
  /\ audit = [pending |-> NoName, out |-> <<>>, lost |-> 0] /\ loads = <<>>

\* On ELF every launcher is a link to launch; PE has copies instead.
IsLauncher(p) == IF sc.pe THEN Entry(p) \in DOMAIN Records ELSE Last(RealFile(p)) = "launch"

\* main of launch, with Run: execv, or CreateProcess with one command line.
LaunchMain ==
  /\ pc = "exec" /\ IsLauncher(proc.exe)
  /\ LET self == IF sc.pe THEN [ok |-> TRUE, path |-> Entry(proc.exe)]
                 ELSE InvokedPath(proc.argv[1], proc.env["PATH"])
         p == Prepare(self, proc.argv[1], proc.env)
         line == CommandLine(p.argv0, p.pre, proc.line)
     IN  \/ /\ ~p.ok
            /\ pc' = "dead"
            /\ UNCHANGED Launched
         \/ /\ p.ok
            /\ proc' = [exe |-> p.program, env |-> p.env,
                        line |-> IF sc.pe THEN line ELSE <<>>,
                        argv |-> <<p.argv0>> \o (IF sc.pe THEN ArgsOf(line) ELSE p.pre \o Tail(proc.argv))]
            /\ chain' = Append(chain, p.self)
            /\ UNCHANGED pc
  /\ UNCHANGED <<sc, Memory, Loader>>

\* The kernel starts a program; ours begin in the stub.
Enter ==
  /\ pc = "exec" /\ ~IsLauncher(proc.exe)
  /\ pc' = IF sc.pe THEN "exited" ELSE "stub"
  /\ UNCHANGED <<sc, Launched, Memory, Loader>>

\* reloc_main finds its interpreter, by /proc/self/exe or else by AT_EXECFN.
OpenInterp ==
  /\ pc = "stub"
  /\ InterpIndex(ph) # 0
  /\ ldso' = Canonical(InterpPath(IF sc.proc THEN RealFile(proc.exe) ELSE proc.exe, sc.self.interp))
  /\ pc' = IF ldso' \in Files THEN "map" ELSE "dead"
  /\ UNCHANGED <<sc, Launched, seg, mem, ph, auxv, Loader>>

Bias == sc.ld.base - Lo(sc.ld.ph, sc.pg)

\* The next PT_LOAD of ld.so, within what was reserved.
MapNext ==
  /\ pc = "map" /\ seg < Len(sc.ld.ph)
  /\ mem' = LET span == Hi(sc.ld.ph, sc.pg) - Lo(sc.ld.ph, sc.pg)
                m == IF seg = 0 THEN MapPages(mem, sc.ld.base, span, {}, Zeros(span)) ELSE mem
            IN  IF sc.ld.ph[seg + 1].type # "LOAD" THEN m ELSE MapSegment(m, sc.ld.ph[seg + 1], Bias, sc.pg, sc.ld.len)
  /\ seg' = seg + 1
  /\ UNCHANGED <<sc, pc, Launched, ldso, ph, auxv, Loader>>

\* The header is PT_INTERP again, its page as it was, and ld.so is told where it is.
Patch ==
  /\ pc = "map" /\ seg = Len(sc.ld.ph)
  /\ LET i == InterpIndex(ph)
         at == sc.self.phdr + (i - 1) * sc.self.phsize
     IN  /\ ph' = [ph EXCEPT ![i].type = "INTERP"]
         /\ mem' = Protect(mem, at, sc.self.phsize, sc.pg, PhdrProt(ph, sc.self.phdr, at))
  /\ auxv' = [base |-> Bias, entry |-> "start"]
  /\ pc' = "ld.so"
  /\ UNCHANGED <<sc, Launched, ldso, seg, Loader>>

\* A system call of the stub fails.
StubDies ==
  /\ pc \in {"stub", "map"}
  /\ pc' = "dead"
  /\ UNCHANGED <<sc, Launched, Memory, Loader>>

\* ld.so looks a name up: it opens an object, finds nothing, or finds what is
\* mapped under another name already.
LoadName ==
  /\ pc = "ld.so" /\ Len(loads) < sc.loads
  /\ \E name \in Names, outcome \in {"opened", "failed", "mapped"}, written \in BOOLEAN :
       /\ loads' = Append(loads, [name |-> name, outcome |-> outcome])
       /\ LET searched == ObjSearch(audit, name, written)
          IN  IF outcome = "opened" THEN \E f \in AliasOf[name] : audit' = ObjOpen(searched, f)
              ELSE audit' = searched
  /\ UNCHANGED <<sc, pc, Launched, Memory>>

\* la_preinit.
Preinit ==
  /\ pc = "ld.so" /\ audit.pending # NoName
  /\ \E written \in BOOLEAN : audit' = Flush(audit, written)
  /\ UNCHANGED <<sc, pc, Launched, Memory, loads>>

\* dlaudit_fini runs, or the process ends without it.
Exit ==
  /\ pc = "ld.so"
  /\ \/ pc' = "exited" /\ \E written \in BOOLEAN : audit' = Flush(audit, written)
     \/ pc' = "killed" /\ UNCHANGED audit
  /\ UNCHANGED <<sc, Launched, Memory, loads>>

StartEnd == pc \in {"exited", "killed", "dead"} /\ UNCHANGED startVars

StartNext == LaunchMain \/ Enter \/ OpenInterp \/ MapNext \/ Patch \/ StubDies \/ LoadName \/ Preinit \/ Exit \/ StartEnd

StartSpec == StartInit(Scenarios) /\ [][StartNext]_startVars

----------------------------------------------------------------------------
(* Properties *)

\* Whatever way a command was reached, by PATH, profile, alias or virtual environment,
\* the launchers end in its program, and none gives up.  Its arguments are the launchers'
\* and then the user's, each as it was given, and its argv[0] is the name the record asks
\* for.
RunsTheProgram ==
  /\ pc # "exec" => proc.exe = sc.wants.exe
  /\ pc \notin {"exec", "dead"} => proc.argv = sc.wants.argv

\* No launcher is executed twice on the way.
NoExecLoop ==
  Cardinality(ToSet(chain)) = Len(chain)

\* What the user had in PATH comes last, in order, what the launchers bring before it,
\* with no empty element, which would be the current directory; a default never replaces
\* what the user has set.
EnvironmentKept ==
  /\ sc.env["PATH"] \notin {Unset, Empty} => IsSuffix(sc.env["PATH"], proc.env["PATH"])
  /\ \A e \in ToSet(proc.env["PATH"]) : e = <<>> => e \in ToSet(sc.env["PATH"]) /\ (chain # <<>> => sc.env["PATH"] # Empty)
  /\ sc.env["TZDIR"] # Unset => proc.env["TZDIR"] = sc.env["TZDIR"]

\* The interpreter is the one of the closure; only a program started through a link,
\* without /proc and without a launcher, may miss it.
InterpreterFound ==
  ldso # <<>> => ldso = sc.wants.ldso \/ (~sc.proc /\ chain = <<>> /\ RealFile(proc.exe) # proc.exe)

\* When ld.so starts, its memory is what the kernel would have made of it; nothing else
\* in memory ever changes, the program keeps its bytes and its protections.
MappedAsByKernel ==
  LET size == Hi(sc.ld.ph, sc.pg) - Lo(sc.ld.ph, sc.pg)
  IN  /\ auxv.entry = "start" =>
           \A a \in Lo(sc.ld.ph, sc.pg)..(Hi(sc.ld.ph, sc.pg) - 1) :
             mem[auxv.base + a] = KernelByte(sc.ld.ph, sc.pg, sc.ld.len, a)
      /\ \A a \in DOMAIN mem : a \notin sc.ld.base..(sc.ld.base + size - 1) => mem[a] = sc.self.mem[a]

\* dlaudit names what led to no open, each search once and in order, glibc's own loads
\* never.  Every dlopen that failed is named when the process exits, but for the lines that
\* could not be written, and one that is killed loses the last in addition.  What is mapped
\* under another name already is found without an open, and named as if it had failed.
AuditNamesFailures ==
  \E told \in SUBSET {i \in DOMAIN loads : loads[i].outcome # "opened" /\ loads[i].name \notin GlibcOwn} :
    /\ LET at == SetToSortSeq(told, <) IN audit.out = [k \in DOMAIN at |-> loads[at[k]].name]
    /\ LET failed == {i \in DOMAIN loads : loads[i].outcome = "failed" /\ loads[i].name \notin GlibcOwn}
       IN  Cardinality(failed \ told) <= audit.lost + (IF pc = "exited" THEN 0 ELSE 1)
=============================================================================
