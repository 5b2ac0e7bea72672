------------------------------ MODULE DlAudit -------------------------------
(***************************************************************************)
(* The rtld-audit module (pkgs/dl/dlaudit/src/dlaudit.cc) that names a     *)
(* dlopen which found nothing.  Its state is [pending, out, lost]: the     *)
(* name searched and not yet opened, or NoName, what was written, and how  *)
(* many lines could not be.                                                *)
(***************************************************************************)
EXTENDS Naturals, Sequences

CONSTANTS
  NoName,
  GlibcOwn,     \* loads that are not the package's, names with a slash
  AliasOf       \* AliasOf[n]: the names that begin with n, n included

Ignored(name) == name \in GlibcOwn

\* Mutant of Flush: the name is kept.
FlushKept(audit, written) ==
  IF audit.pending # NoName /\ written THEN [audit EXCEPT !.out = Append(@, audit.pending)] ELSE audit

\* The write may fail, or there is no file to write to; nobody hears of it.
Flush(audit, written) ==
  LET line == IF audit.pending = NoName THEN <<>> ELSE <<audit.pending>>
  IN  [pending |-> NoName,
       out |-> IF written THEN audit.out \o line ELSE audit.out,
       lost |-> IF written THEN audit.lost ELSE audit.lost + Len(line)]

\* la_objsearch with LA_SER_ORIG.
ObjSearch(audit, name, written) ==
  LET flushed == Flush(audit, written) IN IF Ignored(name) THEN flushed ELSE [flushed EXCEPT !.pending = name]

\* la_objopen, with the last component of the object's name.
ObjOpen(audit, opened) ==
  IF audit.pending # NoName /\ opened \in AliasOf[audit.pending] THEN [audit EXCEPT !.pending = NoName] ELSE audit
=============================================================================
