----------------------------- MODULE StorePaths -----------------------------
(***************************************************************************)
(* Paths as the relocation code of jig handles them: a path is the         *)
(* sequence of its components, lexically normal.  Only the length of a     *)
(* component's text matters beside its name, because strings are rewritten *)
(* in place.                                                               *)
(***************************************************************************)
EXTENDS Integers, Sequences, SequencesExt

CONSTANTS
  StoreDir,   \* where builds see the store
  Chars       \* Chars[c]: the length of a component

\* std::filesystem lexically_relative: up to what both share, then down.
Shared(p, q) == Len(LongestCommonPrefix({p, q}))

RelativeTo(dir, target) ==
  [ups |-> Len(dir) - Shared(dir, target), down |-> SubSeq(target, Shared(dir, target) + 1, Len(target))]

\* The path that a relative one denotes from dir.
Denotes(dir, rel) == SubSeq(dir, 1, Len(dir) - rel.ups) \o rel.down

\* What is under "from" is taken to the same place under "to".
Rebase(p, from, to) ==
  IF IsPrefix(from, p) THEN to \o SubSeq(p, Len(from) + 1, Len(p)) ELSE p

IsStorePath(p) == IsStrictPrefix(StoreDir, p)

Total(s) == FoldLeft(LAMBDA a, b : a + b, 0, s)

\* "/a/b", and "../../a/b" or ".".
AbsSize(p) == Total([i \in DOMAIN p |-> 1 + Chars[p[i]]])
RelSize(rel) ==
  IF rel.ups = 0 /\ rel.down = <<>> THEN 1 ELSE (3 * rel.ups) + AbsSize(rel.down) - 1
=============================================================================
