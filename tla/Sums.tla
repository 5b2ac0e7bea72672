-------------------------------- MODULE Sums --------------------------------
(***************************************************************************)
(* Sums of natural numbers over a finite set, counted: every x of S brings *)
(* f[x] marks, and the sum is the number of marks.  Unlike a fold, a count *)
(* can be reasoned about with the theorems on finite sets.                 *)
(***************************************************************************)
EXTENDS Integers, FiniteSets

Marks(S, f) == UNION {{x} \X (1..f[x]) : x \in S}

SumOver(S, f) == Cardinality(Marks(S, f))
=============================================================================
