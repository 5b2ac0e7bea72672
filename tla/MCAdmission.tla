----------------------------- MODULE MCAdmission -----------------------------
(* Instances of Admission for TLC. *)
EXTENDS Admission, TLC

CONSTANTS b1, s1, j1, j2

\* One cabal; its ghc calls j1, j2 belongs to another build.
SemOf1 == (b1 :> s1)
CabalOf1 == (j1 :> s1) @@ (j2 :> NoCabal)
=============================================================================
