----------------------------- MODULE MCPackStore -----------------------------
(* Instances of PackStore for TLC. *)
EXTENDS PackStore, TLC

CONSTANTS k1, k2

\* A small and a large record: after a failed rotation the small one still fits.
Sizes == (k1 :> 1) @@ (k2 :> 2)

\* One tier, and a fast tier before a slow one.
OneBudget == <<3>>
TwoBudgets == <<2, 2>>
=============================================================================
