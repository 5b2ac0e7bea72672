------------------------------ MODULE MCSlots ------------------------------
(* Instances of Slots for TLC. *)
EXTENDS Slots

CONSTANTS c1, c2, c3, c4, A, B

Conns4 == {c1, c2, c3, c4}

\* A build with three connections against a build with one: the large build could
\* keep the small one waiting, were it not for the order of grants.
BuildOf31 == (c1 :> A) @@ (c2 :> A) @@ (c3 :> A) @@ (c4 :> B)
=============================================================================
