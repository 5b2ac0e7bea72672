------------------------------ MODULE MCBroker ------------------------------
(* Instances of Broker for TLC. *)
EXTENDS Broker, TLC

CONSTANTS b1, b2, s1

\* One cabal, two of its ghcs race to become the broker.
SemOf1 == (b1 :> s1) @@ (b2 :> s1)
=============================================================================
