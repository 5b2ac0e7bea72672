----------------------------- MODULE Semaphore -----------------------------
(***************************************************************************)
(* What the daemon's admission promises its clients, without queue, mutex  *)
(* or protocol: never more than Limit of them hold a slot, a slot is given *)
(* to one client at a time and taken back from the one that held it.       *)
(***************************************************************************)
EXTENDS Naturals, FiniteSets

CONSTANTS
  Holders,  \* who may hold a slot
  Limit     \* how many may do so at once

VARIABLE admitted  \* who does

Init == admitted = {}

Admit(h) ==
  /\ h \notin admitted
  /\ Cardinality(admitted) < Limit
  /\ admitted' = admitted \cup {h}

Leave(h) ==
  /\ h \in admitted
  /\ admitted' = admitted \ {h}

\* The daemon is replaced by a new one, which knows of nobody.
Forget == admitted' = {}

Next == Forget \/ \E h \in Holders : Admit(h) \/ Leave(h)

Spec == Init /\ [][Next]_admitted
=============================================================================
