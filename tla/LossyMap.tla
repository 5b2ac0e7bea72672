------------------------------ MODULE LossyMap ------------------------------
(***************************************************************************)
(* What jigd's store promises: a map that may forget a key at any time but *)
(* never answers with anything older than the last value written while it  *)
(* has been serving.  A restart may forget, or go back to, any value that  *)
(* was ever written under the key.  Nothing is promised of a store that is *)
(* not intact any more.                                                    *)
(***************************************************************************)
EXTENDS Naturals, Sequences

CONSTANT Keys

VARIABLES
  log,      \* the keys written so far; a value is its position in log
  map,      \* 0 or the value a reader gets
  serving,
  intact    \* no part of the store has been left out

Nothing == [k \in Keys |-> 0]

Written(k) == {v \in 1..Len(log) : log[v] = k}

Init == log = <<>> /\ map = Nothing /\ serving = FALSE /\ intact = TRUE

Start ==
  /\ ~serving
  /\ serving' = TRUE
  /\ map' \in [Keys -> 0..Len(log)]
  /\ \A k \in Keys : map'[k] \in Written(k) \cup {0}
  /\ UNCHANGED log

Write(k) ==
  /\ serving
  /\ log' = Append(log, k)
  /\ map' = [map EXCEPT ![k] = Len(log) + 1]
  /\ UNCHANGED serving

Forget ==
  /\ serving
  /\ \E gone \in SUBSET Keys :
       map' = [k \in Keys |-> IF k \in gone THEN 0 ELSE map[k]]
  /\ UNCHANGED <<log, serving>>

Stop == serving /\ serving' = FALSE /\ map' = Nothing /\ UNCHANGED log

Damage == ~intact'

Next ==
  \/ (Start \/ Stop \/ Forget \/ \E k \in Keys : Write(k)) /\ UNCHANGED intact
  \/ Damage

Spec == Init /\ [][Next]_<<log, map, serving, intact>>
=============================================================================
