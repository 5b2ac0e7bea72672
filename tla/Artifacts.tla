----------------------------- MODULE Artifacts -----------------------------
(***************************************************************************)
(* The caches of jig other than the one for C, and the identities of store *)
(* files, on one daemon.  Their keys have prefixes of their own (keys.h,   *)
(* BlobKey in dir_mode.cc), so what one of them does the others see only   *)
(* as evictions.  Which processes there are is a choice of the behaviour,  *)
(* so that TLC can look at a few at a time; the theorems are for any.      *)
(***************************************************************************)
EXTENDS DirCache, GoCache, RustCache, Identities

CONSTANT Casts   \* who may be there together, with which units of cargo, and how many of
                 \* the MaxFaults are spent

ASSUME ArtifactsAssumption ==
  /\ DirBuilds \cup Gos \cup Rustcs = Clients
  /\ kBatch \in Nat \ {0} /\ MaxRequests \in Nat /\ MaxEdits \in Nat
  /\ \A c \in Casts : c.who \subseteq Clients \cup Askers /\ c.units \subseteq Units /\ c.spent \in Nat

VARIABLE acting

vars == <<storeVars, dirVars, goVars, rustVars, identVars, acting>>

\* A rustcwrap connects when it is called.
Init ==
  /\ cache = <<>> /\ RustInit
  /\ \E c \in Casts :
       /\ acting = c.who /\ faults = c.spent
       /\ [buildOf |-> buildOf, crate |-> crate, args |-> args] \in c.units
  /\ \E reachable \in BOOLEAN : up = [c \in Clients |-> reachable /\ c \in acting \ Rustcs]
  /\ DirInit /\ (racing => acting \cap DirBuilds # {})
  /\ GoInit /\ IdentInit

Dir ==
  /\ \E b \in DirBuilds : b \in acting /\ DirStep(b)
  /\ UNCHANGED <<goVars, rustVars, identVars, acting>>

Go ==
  /\ \E g \in Gos : g \in acting /\ GoStep(g)
  /\ UNCHANGED <<dirVars, rustVars, identVars, acting>>

Rust ==
  /\ \/ \E r \in Rustcs : r \in acting /\ RustStep(r)
     \/ \E b \in Builds : acting \cap Rustcs # {} /\ Edit(b)
  /\ UNCHANGED <<dirVars, goVars, identVars, acting>>

Ids ==
  /\ \/ \E g \in Askers : g \in acting /\ OfStep(g)
     \/ \E p \in Paths : acting \cap Askers # {} /\ StoreStep(p)
  /\ UNCHANGED <<storeVars, dirVars, goVars, rustVars, acting>>

Forget == Evict /\ UNCHANGED <<dirVars, goVars, rustVars, identVars, acting>>

Next == Dir \/ Go \/ Rust \/ Ids \/ Forget

Spec == Init /\ [][Next]_vars
=============================================================================
