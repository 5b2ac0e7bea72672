------------------------------ MODULE Programs ------------------------------
(***************************************************************************)
(* What happens to a program of a package, at build time (Relocation) and  *)
(* when a user calls it (Start).  The two share the rule that all paths    *)
(* are relative, not their state: a behaviour is a life of a binary or one *)
(* start of a command.                                                     *)
(***************************************************************************)
EXTENDS Relocation, Start

VARIABLE life

vars == <<relocVars, startVars, life>>

Init ==
  \/ /\ life = "binary"
     /\ StartInit({CHOOSE s \in Scenarios : TRUE})
     /\ RelocInit([args : Commands, cxx : BOOLEAN])
  \/ /\ life = "command"
     /\ RelocInit({[args |-> CHOOSE c \in Commands : TRUE, cxx |-> FALSE]})
     /\ StartInit(Scenarios)

Binary == life = "binary" /\ RelocNext /\ UNCHANGED <<startVars, life>>
Command == life = "command" /\ StartNext /\ UNCHANGED <<relocVars, life>>

Next == Binary \/ Command

Spec == Init /\ [][Next]_vars
=============================================================================
