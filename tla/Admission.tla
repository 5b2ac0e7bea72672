------------------------------ MODULE Admission ------------------------------
(***************************************************************************)
(* The daemon's slots shared by their two kinds of users: the brokers of   *)
(* module Broker, which take slots for ghc's capabilities, and the         *)
(* compilers jig runs under a Slot of its own (pkgs/ji/jig/src/process.cc),*)
(* among them the cc a ghc calls (builder/systems/cabal.nu sets            *)
(* gcc-location to jig's cc and leaves JIG_SLOT unset).                    *)
(***************************************************************************)
EXTENDS Broker

CONSTANTS
  Jobs,     \* compilers run through jig
  CabalOf,  \* the cabal whose ghc calls the compiler
  NoCabal   \* or none, for a compiler of a plain make

ASSUME AdmissionAssumption ==
  /\ IsFiniteSet(Jobs)
  /\ CabalOf \in [Jobs -> Sems \cup {NoCabal}]
  /\ NoCabal \notin Sems

VARIABLE job   \* "idle", "ask" (blocked in AcquireSlot), "slot" (compiling under one), "alone"
               \* (compiling without one, the daemon was down or went away)

allVars == <<vars, job>>

AInit == Init /\ job = [j \in Jobs |-> "idle"]

\* Everything but the daemon's counter.
brokerVars == <<sem, running, waiters, linked, lost, lock, pc, tick, idle, inUse,
                live, stale, order, up, faults>>

\* The constructor of Slot: ask, or run anyway when there is no daemon.
Ask(j) ==
  /\ job[j] = "idle"
  /\ CabalOf[j] # NoCabal => linked[CabalOf[j]]
  /\ job' = [job EXCEPT ![j] = IF up THEN "ask" ELSE "alone"]
  /\ UNCHANGED vars

\* Mutant of GrantJob: a compiler is admitted whatever is out.
GrantJobUnlimited(j) ==
  /\ job[j] = "ask"
  /\ out' = out + 1
  /\ job' = [job EXCEPT ![j] = "slot"]
  /\ UNCHANGED brokerVars

\* The daemon answers OK.
GrantJob(j) ==
  /\ job[j] = "ask"
  /\ out < Limit
  /\ out' = out + 1
  /\ job' = [job EXCEPT ![j] = "slot"]
  /\ UNCHANGED brokerVars

\* Mutant of Finish: the slot is not returned.
FinishLeaks(j) ==
  /\ job[j] \in {"slot", "alone"}
  /\ job' = [job EXCEPT ![j] = "idle"]
  /\ UNCHANGED vars

\* The compiler is done, the destructor of Slot returns the slot.
Finish(j) ==
  /\ job[j] \in {"slot", "alone"}
  /\ out' = IF job[j] = "slot" THEN out - 1 ELSE out
  /\ job' = [job EXCEPT ![j] = "idle"]
  /\ UNCHANGED brokerVars

\* cabal waits for its ghcs, and they for the compilers they called.
UnlinkLast(s) ==
  /\ Unlink(s)
  /\ \A j \in Jobs : CabalOf[j] = s => job[j] = "idle"
  /\ UNCHANGED job

\* jig's read fails or the slot it had is forgotten: it runs, or goes on, alone.
StopAll ==
  /\ Stop
  /\ job' = [j \in Jobs |-> IF job[j] = "idle" THEN "idle" ELSE "alone"]

ANext ==
  \/ \E j \in Jobs : Ask(j) \/ GrantJob(j) \/ Finish(j)
  \/ \E b \in Brokers : BrokerNext(b) /\ UNCHANGED job
  \/ \E s \in Sems : (Want(s) \/ Take(s) \/ GiveBack(s)) /\ UNCHANGED job
  \/ \E s \in Sems : UnlinkLast(s)
  \/ StopAll
  \/ StartDaemon /\ UNCHANGED job

ASpec == AInit /\ [][ANext]_allVars

\* As in Broker; a compiler takes finite time, cabal ends when its ghcs have, and
\* a compiler that waits is served if slots are returned again and again
\* (WaiterServed of Slots).
AFairness ==
  /\ \A b \in Brokers :
       /\ WF_allVars(BrokerStep(b) /\ UNCHANGED job)
       /\ SF_allVars(Grant(b) /\ UNCHANGED job)
  /\ \A s \in Sems :
       /\ SF_allVars(Take(s) /\ UNCHANGED job)
       /\ WF_allVars(GiveBack(s) /\ UNCHANGED job)
       /\ WF_allVars(UnlinkLast(s))
  /\ \A j \in Jobs : SF_allVars(GrantJob(j)) /\ WF_allVars(Finish(j))

AFairSpec == ASpec /\ AFairness

----------------------------------------------------------------------------

\* The compilers that run under a slot.
Slotted == {j \in Jobs : job[j] = "slot"}

\* Until something is killed or restarted, the host runs no more compilers and
\* ghc capabilities than Limit, plus the tokens cabals start with.
HostBound ==
  faults = 0 =>
    SumOver(Sems, running) + Cardinality(Slotted)
      <= Limit + Cabal * Cardinality(Sems)

\* The ghcs of every cabal run out of modules to compile.
GhcsFinish == \A s \in Sems : <>[](running[s] = 0 /\ waiters[s] = 0)

\* Once no ghc has modules left for its capabilities, a compiler that asks for a
\* slot runs: "Acquire blocks until `build` may run one more compiler" (slots.go),
\* "so one build's -j16 burst cannot starve another's serial configure probes".
JobServed ==
  GhcsFinish => \A j \in Jobs : job[j] = "ask" ~> job[j] \in {"slot", "alone"}
=============================================================================
