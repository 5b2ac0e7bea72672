------------------------------- MODULE Broker -------------------------------
(***************************************************************************)
(* jsem (pkgs/js/jsem/src): the process that feeds the POSIX semaphore     *)
(* cabal shares with its ghcs (-jsem) from the daemon's slots.             *)
(*                                                                         *)
(* Broker::Tick is not atomic: ghc takes and returns tokens between any    *)
(* two of its sem_trywait and sem_post calls.  The daemon is the counting  *)
(* semaphore that Slots implements (module Semaphore): `out` slots of      *)
(* Limit are taken, each over a connection of its own.  It may stop and    *)
(* start; a broker may be killed.                                          *)
(***************************************************************************)
EXTENDS Integers, FiniteSets, Sums

CONSTANTS
  Sems,        \* semaphores, one per running cabal
  Brokers,     \* `jsem ghc` processes that may become a broker
  SemOf,       \* the semaphore named on a jsem's command line
  Cabal,       \* tokens cabal creates a semaphore with
  Caps,        \* capabilities beyond the first that the ghcs of a cabal want
  Limit,       \* JIGD_SLOTS
  AliveEvery,  \* kAliveEvery
  MaxFaults,   \* how many times a broker is killed or the daemon stops
  NoBroker     \* nobody holds the lock file

ASSUME BrokerAssumption ==
  /\ IsFiniteSet(Sems) /\ IsFiniteSet(Brokers)
  /\ SemOf \in [Brokers -> Sems]
  /\ Cabal \in Nat
  /\ Caps \in Nat
  /\ Limit \in Nat \ {0}
  /\ AliveEvery \in Nat \ {0}
  /\ MaxFaults \in Nat
  /\ NoBroker \notin Brokers

VARIABLES
  sem,      \* the semaphore's count
  running,  \* tokens ghcs have taken from it
  waiters,  \* ghc threads blocked in sem_wait
  linked,   \* cabal has not removed the semaphore yet
  lost,     \* slots that backed tokens when a broker was killed (history)
  lock,     \* the broker that holds the flock of a semaphore
  pc,       \* where a broker is
  tick,     \* RunBroker's loop counter, modulo AliveEvery
  idle,     \* tokens the loop of Tick or ~Broker has taken out so far
  inUse,    \* Tick's in_use
  live,     \* tokens in held_ whose connection the daemon knows
  stale,    \* tokens in held_ from before the daemon stopped, the older ones
  order,    \* DaemonSource's pending connection
  out,      \* slots the daemon has given away
  up,       \* the daemon runs
  faults    \* faults so far

ghcVars == <<sem, running, waiters, linked>>
daemonVars == <<out, up>>
localVars == <<tick, idle, inUse>>
vars == <<sem, running, waiters, linked, lost, lock, pc, tick, idle, inUse,
          live, stale, order, out, up, faults>>

\* "none": no broker; "top": the head of RunBroker's loop; "drain", "source",
\* "poll", "post": inside Tick; "destroy": inside ~Broker.
PCs == {"none", "top", "drain", "source", "poll", "post", "destroy"}

\* The daemon went away: "late" with its OK in the socket, "eof" without an answer.
Orders == {"none", "sent", "granted", "late", "eof"}

Lower(a, b) == IF a <= b THEN a ELSE b

\* held_.size()
Held(b) == live[b] + stale[b]

\* The slot an order has been granted but the broker has not read yet.
InFlight(b) == IF order[b] = "granted" THEN 1 ELSE 0

\* The same of a daemon that has gone.
LateOK(b) == IF order[b] = "late" THEN 1 ELSE 0

Init ==
  /\ sem = [s \in Sems |-> Cabal]
  /\ running = [s \in Sems |-> 0]
  /\ waiters = [s \in Sems |-> 0]
  /\ linked = [s \in Sems |-> TRUE]
  /\ lost = [s \in Sems |-> 0]
  /\ lock = [s \in Sems |-> NoBroker]
  /\ pc = [b \in Brokers |-> "none"]
  /\ tick = [b \in Brokers |-> 0]
  /\ idle = [b \in Brokers |-> 0]
  /\ inUse = [b \in Brokers |-> 0]
  /\ live = [b \in Brokers |-> 0]
  /\ stale = [b \in Brokers |-> 0]
  /\ order = [b \in Brokers |-> "none"]
  /\ out = 0
  /\ up = TRUE
  /\ faults = 0

----------------------------------------------------------------------------
(* main and RunBroker *)

\* main: the daemon answers, the flock is free and the semaphore opens, so the
\* process forks a broker.  Any other jsem only execs ghc.
Start(b) ==
  /\ pc[b] = "none"
  /\ up
  /\ lock[SemOf[b]] = NoBroker
  /\ linked[SemOf[b]]
  /\ lock' = [lock EXCEPT ![SemOf[b]] = b]
  /\ pc' = [pc EXCEPT ![b] = "top"]
  /\ tick' = [tick EXCEPT ![b] = 0]
  /\ UNCHANGED <<ghcVars, daemonVars, lost, idle, inUse, live, stale, order, faults>>

\* Mutant of Top: the broker never looks whether the semaphore is still there.
TopForever(b) ==
  /\ pc[b] = "top"
  /\ pc' = [pc EXCEPT ![b] = "drain"]
  /\ tick' = [tick EXCEPT ![b] = (@ + 1) % AliveEvery]
  /\ idle' = [idle EXCEPT ![b] = 0]
  /\ UNCHANGED <<ghcVars, daemonVars, lost, lock, inUse, live, stale, order, faults>>

\* The head of the loop: every AliveEvery-th time, see whether the semaphore is
\* still there and leave if it is not; otherwise call Tick.
Top(b) ==
  /\ pc[b] = "top"
  /\ pc' = [pc EXCEPT ![b] =
       IF tick[b] = 0 /\ ~linked[SemOf[b]] THEN "destroy" ELSE "drain"]
  /\ tick' = [tick EXCEPT ![b] = (@ + 1) % AliveEvery]
  /\ idle' = [idle EXCEPT ![b] = 0]
  /\ UNCHANGED <<ghcVars, daemonVars, lost, lock, inUse, live, stale, order, faults>>

----------------------------------------------------------------------------
(* Tick *)

\* One successful TryWait of the draining loop.
Drain(b) ==
  /\ pc[b] = "drain"
  /\ sem[SemOf[b]] > 0
  /\ sem' = [sem EXCEPT ![SemOf[b]] = @ - 1]
  /\ idle' = [idle EXCEPT ![b] = @ + 1]
  /\ UNCHANGED <<running, waiters, linked, daemonVars, lost, lock, pc, tick, inUse,
                 live, stale, order, faults>>

\* Mutant of InUse: all slots count as in use.
InUseAll(b) == Held(b)

\* in_use, computed from what was drained.
InUse(b) == Held(b) - Lower(Held(b), idle[b])

\* TryWait fails: compute in_use and shrink held_, the newest tokens go first.
Resize(b) ==
  LET keep == Lower(Held(b), InUse(b) + 1)
      oldKept == Lower(stale[b], keep)
  IN  /\ pc[b] = "drain"
      /\ sem[SemOf[b]] = 0
      /\ inUse' = [inUse EXCEPT ![b] = InUse(b)]
      /\ stale' = [stale EXCEPT ![b] = oldKept]
      /\ live' = [live EXCEPT ![b] = keep - oldKept]
      /\ out' = out - (live[b] - (keep - oldKept))
      /\ pc' = [pc EXCEPT ![b] = "source"]
      /\ UNCHANGED <<ghcVars, up, lost, lock, tick, idle, order, faults>>

Spare(b) == Held(b) = inUse[b] + 1

\* Mutant of Cancel: the order stays with the daemon, its slot is forgotten.
CancelForgets(b) ==
  /\ pc[b] = "source"
  /\ Spare(b)
  /\ order' = [order EXCEPT ![b] = "none"]
  /\ pc' = [pc EXCEPT ![b] = "post"]
  /\ UNCHANGED <<ghcVars, daemonVars, lost, lock, localVars, live, stale, faults>>

\* source_(false): a pending order is dropped, granted or not.
Cancel(b) ==
  /\ pc[b] = "source"
  /\ Spare(b)
  /\ out' = out - InFlight(b)
  /\ order' = [order EXCEPT ![b] = "none"]
  /\ pc' = [pc EXCEPT ![b] = "post"]
  /\ UNCHANGED <<ghcVars, up, lost, lock, localVars, live, stale, faults>>

\* source_(true): place an order unless one is pending.
Order(b) ==
  /\ pc[b] = "source"
  /\ ~Spare(b)
  /\ IF order[b] = "none" /\ ~up
     THEN /\ pc' = [pc EXCEPT ![b] = "post"]
          /\ UNCHANGED order
     ELSE /\ pc' = [pc EXCEPT ![b] = "poll"]
          /\ order' = [order EXCEPT ![b] = IF @ = "none" THEN "sent" ELSE @]
  /\ UNCHANGED <<ghcVars, daemonVars, lost, lock, localVars, live, stale, faults>>

\* source_(true): has the daemon answered?  An OK counts also when its sender is gone.
Poll(b) ==
  /\ pc[b] = "poll"
  /\ live' = [live EXCEPT ![b] = @ + InFlight(b)]
  /\ stale' = [stale EXCEPT ![b] = @ + LateOK(b)]
  /\ order' = [order EXCEPT ![b] = IF @ = "sent" THEN @ ELSE "none"]
  /\ pc' = [pc EXCEPT ![b] = "post"]
  /\ UNCHANGED <<ghcVars, daemonVars, lost, lock, localVars, faults>>

\* Mutants of Post: the drained token always goes back; it never does.
PostUnbacked(b) ==
  /\ pc[b] = "post"
  /\ sem' = [sem EXCEPT ![SemOf[b]] = @ + 1]
  /\ pc' = [pc EXCEPT ![b] = "top"]
  /\ UNCHANGED <<running, waiters, linked, daemonVars, lost, lock, localVars,
                 live, stale, order, faults>>
PostNever(b) ==
  /\ pc[b] = "post"
  /\ pc' = [pc EXCEPT ![b] = "top"]
  /\ UNCHANGED <<ghcVars, daemonVars, lost, lock, localVars, live, stale, order, faults>>

\* Put the spare back, if a slot backs it, and sleep.
Post(b) ==
  /\ pc[b] = "post"
  /\ sem' = [sem EXCEPT ![SemOf[b]] = IF Held(b) > inUse[b] THEN @ + 1 ELSE @]
  /\ pc' = [pc EXCEPT ![b] = "top"]
  /\ UNCHANGED <<running, waiters, linked, daemonVars, lost, lock, localVars,
                 live, stale, order, faults>>

----------------------------------------------------------------------------
(* ~Broker, and the ways a broker ends *)

\* One successful TryWait of ~Broker's loop.
TakeBack(b) ==
  /\ pc[b] = "destroy"
  /\ idle[b] < Held(b)
  /\ sem[SemOf[b]] > 0
  /\ sem' = [sem EXCEPT ![SemOf[b]] = @ - 1]
  /\ idle' = [idle EXCEPT ![b] = @ + 1]
  /\ UNCHANGED <<running, waiters, linked, daemonVars, lost, lock, pc, tick, inUse,
                 live, stale, order, faults>>

\* All connections of the process close, the lock is free again.
Gone(b) ==
  /\ out' = out - live[b] - InFlight(b)
  /\ live' = [live EXCEPT ![b] = 0]
  /\ stale' = [stale EXCEPT ![b] = 0]
  /\ order' = [order EXCEPT ![b] = "none"]
  /\ lock' = [lock EXCEPT ![SemOf[b]] = NoBroker]
  /\ pc' = [pc EXCEPT ![b] = "none"]

\* ~Broker is done, its members are destroyed and the process exits.
Exit(b) ==
  /\ pc[b] = "destroy"
  /\ idle[b] = Held(b) \/ sem[SemOf[b]] = 0
  /\ Gone(b)
  /\ UNCHANGED <<ghcVars, up, lost, localVars, faults>>

\* The broker is killed.  The tokens it has drained are gone with it, the slots
\* return to the daemon, the tokens ghc has or may still take stay.
Kill(b) ==
  /\ pc[b] # "none"
  /\ faults < MaxFaults
  /\ faults' = faults + 1
  /\ lost' = [lost EXCEPT ![SemOf[b]] = @ + Held(b)]
  /\ Gone(b)
  /\ UNCHANGED <<ghcVars, up, localVars>>

----------------------------------------------------------------------------
(* The daemon *)

Grant(b) ==
  /\ order[b] = "sent"
  /\ out < Limit
  /\ out' = out + 1
  /\ order' = [order EXCEPT ![b] = "granted"]
  /\ UNCHANGED <<ghcVars, up, lost, lock, pc, localVars, live, stale, faults>>

\* The daemon stops: no slot is out any more, brokers keep what they hold, and an OK
\* that it has written can still be read.
Stop ==
  /\ up
  /\ faults < MaxFaults
  /\ faults' = faults + 1
  /\ up' = FALSE
  /\ out' = 0
  /\ stale' = [b \in Brokers |-> Held(b)]
  /\ live' = [b \in Brokers |-> 0]
  /\ \E written \in SUBSET {b \in Brokers : order[b] = "granted"} :
       order' = [b \in Brokers |-> IF order[b] \in {"none", "late"} THEN order[b]
                                  ELSE IF b \in written THEN "late" ELSE "eof"]
  /\ UNCHANGED <<ghcVars, lost, lock, pc, localVars>>

StartDaemon ==
  /\ ~up
  /\ up' = TRUE
  /\ UNCHANGED <<ghcVars, lost, lock, pc, localVars, live, stale, order, out, faults>>

----------------------------------------------------------------------------
(* cabal and ghc *)

\* A ghc has a module to compile and no capability for it.
Want(s) ==
  /\ linked[s]
  /\ running[s] + waiters[s] < Caps
  /\ waiters' = [waiters EXCEPT ![s] = @ + 1]
  /\ UNCHANGED <<sem, running, linked, daemonVars, lost, lock, pc, localVars,
                 live, stale, order, faults>>

\* Its sem_wait returns.
Take(s) ==
  /\ waiters[s] > 0
  /\ sem[s] > 0
  /\ sem' = [sem EXCEPT ![s] = @ - 1]
  /\ waiters' = [waiters EXCEPT ![s] = @ - 1]
  /\ running' = [running EXCEPT ![s] = @ + 1]
  /\ UNCHANGED <<linked, daemonVars, lost, lock, pc, localVars, live, stale, order, faults>>

\* It has compiled the module and sem_posts.
GiveBack(s) ==
  /\ running[s] > 0
  /\ running' = [running EXCEPT ![s] = @ - 1]
  /\ sem' = [sem EXCEPT ![s] = @ + 1]
  /\ UNCHANGED <<waiters, linked, daemonVars, lost, lock, pc, localVars, live, stale,
                 order, faults>>

\* cabal's ghcs are done and it removes the semaphore.
Unlink(s) ==
  /\ linked[s]
  /\ running[s] = 0
  /\ waiters[s] = 0
  /\ linked' = [linked EXCEPT ![s] = FALSE]
  /\ UNCHANGED <<sem, running, waiters, daemonVars, lost, lock, pc, localVars, live,
                 stale, order, faults>>

BrokerStep(b) ==
  \/ Top(b) \/ Drain(b) \/ Resize(b) \/ Cancel(b) \/ Order(b) \/ Poll(b)
  \/ Post(b) \/ TakeBack(b) \/ Exit(b)

BrokerNext(b) == BrokerStep(b) \/ Start(b) \/ Kill(b) \/ Grant(b)

GhcNext(s) == Want(s) \/ Take(s) \/ GiveBack(s) \/ Unlink(s)

Next ==
  \/ \E b \in Brokers : BrokerNext(b)
  \/ \E s \in Sems : GhcNext(s)
  \/ Stop
  \/ StartDaemon

Spec == Init /\ [][Next]_vars

\* A broker process keeps running, modules take finite time to compile, and a thread
\* in sem_wait gets the token if the semaphore is positive again and again: the broker
\* leaves the spare there for the 10 ms it sleeps.  The daemon answers an order
\* for which it has a slot again and again (WaiterServed of Slots).  Nothing makes
\* cabal execute another ghc, so nothing makes a broker start.
Fairness ==
  /\ \A b \in Brokers : WF_vars(BrokerStep(b)) /\ SF_vars(Grant(b))
  /\ \A s \in Sems : SF_vars(Take(s)) /\ WF_vars(GiveBack(s))

FairSpec == Spec /\ Fairness

----------------------------------------------------------------------------
(* Properties *)

\* Every variable stays in its type; no counter of a broker goes below zero.
TypeOK ==
  /\ sem \in [Sems -> Nat]
  /\ running \in [Sems -> Nat]
  /\ waiters \in [Sems -> Nat]
  /\ linked \in [Sems -> BOOLEAN]
  /\ lost \in [Sems -> Nat]
  /\ lock \in [Sems -> Brokers \cup {NoBroker}]
  /\ \A s \in Sems : lock[s] # NoBroker => SemOf[lock[s]] = s
  /\ pc \in [Brokers -> PCs]
  /\ tick \in [Brokers -> Nat]
  /\ idle \in [Brokers -> Nat]
  /\ inUse \in [Brokers -> Nat]
  /\ live \in [Brokers -> Nat]
  /\ stale \in [Brokers -> Nat]
  /\ order \in [Brokers -> Orders]
  /\ out \in Int
  /\ up \in BOOLEAN
  /\ faults \in Nat

\* A broker is at work exactly while it holds the lock: one per semaphore, and
\* whoever holds no lock holds no slots.
OneBroker ==
  \A b \in Brokers :
    /\ pc[b] # "none" <=> lock[SemOf[b]] = b
    /\ pc[b] = "none" => Held(b) = 0 /\ order[b] = "none"

\* The slots behind the tokens of a semaphore.
Backing(s) == IF lock[s] = NoBroker THEN 0 ELSE Held(lock[s])

\* Every capability ghc uses or may take is backed by one of cabal's tokens or a
\* slot the broker holds, at every instant of a Tick (broker.qnt states it for
\* whole Ticks).  Only a killed broker leaves unbacked tokens behind, no more
\* than the slots it held.
NoOverAdmission ==
  \A s \in Sems : sem[s] + running[s] <= Cabal + Backing(s) + lost[s]

\* The slots in the hands of brokers, those not yet read included.
Given == SumOver(Brokers, live) + Cardinality({b \in Brokers : order[b] = "granted"})

\* The slots the daemon has given to brokers are those in held_ or in an answer
\* on its way: none is leaked, none released twice, and never more than Limit.
SlotsAccounted == out = Given /\ out <= Limit

\* What the tokens left in the semaphore and with ghc may amount to while broker
\* b has some in hand: the comment in Tick ("tokens ghc holds = held - idle").
TickSoundOf(b) ==
  LET s == SemOf[b]
      rest == sem[s] + running[s]
  IN  /\ pc[b] = "drain" => rest + idle[b] <= Cabal + Held(b) + lost[s]
      /\ pc[b] \in {"source", "poll", "post"} =>
           /\ inUse[b] <= Held(b)
           /\ Held(b) <= inUse[b] + 1
           /\ rest <= Cabal + inUse[b] + lost[s]
      /\ pc[b] = "poll" => Held(b) = inUse[b]
      /\ pc[b] = "destroy" =>
           /\ ~linked[s]
           /\ idle[b] <= Held(b)
           /\ rest + idle[b] <= Cabal + Held(b) + lost[s]

\* Whatever ghc does between two calls of a Tick, in_use never understates the
\* slots behind the tokens ghc has, so the token Tick posts is backed.
TickSound == \A b \in Brokers : TickSoundOf(b)

\* Nobody uses a semaphore that cabal has removed.
UnlinkedUnused == \A s \in Sems : ~linked[s] => running[s] = 0 /\ waiters[s] = 0

\* A broker gives the slots of a ghc that has gone idle back, all but the spare.
IdleReturned ==
  \A s \in Sems :
    <>[](running[s] = 0 /\ waiters[s] = 0) => <>[](Backing(s) <= 1)

\* A ghc thread that waits while no other thread of its cabal has a token gets one, as
\* long as the daemon stays up: Tick never keeps the last token in hand.  The broker has
\* to stay too, unless there never was one: one that is killed takes what it has drained
\* with it, and there is no other until cabal executes the next ghc.
WaiterServed ==
  \A s \in Sems :
    /\ <>[]up
    /\ <>[](lock[s] # NoBroker) \/ [](lock[s] = NoBroker)
    => (waiters[s] > 0 /\ running[s] = 0 ~> running[s] > 0)

\* Once cabal has removed the semaphore, the broker notices, returns all slots
\* and exits.
BrokerLeaves ==
  \A b \in Brokers : ~linked[SemOf[b]] ~> pc[b] = "none" /\ Held(b) = 0
=============================================================================
