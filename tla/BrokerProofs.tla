---------------------------- MODULE BrokerProofs ----------------------------
(***************************************************************************)
(* The broker never admits more than cabal's tokens and the slots it holds *)
(* (NoOverAdmission), for any number of cabals, brokers, tokens and        *)
(* faults.  The inductive invariant adds what a half-done Tick has in hand *)
(* (TickSound), that the lock admits one broker (OneBroker), and that      *)
(* cabal removes its semaphore last (UnlinkedUnused).  The slots the       *)
(* daemon has given to brokers are those the brokers have, and all that    *)
(* runs on the host is bounded by slots and cabals' tokens (Admission).    *)
(***************************************************************************)
EXTENDS Admission, FiniteSetTheorems, TLAPS

----------------------------------------------------------------------------
(* Sums *)

\* One summand is as many marks as it says.
LEMMA RowCount ==
  ASSUME NEW x, NEW n \in Nat
  PROVE  /\ IsFiniteSet({x} \X (1..n))
         /\ Cardinality({x} \X (1..n)) = n
  <1>1. IsFiniteSet({x}) /\ Cardinality({x}) = 1
    BY FS_Singleton
  <1>2. IsFiniteSet(1..n) /\ Cardinality(1..n) = n
    BY FS_Interval
  <1> DEFINE one == {x}
             upTo == 1..n
  <1> HIDE DEF one, upTo
  <1>3. IsFiniteSet(one \X upTo) /\ Cardinality(one \X upTo) = Cardinality(one) * Cardinality(upTo)
    BY <1>1, <1>2, FS_Product, Zenon DEF one, upTo
  <1>4. Cardinality(one) * Cardinality(upTo) = n
    BY <1>1, <1>2 DEF one, upTo
  <1> QED
    BY <1>3, <1>4 DEF one, upTo

\* The size of two finite sets that share nothing.
LEMMA DisjointCount ==
  ASSUME NEW A, IsFiniteSet(A), NEW B, IsFiniteSet(B), A \cap B = {}
  PROVE  Cardinality(A \cup B) = Cardinality(A) + Cardinality(B)
  <1>1. Cardinality(A \cap B) = 0
    BY FS_EmptySet
  <1>2. Cardinality(A) \in Nat /\ Cardinality(B) \in Nat
    BY FS_CardinalityType
  <1>3. Cardinality(A \cup B) = Cardinality(A) + Cardinality(B) - Cardinality(A \cap B)
    BY FS_Union
  <1> DEFINE c == Cardinality(A \cap B)
  <1> HIDE DEF c
  <1>4. Cardinality(A \cup B) = Cardinality(A) + Cardinality(B) - c /\ c = 0
    BY <1>1, <1>3 DEF c
  <1> QED
    BY <1>2, <1>4

\* A finite set brings finitely many marks, so its sum is a natural number.
LEMMA SumType ==
  ASSUME NEW S, IsFiniteSet(S), NEW f, \A x \in S : f[x] \in Nat
  PROVE  IsFiniteSet(Marks(S, f)) /\ SumOver(S, f) \in Nat
  <1> DEFINE T == {{x} \X (1..f[x]) : x \in S}
             row == [x \in S |-> {x} \X (1..f[x])]
  <1>1. row \in Surjection(S, T)
    BY Zenon DEF Surjection
  <1>2. IsFiniteSet(T)
    BY <1>1, FS_Surjection
  <1>3. ASSUME NEW R \in T PROVE IsFiniteSet(R)
    <2>1. PICK x \in S : R = {x} \X (1..f[x])
      OBVIOUS
    <2> QED
      BY <2>1, RowCount, Zenon
  <1>4. IsFiniteSet(UNION T)
    BY <1>2, <1>3, FS_UNION, Zenon
  <1> QED
    BY <1>4, FS_CardinalityType DEF Marks, SumOver

\* One summand changes, and the sum by as much.
LEMMA SumChange ==
  ASSUME NEW S, IsFiniteSet(S), NEW x \in S, NEW f, NEW g,
         \A y \in S : f[y] \in Nat /\ g[y] \in Nat,
         \A y \in S \ {x} : f[y] = g[y]
  PROVE  SumOver(S, g) = SumOver(S, f) - f[x] + g[x]
  <1> DEFINE rest == Marks(S \ {x}, f)
             old == {x} \X (1..f[x])
             new == {x} \X (1..g[x])
  <1>1. Marks(S, f) = rest \cup old /\ Marks(S, g) = rest \cup new
    BY DEF Marks
  <1>2. rest \cap old = {} /\ rest \cap new = {}
    BY DEF Marks
  <1>3. IsFiniteSet(rest) /\ Cardinality(rest) \in Nat
    <2>1. IsFiniteSet(S \ {x})
      BY FS_RemoveElement
    <2> QED
      BY <2>1, SumType DEF SumOver
  <1>4. IsFiniteSet(old) /\ Cardinality(old) = f[x] /\ IsFiniteSet(new) /\ Cardinality(new) = g[x]
    BY RowCount
  <1> HIDE DEF rest, old, new
  <1>5. Cardinality(rest \cup old) = Cardinality(rest) + Cardinality(old)
    BY <1>2, <1>3, <1>4, DisjointCount, Zenon
  <1>6. Cardinality(rest \cup new) = Cardinality(rest) + Cardinality(new)
    BY <1>2, <1>3, <1>4, DisjointCount, Zenon
  <1> QED
    BY <1>1, <1>3, <1>4, <1>5, <1>6 DEF SumOver

----------------------------------------------------------------------------
(* The invariant *)

BrokerInv ==
  /\ TypeOK
  /\ OneBroker
  /\ NoOverAdmission
  /\ TickSound
  /\ UnlinkedUnused

\* What BrokerInv says of one semaphore.
SemInv(s) ==
  /\ sem[s] + running[s] <= Cabal + Backing(s) + lost[s]
  /\ ~linked[s] => running[s] = 0 /\ waiters[s] = 0

\* Before anything runs the semaphore holds cabal's tokens and nobody has a slot.
LEMMA InitInv == Init => BrokerInv
  <1> SUFFICES ASSUME Init PROVE BrokerInv
    BY Zenon
  <1> USE BrokerAssumption
  <1>1. TypeOK
    BY DEF Init, TypeOK, PCs, Orders
  <1>2. OneBroker
    BY DEF Init, OneBroker, Held
  <1>3. NoOverAdmission
    BY DEF Init, NoOverAdmission, Backing
  <1>4. TickSound
    BY Zenon DEF Init, TickSound, TickSoundOf
  <1>5. UnlinkedUnused
    BY Zenon DEF Init, UnlinkedUnused
  <1> QED
    BY <1>1, <1>2, <1>3, <1>4, <1>5, Zenon DEF BrokerInv

\* Two brokers at work are brokers of different semaphores.
LEMMA Exclusive ==
  ASSUME OneBroker, NEW b \in Brokers, NEW d \in Brokers,
         pc[b] # "none", pc[d] # "none", b # d
  PROVE  SemOf[b] # SemOf[d]
  BY Zenon DEF OneBroker

\* The slots behind a semaphore are those of the broker at work on it.
LEMMA BackingOf ==
  ASSUME TypeOK, OneBroker, NEW b \in Brokers, pc[b] # "none"
  PROVE  Backing(SemOf[b]) = Held(b)
  BY BrokerAssumption DEF OneBroker, Backing, TypeOK

\* A step of b leaves the other brokers' Ticks and the other semaphores alone.
LEMMA OthersInv ==
  ASSUME BrokerInv, TypeOK', NEW b \in Brokers,
         \A d \in Brokers \ {b} :
            /\ pc[d] # "none" => SemOf[d] # SemOf[b]
            /\ pc'[d] = pc[d] /\ live'[d] = live[d] /\ stale'[d] = stale[d]
            /\ idle'[d] = idle[d] /\ inUse'[d] = inUse[d],
         \A s \in Sems \ {SemOf[b]} :
            sem'[s] = sem[s] /\ lost'[s] = lost[s] /\ lock'[s] = lock[s],
         running' = running, waiters' = waiters, linked' = linked,
         TickSoundOf(b)', SemInv(SemOf[b])'
  PROVE  (NoOverAdmission /\ TickSound /\ UnlinkedUnused)'
  <1> USE BrokerAssumption
  <1>1. ASSUME NEW d \in Brokers PROVE TickSoundOf(d)'
    <2>1. CASE d = b
      BY <2>1, Zenon
    <2>2. CASE d # b /\ pc[d] = "none"
      BY <2>2, Zenon DEF TickSoundOf
    <2>3. CASE d # b /\ pc[d] # "none"
      <3>1. SemOf[d] \in Sems \ {SemOf[b]} /\ d \in Brokers \ {b}
        BY <2>3, Zenon
      <3>2. TickSoundOf(d)
        BY Zenon DEF BrokerInv, TickSound
      <3> QED
        BY <3>1, <3>2, Zenon DEF TickSoundOf, Held
    <2> QED
      BY <2>1, <2>2, <2>3, Zenon
  <1>2. ASSUME NEW s \in Sems PROVE SemInv(s)'
    <2>1. CASE s = SemOf[b]
      BY <2>1, Zenon
    <2>2. CASE s # SemOf[b]
      <3>1. Backing(s)' = Backing(s)
        BY <2>2 DEF BrokerInv, TypeOK, Backing, Held
      <3> QED
        BY <2>2, <3>1, Zenon DEF BrokerInv, NoOverAdmission, UnlinkedUnused, SemInv
    <2> QED
      BY <2>1, <2>2, Zenon
  <1> QED
    BY <1>1, <1>2, Zenon DEF NoOverAdmission, TickSound, UnlinkedUnused, SemInv

\* One sem_trywait of Tick or of ~Broker moves a token into the broker's hand.
LEMMA TokenInHand ==
  ASSUME BrokerInv, NEW b \in Brokers, Drain(b) \/ TakeBack(b)
  PROVE  BrokerInv'
  <1> USE BrokerAssumption
  <1> DEFINE s == SemOf[b]
  <1>1. /\ pc[b] \in {"drain", "destroy"} /\ pc' = pc
        /\ sem[s] > 0 /\ sem' = [sem EXCEPT ![s] = @ - 1]
        /\ idle' = [idle EXCEPT ![b] = @ + 1]
        /\ pc[b] = "destroy" => idle[b] < Held(b)
        /\ UNCHANGED <<running, waiters, linked, lost, lock, live, stale, order, inUse,
                       tick, out, up, faults>>
    BY Zenon DEF Drain, TakeBack, daemonVars
  <1>2. TypeOK'
    BY <1>1 DEF BrokerInv, TypeOK
  <1>3. OneBroker'
    BY <1>1, Zenon DEF BrokerInv, OneBroker, Held
  <1>4. Held(b) \in Nat /\ Held(b)' = Held(b) /\ sem[s] \in Nat /\ sem'[s] = sem[s] - 1
        /\ idle[b] \in Nat /\ idle'[b] = idle[b] + 1 /\ running[s] \in Nat /\ lost[s] \in Nat
    BY <1>1 DEF BrokerInv, TypeOK, Held
  <1>5. TickSoundOf(b)
    BY Zenon DEF BrokerInv, TickSound
  <1>6. TickSoundOf(b)'
    BY <1>1, <1>4, <1>5 DEF TickSoundOf
  <1>7. Backing(s)' = Backing(s) /\ Backing(s) = Held(b)
    BY <1>1, BackingOf, Zenon DEF BrokerInv, Backing, Held
  <1>8. SemInv(s)'
    BY <1>1, <1>4, <1>7 DEF BrokerInv, SemInv, NoOverAdmission, UnlinkedUnused
  <1>9. (NoOverAdmission /\ TickSound /\ UnlinkedUnused)'
    <2>1. \A d \in Brokers \ {b} : pc[d] # "none" => SemOf[d] # s
      BY <1>1, Exclusive, Zenon DEF BrokerInv
    <2> QED
      BY <1>1, <1>2, <1>6, <1>8, <2>1, OthersInv, Zenon DEF BrokerInv, TypeOK
  <1> QED
    BY <1>2, <1>3, <1>9, Zenon DEF BrokerInv

\* What every step of a broker at work leaves to prove: its own Tick, its own
\* semaphore.
LEMMA AtWork ==
  ASSUME BrokerInv, NEW b \in Brokers, pc[b] # "none", TypeOK', OneBroker',
         \A d \in Brokers \ {b} :
            /\ pc'[d] = pc[d] /\ live'[d] = live[d] /\ stale'[d] = stale[d]
            /\ idle'[d] = idle[d] /\ inUse'[d] = inUse[d],
         \A s \in Sems \ {SemOf[b]} :
            sem'[s] = sem[s] /\ lost'[s] = lost[s] /\ lock'[s] = lock[s],
         running' = running, waiters' = waiters, linked' = linked,
         TickSoundOf(b)', SemInv(SemOf[b])'
  PROVE  BrokerInv'
  <1>1. \A d \in Brokers \ {b} : pc[d] # "none" => SemOf[d] # SemOf[b]
    BY Exclusive, Zenon DEF BrokerInv
  <1>2. (NoOverAdmission /\ TickSound /\ UnlinkedUnused)'
    BY <1>1, OthersInv, Zenon
  <1> QED
    BY <1>2, Zenon DEF BrokerInv

\* The head of the loop only turns the broker's hand empty.
LEMMA TopInv ==
  ASSUME BrokerInv, NEW b \in Brokers, Top(b)
  PROVE  BrokerInv'
  <1> USE BrokerAssumption
  <1> DEFINE s == SemOf[b]
  <1>1. /\ pc[b] = "top"
        /\ pc' = [pc EXCEPT ![b] = IF tick[b] = 0 /\ ~linked[s] THEN "destroy" ELSE "drain"]
        /\ tick' = [tick EXCEPT ![b] = (@ + 1) % AliveEvery]
        /\ idle' = [idle EXCEPT ![b] = 0]
        /\ UNCHANGED <<sem, running, waiters, linked, lost, lock, live, stale, order, inUse,
                       out, up, faults>>
    BY Zenon DEF Top, daemonVars, ghcVars
  <1>2. TypeOK'
    <2>1. \A n \in Nat : (n + 1) % AliveEvery \in Nat
      OBVIOUS
    <2>2. tick' \in [Brokers -> Nat]
      BY <1>1, <2>1, Zenon DEF BrokerInv, TypeOK
    <2> QED
      BY <1>1, <2>2, Zenon DEF BrokerInv, TypeOK, PCs
  <1>3. OneBroker'
    BY <1>1 DEF BrokerInv, OneBroker, Held, TypeOK
  <1>4. Held(b) \in Nat /\ Held(b)' = Held(b) /\ sem[s] \in Nat
        /\ idle'[b] = 0 /\ running[s] \in Nat /\ lost[s] \in Nat
    BY <1>1 DEF BrokerInv, TypeOK, Held
  <1>5. Backing(s) = Held(b) /\ Backing(s)' = Backing(s)
    BY <1>1, BackingOf, Zenon DEF BrokerInv, Backing, Held
  <1>6. SemInv(s) /\ SemInv(s)'
    BY <1>1, <1>5, Zenon DEF BrokerInv, SemInv, NoOverAdmission, UnlinkedUnused
  <1>7. pc'[b] = "drain" \/ (pc'[b] = "destroy" /\ ~linked[s])
    BY <1>1, Zenon DEF BrokerInv, TypeOK
  <1>8. TickSoundOf(b)'
    BY <1>1, <1>4, <1>5, <1>6, <1>7 DEF TickSoundOf, SemInv
  <1> QED
    BY <1>1, <1>2, <1>3, <1>6, <1>8, AtWork, Zenon DEF BrokerInv, TypeOK

\* The arithmetic of Tick: what it keeps is in_use or one more, in_use covers
\* what was not idle, and the older tokens are kept first.
LEMMA ResizeArithmetic ==
  ASSUME NEW h \in Nat, NEW old \in Nat, old <= h, NEW i \in Nat
  PROVE  LET u == h - Lower(h, i)
             keep == Lower(h, u + 1)
             oldKept == Lower(old, keep)
         IN  /\ u \in Nat /\ keep \in Nat /\ oldKept \in Nat
             /\ keep - oldKept \in Nat
             /\ u <= keep /\ keep <= u + 1 /\ keep <= h
             /\ h <= i + u
  BY DEF Lower

\* Shrinking held_ leaves enough slots behind what ghc has.
LEMMA ResizeInv ==
  ASSUME BrokerInv, NEW b \in Brokers, Resize(b)
  PROVE  BrokerInv'
  <1> USE BrokerAssumption
  <1> DEFINE s == SemOf[b]
             keep == Lower(Held(b), InUse(b) + 1)
             oldKept == Lower(stale[b], keep)
  <1>1. /\ pc[b] = "drain" /\ sem[s] = 0
        /\ pc' = [pc EXCEPT ![b] = "source"]
        /\ inUse' = [inUse EXCEPT ![b] = InUse(b)]
        /\ stale' = [stale EXCEPT ![b] = oldKept]
        /\ live' = [live EXCEPT ![b] = keep - oldKept]
        /\ out' = out - (live[b] - (keep - oldKept))
        /\ UNCHANGED <<sem, running, waiters, linked, lost, lock, order, idle, tick, up, faults>>
    BY Zenon DEF Resize, ghcVars
  <1>2. Held(b) \in Nat /\ live[b] \in Nat /\ stale[b] \in Nat /\ stale[b] <= Held(b)
        /\ idle[b] \in Nat
        /\ sem[s] \in Nat /\ running[s] \in Nat /\ lost[s] \in Nat
    BY <1>1 DEF BrokerInv, TypeOK, Held
  <1>3. /\ InUse(b) \in Nat /\ keep \in Nat /\ oldKept \in Nat
        /\ keep - oldKept \in Nat
        /\ InUse(b) <= keep /\ keep <= InUse(b) + 1 /\ keep <= Held(b)
        /\ Held(b) <= idle[b] + InUse(b)
    BY <1>2, ResizeArithmetic, Zenon DEF InUse
  <1> HIDE DEF keep, oldKept
  <1>4. TypeOK'
    <2>1. out' \in Int
      BY <1>1, <1>2, <1>3 DEF BrokerInv, TypeOK
    <2> QED
      BY <1>1, <1>3, <2>1, Zenon DEF BrokerInv, TypeOK, PCs
  <1>5. Held(b)' = keep /\ inUse'[b] = InUse(b) /\ pc'[b] = "source"
    BY <1>1, <1>3 DEF BrokerInv, TypeOK, Held
  <1>6. OneBroker'
    BY <1>1, Zenon DEF BrokerInv, OneBroker, Held, TypeOK
  <1>7. sem[s] + running[s] + idle[b] <= Cabal + Held(b) + lost[s]
    BY <1>1, Zenon DEF BrokerInv, TickSound, TickSoundOf
  <1>8. sem[s] + running[s] <= Cabal + InUse(b) + lost[s]
    BY <1>2, <1>3, <1>7
  <1>9. TickSoundOf(b)'
    BY <1>1, <1>3, <1>5, <1>8, Zenon DEF TickSoundOf
  <1>10. Backing(s)' = keep
    BY <1>1, <1>4, <1>5, <1>6, BackingOf DEF BrokerInv, OneBroker, Backing, Held, TypeOK
  <1>11. SemInv(s)'
    BY <1>1, <1>2, <1>3, <1>8, <1>10 DEF BrokerInv, SemInv, UnlinkedUnused
  <1> QED
    BY <1>1, <1>4, <1>6, <1>9, <1>11, AtWork, Zenon DEF BrokerInv, TypeOK

\* source_ cancels, orders or collects a slot: nothing happens to the semaphore,
\* and a token that arrives is the one missing for the spare.
LEMMA SourceInv ==
  ASSUME BrokerInv, NEW b \in Brokers, Cancel(b) \/ Order(b) \/ Poll(b)
  PROVE  BrokerInv'
  <1> USE BrokerAssumption
  <1> DEFINE s == SemOf[b]
  <1>1. /\ pc[b] \in {"source", "poll"}
        /\ UNCHANGED <<sem, running, waiters, linked, lost, lock, idle, inUse, tick,
                       up, faults>>
    BY Zenon DEF Cancel, Order, Poll, ghcVars, daemonVars, localVars
  <1>2. Held(b) \in Nat /\ InFlight(b) \in {0, 1} /\ inUse[b] \in Nat
        /\ LateOK(b) \in {0, 1} /\ InFlight(b) + LateOK(b) <= 1
        /\ sem[s] \in Nat /\ running[s] \in Nat /\ lost[s] \in Nat
    BY DEF BrokerInv, TypeOK, Held, InFlight, LateOK
  <1>3. /\ inUse[b] <= Held(b) /\ Held(b) <= inUse[b] + 1
        /\ sem[s] + running[s] <= Cabal + inUse[b] + lost[s]
        /\ pc[b] = "poll" => Held(b) = inUse[b]
    BY <1>1, Zenon DEF BrokerInv, TickSound, TickSoundOf
  <1>4. /\ pc' = [pc EXCEPT ![b] = pc'[b]]
        /\ pc'[b] \in {"poll", "post"}
        /\ pc'[b] = "poll" => Held(b) = inUse[b] /\ live' = live /\ stale' = stale
        /\ \/ live' = live /\ stale' = stale
           \/ /\ pc[b] = "poll" /\ pc'[b] = "post"
              /\ live' = [live EXCEPT ![b] = @ + InFlight(b)]
              /\ stale' = [stale EXCEPT ![b] = @ + LateOK(b)]
        /\ order' = [order EXCEPT ![b] = order'[b]] /\ order'[b] \in Orders
        /\ out' = out \/ out' = out - InFlight(b)
    <2>1. CASE Cancel(b)
      BY <2>1, Zenon DEF Cancel, BrokerInv, TypeOK, Orders
    <2>2. CASE Order(b)
      <3>1. Held(b) = inUse[b]
        <4>1. Held(b) # inUse[b] + 1
          BY <2>2, Zenon DEF Order, Spare
        <4>2. \A h, u \in Nat : u <= h /\ h <= u + 1 /\ h # u + 1 => h = u
          OBVIOUS
        <4>3. inUse[b] <= Held(b) /\ Held(b) <= inUse[b] + 1
          BY <1>3, Zenon
        <4>4. Held(b) \in Nat /\ inUse[b] \in Nat
          BY <1>2, Zenon
        <4> QED
          BY <4>1, <4>2, <4>3, <4>4, Zenon
      <3> QED
        BY <2>2, <3>1 DEF Order, BrokerInv, TypeOK, Orders, daemonVars
    <2>3. CASE Poll(b)
      BY <2>3, Zenon DEF Poll, BrokerInv, TypeOK, Orders, daemonVars
    <2> QED
      BY <2>1, <2>2, <2>3, Zenon
  <1>5. TypeOK'
    <2>1. live' \in [Brokers -> Nat] /\ out' \in Int
      BY <1>2, <1>4 DEF BrokerInv, TypeOK
    <2>2. stale' \in [Brokers -> Nat]
      BY <1>2, <1>4 DEF BrokerInv, TypeOK
    <2>3. pc' \in [Brokers -> PCs] /\ order' \in [Brokers -> Orders]
      BY <1>4 DEF BrokerInv, TypeOK, PCs
    <2> QED
      BY <1>1, <2>1, <2>2, <2>3, Zenon DEF BrokerInv, TypeOK
  <1>6. /\ inUse[b] <= Held(b)' /\ Held(b)' <= inUse[b] + 1 /\ Held(b)' \in Nat
        /\ pc'[b] = "poll" => Held(b)' = inUse[b]
    <2>1. CASE live' = live /\ stale' = stale
      BY <1>1, <1>2, <1>3, <1>4, <2>1, Zenon DEF Held
    <2>2. CASE /\ pc[b] = "poll" /\ pc'[b] = "post"
               /\ live' = [live EXCEPT ![b] = @ + InFlight(b)]
               /\ stale' = [stale EXCEPT ![b] = @ + LateOK(b)]
      <3>1. Held(b)' = Held(b) + (InFlight(b) + LateOK(b))
        BY <1>1, <1>2, <2>2 DEF BrokerInv, TypeOK, Held
      <3> QED
        BY <1>2, <1>3, <2>2, <3>1
    <2> QED
      BY <1>4, <2>1, <2>2, Zenon
  <1>7. OneBroker'
    BY <1>1, <1>4 DEF BrokerInv, OneBroker, Held, TypeOK
  <1>8. TickSoundOf(b)'
    BY <1>1, <1>3, <1>4, <1>6, Zenon DEF TickSoundOf
  <1>9. Backing(s)' = Held(b)'
    BY <1>1, Zenon DEF BrokerInv, OneBroker, Backing, Held, TypeOK
  <1>10. SemInv(s)'
    BY <1>1, <1>2, <1>3, <1>6, <1>9 DEF BrokerInv, SemInv, UnlinkedUnused
  <1> QED
    BY <1>1, <1>4, <1>5, <1>7, <1>8, <1>10, AtWork, Zenon DEF BrokerInv, TypeOK

\* The token Tick posts is backed by the slot it keeps beyond in_use.
LEMMA PostInv ==
  ASSUME BrokerInv, NEW b \in Brokers, Post(b)
  PROVE  BrokerInv'
  <1> USE BrokerAssumption
  <1> DEFINE s == SemOf[b]
  <1>1. /\ pc[b] = "post" /\ pc' = [pc EXCEPT ![b] = "top"]
        /\ sem' = [sem EXCEPT ![s] = IF Held(b) > inUse[b] THEN @ + 1 ELSE @]
        /\ UNCHANGED <<running, waiters, linked, lost, lock, live, stale, order, idle, inUse,
                       tick, out, up, faults>>
    BY Zenon DEF Post, daemonVars, localVars
  <1>2. Held(b) \in Nat /\ Held(b)' = Held(b) /\ inUse[b] \in Nat
        /\ sem[s] \in Nat /\ running[s] \in Nat /\ lost[s] \in Nat
    BY <1>1 DEF BrokerInv, TypeOK, Held
  <1>3. inUse[b] <= Held(b) /\ sem[s] + running[s] <= Cabal + inUse[b] + lost[s]
    BY <1>1, Zenon DEF BrokerInv, TickSound, TickSoundOf
  <1>4. sem'[s] = IF Held(b) > inUse[b] THEN sem[s] + 1 ELSE sem[s]
    BY <1>1, Zenon DEF BrokerInv, TypeOK
  <1>5. sem'[s] + running[s] <= Cabal + Held(b) + lost[s]
    BY <1>2, <1>3, <1>4
  <1>6. TypeOK'
    <2>1. sem' \in [Sems -> Nat]
      BY <1>1, <1>2 DEF BrokerInv, TypeOK
    <2> QED
      BY <1>1, <2>1, Zenon DEF BrokerInv, TypeOK, PCs
  <1>7. OneBroker'
    BY <1>1, Zenon DEF BrokerInv, OneBroker, Held, TypeOK
  <1>8. TickSoundOf(b)'
    BY <1>1, Zenon DEF BrokerInv, TypeOK, TickSoundOf
  <1>9. Backing(s) = Held(b) /\ Backing(s)' = Backing(s)
    BY <1>1, BackingOf, Zenon DEF BrokerInv, Backing, Held
  <1>10. SemInv(s)'
    BY <1>1, <1>5, <1>9, Zenon DEF BrokerInv, SemInv, UnlinkedUnused
  <1> QED
    BY <1>1, <1>6, <1>7, <1>8, <1>10, AtWork, Zenon DEF BrokerInv, TypeOK

\* A broker that exits has taken the idle tokens back, a broker that is killed
\* adds its slots to the ones lost.
LEMMA GoneInv ==
  ASSUME BrokerInv, NEW b \in Brokers, Exit(b) \/ Kill(b)
  PROVE  BrokerInv'
  <1> USE BrokerAssumption
  <1> DEFINE s == SemOf[b]
  <1>1. /\ pc[b] # "none" /\ Gone(b)
        /\ UNCHANGED <<sem, running, waiters, linked, idle, inUse, tick, up>>
    BY Zenon DEF Exit, Kill, ghcVars, localVars
  <1>2. /\ Held(b) \in Nat /\ live[b] \in Nat /\ InFlight(b) \in Nat
        /\ sem[s] \in Nat /\ running[s] \in Nat /\ lost[s] \in Nat /\ idle[b] \in Nat
        /\ s \in Sems
    BY DEF BrokerInv, TypeOK, Held, InFlight
  <1>3. /\ lost' \in [Sems -> Nat] /\ faults' \in Nat
        /\ \A t \in Sems \ {s} : lost'[t] = lost[t]
        /\ sem[s] + running[s] <= Cabal + lost'[s]
    <2>1. CASE Exit(b)
      <3>1. UNCHANGED <<lost, faults>> /\ pc[b] = "destroy"
            /\ (idle[b] = Held(b) \/ sem[s] = 0)
        BY <2>1, Zenon DEF Exit
      <3>2. /\ ~linked[s] /\ idle[b] <= Held(b)
            /\ sem[s] + running[s] + idle[b] <= Cabal + Held(b) + lost[s]
        BY <3>1, Zenon DEF BrokerInv, TickSound, TickSoundOf
      <3>3. running[s] = 0
        BY <1>2, <3>2, Zenon DEF BrokerInv, UnlinkedUnused
      <3>4. sem[s] + running[s] <= Cabal + lost[s]
        BY <1>2, <3>1, <3>2, <3>3
      <3> QED
        BY <3>1, <3>4, Zenon DEF BrokerInv, TypeOK
    <2>2. CASE Kill(b)
      <3>1. lost' = [lost EXCEPT ![s] = @ + Held(b)] /\ faults' = faults + 1
        BY <2>2, Zenon DEF Kill
      <3>2. lost'[s] = lost[s] + Held(b)
        BY <1>2, <3>1, Zenon DEF BrokerInv, TypeOK
      <3>3. sem[s] + running[s] <= Cabal + Held(b) + lost[s]
        BY <1>1, <1>2, BackingOf, Zenon DEF BrokerInv, NoOverAdmission
      <3>4. lost' \in [Sems -> Nat] /\ faults' \in Nat
        BY <1>2, <3>1 DEF BrokerInv, TypeOK
      <3>5. sem[s] + running[s] <= Cabal + lost'[s]
        BY <1>2, <3>2, <3>3
      <3> QED
        BY <3>1, <3>4, <3>5, Zenon DEF BrokerInv, TypeOK
    <2> QED
      BY <2>1, <2>2, Zenon
  <1>4. TypeOK'
    <2>1. out' \in Int
      BY <1>1, <1>2 DEF Gone, BrokerInv, TypeOK
    <2>2. /\ live' \in [Brokers -> Nat] /\ stale' \in [Brokers -> Nat]
          /\ order' \in [Brokers -> Orders] /\ pc' \in [Brokers -> PCs]
          /\ lock' \in [Sems -> Brokers \cup {NoBroker}]
      BY <1>1, Zenon DEF Gone, BrokerInv, TypeOK, Orders, PCs
    <2>3. \A t \in Sems : lock'[t] # NoBroker => SemOf[lock'[t]] = t
      BY <1>1, Zenon DEF Gone, BrokerInv, TypeOK
    <2> QED
      BY <1>1, <1>3, <2>1, <2>2, <2>3, Zenon DEF BrokerInv, TypeOK
  <1>5. pc'[b] = "none" /\ lock'[s] = NoBroker /\ live'[b] = 0 /\ stale'[b] = 0
        /\ order'[b] = "none"
    BY <1>1, <1>2, Zenon DEF Gone, BrokerInv, TypeOK
  <1>6. \A d \in Brokers \ {b} : pc'[d] = pc[d] /\ live'[d] = live[d]
          /\ stale'[d] = stale[d] /\ order'[d] = order[d]
    BY <1>1, Zenon DEF Gone, BrokerInv, TypeOK
  <1>7. \A t \in Sems \ {s} : lock'[t] = lock[t]
    BY <1>1, Zenon DEF Gone, BrokerInv, TypeOK
  <1>8. OneBroker'
    <2> SUFFICES ASSUME NEW d \in Brokers
                 PROVE  /\ (pc'[d] # "none" <=> lock'[SemOf[d]] = d)
                        /\ (pc'[d] = "none" => Held(d)' = 0 /\ order'[d] = "none")
      BY Zenon DEF OneBroker, Held
    <2>1. CASE d = b
      BY <1>5, <2>1 DEF Held
    <2>2. CASE d # b
      <3>1. pc[d] # "none" => SemOf[d] # s
        BY <1>1, <2>2, Exclusive, Zenon DEF BrokerInv
      <3>2. pc'[d] # "none" <=> lock'[SemOf[d]] = d
        BY <1>1, <1>5, <1>6, <1>7, <2>2, <3>1 DEF BrokerInv, OneBroker
      <3> QED
        BY <1>6, <2>2, <3>2, Zenon DEF BrokerInv, OneBroker, Held
    <2> QED
      BY <2>1, <2>2, Zenon
  <1>9. TickSoundOf(b)'
    BY <1>5, Zenon DEF TickSoundOf
  <1>10. SemInv(s)'
    <2>1. Backing(s)' = 0
      BY <1>5, Zenon DEF Backing
    <2>2. lost'[s] \in Nat
      BY <1>2, <1>3, Zenon
    <2>3. sem'[s] + running'[s] <= Cabal + Backing(s)' + lost'[s]
      BY <1>1, <1>2, <1>3, <2>1, <2>2, SMTT(30)
    <2> QED
      BY <1>1, <1>2, <2>3, Zenon DEF SemInv, BrokerInv, UnlinkedUnused
  <1> QED
    BY <1>1, <1>3, <1>4, <1>6, <1>7, <1>8, <1>9, <1>10, AtWork, Zenon

\* A new broker holds the free lock and no slots.
LEMMA StartInv ==
  ASSUME BrokerInv, NEW b \in Brokers, Start(b)
  PROVE  BrokerInv'
  <1> USE BrokerAssumption
  <1> DEFINE s == SemOf[b]
  <1>1. /\ pc[b] = "none" /\ lock[s] = NoBroker
        /\ lock' = [lock EXCEPT ![s] = b]
        /\ pc' = [pc EXCEPT ![b] = "top"]
        /\ tick' = [tick EXCEPT ![b] = 0]
        /\ UNCHANGED <<sem, running, waiters, linked, lost, idle, inUse, live, stale, order,
                       out, up, faults>>
    BY Zenon DEF Start, ghcVars, daemonVars
  <1>2. TypeOK'
    <2>1. \A t \in Sems : lock'[t] # NoBroker => SemOf[lock'[t]] = t
      BY <1>1, Zenon DEF BrokerInv, TypeOK
    <2> QED
      BY <1>1, <2>1, Zenon DEF BrokerInv, TypeOK, PCs
  <1>3. \A d \in Brokers \ {b} : pc[d] # "none" => SemOf[d] # s
    BY <1>1, Zenon DEF BrokerInv, OneBroker
  <1>4. OneBroker'
    BY <1>1, <1>3, Zenon DEF BrokerInv, OneBroker, Held, TypeOK
  <1>5. TickSoundOf(b)'
    BY <1>1, Zenon DEF TickSoundOf, BrokerInv, TypeOK
  <1>6. Held(b) = 0
    BY <1>1, Zenon DEF BrokerInv, OneBroker
  <1>7. Backing(s) = 0 /\ Backing(s)' = 0
    BY <1>1, <1>6, Zenon DEF Backing, Held, BrokerInv, TypeOK
  <1>8. SemInv(s)'
    BY <1>1, <1>7, Zenon DEF SemInv, BrokerInv, NoOverAdmission, UnlinkedUnused
  <1>9. (NoOverAdmission /\ TickSound /\ UnlinkedUnused)'
    <2>1. \A d \in Brokers \ {b} : pc'[d] = pc[d]
      BY <1>1, Zenon DEF BrokerInv, TypeOK
    <2>2. \A t \in Sems \ {s} : lock'[t] = lock[t]
      BY <1>1, Zenon DEF BrokerInv, TypeOK
    <2> QED
      BY <1>1, <1>2, <1>3, <1>5, <1>8, <2>1, <2>2, OthersInv, Zenon
  <1> QED
    BY <1>2, <1>4, <1>9, Zenon DEF BrokerInv

\* The daemon grants, stops or starts: no broker holds more or less than before.
LEMMA DaemonInv ==
  ASSUME BrokerInv, (\E b \in Brokers : Grant(b)) \/ Stop \/ StartDaemon
  PROVE  BrokerInv'
  <1> USE BrokerAssumption
  <1>1. UNCHANGED <<sem, running, waiters, linked, lost, lock, pc, tick, idle, inUse>>
    BY Zenon DEF Grant, Stop, StartDaemon, ghcVars, localVars
  <1>2. /\ live' \in [Brokers -> Nat] /\ stale' \in [Brokers -> Nat]
        /\ \A d \in Brokers : live'[d] + stale'[d] = live[d] + stale[d]
    <2>1. CASE Stop
      <3>1. \A d \in Brokers : live[d] \in Nat /\ stale[d] \in Nat
        BY Zenon DEF BrokerInv, TypeOK
      <3> QED
        BY <2>1, <3>1 DEF Stop, Held
    <2>2. CASE ~Stop
      BY <2>2, Zenon DEF Grant, StartDaemon, BrokerInv, TypeOK
    <2> QED
      BY <2>1, <2>2, Zenon
  <1>3. \A d \in Brokers : Held(d)' = Held(d)
    BY <1>2, Zenon DEF Held
  <1>4. /\ order' \in [Brokers -> Orders]
        /\ \A d \in Brokers : order[d] = "none" => order'[d] = "none"
        /\ out' \in Int /\ up' \in BOOLEAN /\ faults' \in Nat
    <2>1. CASE Stop
      <3>1. /\ \E written \in SUBSET {b \in Brokers : order[b] = "granted"} :
                  order' = [b \in Brokers |->
                              IF order[b] \in {"none", "late"} THEN order[b]
                              ELSE IF b \in written THEN "late" ELSE "eof"]
            /\ out' = 0 /\ up' = FALSE /\ faults' = faults + 1
        BY <2>1, Zenon DEF Stop
      <3>2. order' \in [Brokers -> Orders]
        BY <3>1, Zenon DEF Orders
      <3>3. \A d \in Brokers : order[d] = "none" => order'[d] = "none"
        BY <3>1, Zenon
      <3>4. faults \in Nat
        BY Zenon DEF BrokerInv, TypeOK
      <3>5. out' \in Int /\ faults' \in Nat
        BY <3>1, <3>4
      <3>6. up' \in BOOLEAN
        BY <3>1, Zenon
      <3> QED
        BY <3>2, <3>3, <3>5, <3>6, Zenon
    <2>2. CASE StartDaemon
      <3>1. UNCHANGED <<order, out, faults>> /\ up' = TRUE
        BY <2>2, Zenon DEF StartDaemon
      <3> QED
        BY <3>1, Zenon DEF BrokerInv, TypeOK
    <2>3. ASSUME NEW b \in Brokers, Grant(b) PROVE <1>4
      <3>1. /\ order[b] = "sent" /\ order' = [order EXCEPT ![b] = "granted"]
            /\ out' = out + 1 /\ up' = up /\ faults' = faults
        BY <2>3, Zenon DEF Grant
      <3>2. order' \in [Brokers -> Orders]
        BY <3>1, Zenon DEF BrokerInv, TypeOK, Orders
      <3>3. \A d \in Brokers : order[d] = "none" => order'[d] = "none"
        BY <3>1, Zenon DEF BrokerInv, TypeOK
      <3> QED
        BY <3>1, <3>2, <3>3 DEF BrokerInv, TypeOK
    <2> QED
      BY <2>1, <2>2, <2>3, Zenon
  <1>5. TypeOK'
    BY <1>1, <1>2, <1>4, Zenon DEF BrokerInv, TypeOK
  <1>6. OneBroker'
    BY <1>1, <1>3, <1>4, Zenon DEF BrokerInv, OneBroker
  <1>7. NoOverAdmission'
    <2>1. \A s \in Sems : Backing(s)' = Backing(s)
      BY <1>1, <1>2, Zenon DEF Backing, Held, BrokerInv, TypeOK
    <2> QED
      BY <1>1, <2>1, Zenon DEF BrokerInv, NoOverAdmission
  <1>8. TickSound'
    BY <1>1, <1>3, Zenon DEF BrokerInv, TickSound, TickSoundOf
  <1>9. UnlinkedUnused'
    BY <1>1, Zenon DEF BrokerInv, UnlinkedUnused
  <1> QED
    BY <1>5, <1>6, <1>7, <1>8, <1>9, Zenon DEF BrokerInv

\* ghc moves tokens between itself and the semaphore, cabal removes it unused.
LEMMA GhcInv ==
  ASSUME BrokerInv, NEW s \in Sems, GhcNext(s)
  PROVE  BrokerInv'
  <1> USE BrokerAssumption
  <1>1. UNCHANGED <<lost, lock, pc, tick, idle, inUse, live, stale, order, out, up, faults>>
    BY Zenon DEF GhcNext, Want, Take, GiveBack, Unlink, daemonVars, localVars
  <1>2. /\ sem' \in [Sems -> Nat] /\ running' \in [Sems -> Nat] /\ waiters' \in [Sems -> Nat]
        /\ linked' \in [Sems -> BOOLEAN]
        /\ \A t \in Sems : sem'[t] + running'[t] = sem[t] + running[t]
        /\ \A t \in Sems : ~linked[t] => ~linked'[t]
        /\ UnlinkedUnused'
    <2>0. sem \in [Sems -> Nat] /\ running \in [Sems -> Nat] /\ waiters \in [Sems -> Nat]
          /\ linked \in [Sems -> BOOLEAN] /\ UnlinkedUnused
      BY Zenon DEF BrokerInv, TypeOK
    <2>1. CASE Want(s)
      BY <2>0, <2>1 DEF Want, UnlinkedUnused
    <2>2. CASE Take(s)
      <3>1. /\ waiters[s] > 0 /\ sem[s] > 0
            /\ sem' = [sem EXCEPT ![s] = @ - 1]
            /\ waiters' = [waiters EXCEPT ![s] = @ - 1]
            /\ running' = [running EXCEPT ![s] = @ + 1]
            /\ linked' = linked
        BY <2>2, Zenon DEF Take
      <3> QED
        BY <2>0, <3>1 DEF UnlinkedUnused
    <2>3. CASE GiveBack(s)
      <3>1. /\ running[s] > 0
            /\ sem' = [sem EXCEPT ![s] = @ + 1]
            /\ running' = [running EXCEPT ![s] = @ - 1]
            /\ linked' = linked /\ waiters' = waiters
        BY <2>3, Zenon DEF GiveBack
      <3> QED
        BY <2>0, <3>1 DEF UnlinkedUnused
    <2>4. CASE Unlink(s)
      BY <2>0, <2>4, Zenon DEF Unlink, UnlinkedUnused
    <2> QED
      BY <2>1, <2>2, <2>3, <2>4, Zenon DEF GhcNext
  <1>3. TypeOK'
    BY <1>1, <1>2, Zenon DEF BrokerInv, TypeOK
  <1>4. OneBroker'
    BY <1>1, Zenon DEF BrokerInv, OneBroker, Held
  <1>5. NoOverAdmission'
    BY <1>1, <1>2, Zenon DEF BrokerInv, NoOverAdmission, Backing, Held
  <1>6. ASSUME NEW b \in Brokers PROVE TickSoundOf(b)'
    <2>1. TickSoundOf(b) /\ SemOf[b] \in Sems
      BY Zenon DEF BrokerInv, TickSound
    <2>2. sem'[SemOf[b]] + running'[SemOf[b]] = sem[SemOf[b]] + running[SemOf[b]]
      BY <1>2, Zenon
    <2> QED
      BY <1>1, <1>2, <2>1, <2>2, Zenon DEF TickSoundOf, Held
  <1> QED
    BY <1>2, <1>3, <1>4, <1>5, <1>6, Zenon DEF BrokerInv, TickSound

\* BrokerInv is inductive.
LEMMA NextInv ==
  ASSUME BrokerInv, [Next]_vars
  PROVE  BrokerInv'
  <1>1. CASE UNCHANGED vars
    BY <1>1, Zenon DEF vars, BrokerInv, TypeOK, OneBroker, NoOverAdmission, TickSound, TickSoundOf,
                UnlinkedUnused, Held, Backing
  <1>2. ASSUME NEW b \in Brokers, BrokerNext(b) PROVE BrokerInv'
    BY <1>2, StartInv, TopInv, TokenInHand, ResizeInv, SourceInv, PostInv, GoneInv, DaemonInv, Zenon
       DEF BrokerNext, BrokerStep
  <1>3. ASSUME NEW s \in Sems, GhcNext(s) PROVE BrokerInv'
    BY <1>3, GhcInv, Zenon
  <1>4. CASE Stop \/ StartDaemon
    BY <1>4, DaemonInv, Zenon
  <1> QED
    BY <1>1, <1>2, <1>3, <1>4, Zenon DEF Next

\* The invariant holds throughout.
THEOREM Invariance == Spec => []BrokerInv
  <1> QED
    BY InitInv, NextInv, PTL DEF Spec

\* Type correctness of the broker's and the semaphores' state.
THEOREM TypeCorrect == Spec => []TypeOK
  <1>1. BrokerInv => TypeOK
    BY Zenon DEF BrokerInv
  <1> QED
    BY <1>1, Invariance, PTL

\* The flock keeps it at one broker per semaphore (TakeLock).
THEOREM LockAdmitsOne == Spec => []OneBroker
  <1>1. BrokerInv => OneBroker
    BY Zenon DEF BrokerInv
  <1> QED
    BY <1>1, Invariance, PTL

\* In the middle of any Tick, for any C, any number of capabilities and any
\* faults, in_use covers what ghc has (Broker::Tick).
THEOREM TickIsSound == Spec => []TickSound
  <1>1. BrokerInv => TickSound
    BY Zenon DEF BrokerInv
  <1> QED
    BY <1>1, Invariance, PTL

\* ghc never has or may take more than cabal's tokens and the broker's slots.
THEOREM AdmissionBacked == Spec => []NoOverAdmission
  <1>1. BrokerInv => NoOverAdmission
    BY Zenon DEF BrokerInv
  <1> QED
    BY <1>1, Invariance, PTL

----------------------------------------------------------------------------
(* The daemon's counter *)

\* An answer is read or an order cancelled by one broker at a time: the answers on
\* their way change by that broker's.
LEMMA GrantedCount ==
  ASSUME TypeOK, TypeOK', NEW b \in Brokers,
         \A d \in Brokers \ {b} : order'[d] = order[d]
  PROVE  /\ Cardinality({d \in Brokers : order[d] = "granted"}) \in Nat
         /\ Cardinality({d \in Brokers : order[d] = "granted"}')
              = Cardinality({d \in Brokers : order[d] = "granted"}) - InFlight(b) + InFlight(b)'
  <1> USE BrokerAssumption
  <1> DEFINE G == {d \in Brokers : order[d] = "granted"}
             H == {d \in Brokers : order'[d] = "granted"}
  <1>1. IsFiniteSet(G) /\ IsFiniteSet(H)
    BY FS_Subset, Zenon
  <1>2. Cardinality(G) \in Nat /\ Cardinality(H) \in Nat
    BY <1>1, FS_CardinalityType, Zenon
  <1>3. b \in G <=> InFlight(b) = 1
    BY DEF InFlight
  <1>4. b \in H <=> InFlight(b)' = 1
    BY DEF InFlight
  <1>5. InFlight(b) \in {0, 1} /\ InFlight(b)' \in {0, 1}
    BY Zenon DEF InFlight
  <1>6. G \ {b} = H \ {b}
    BY Zenon
  <1> HIDE DEF G, H
  <1>7. Cardinality(G \ {b}) = Cardinality(G) - InFlight(b)
    <2>1. Cardinality(G \ {b}) = IF b \in G THEN Cardinality(G) - 1 ELSE Cardinality(G)
      BY <1>1, FS_RemoveElement, Zenon
    <2>2. CASE b \in G
      BY <2>1, <2>2, <1>3, Zenon
    <2>3. CASE b \notin G
      BY <2>1, <2>3, <1>2, <1>3, <1>5
    <2> QED
      BY <2>2, <2>3, Zenon
  <1>8. Cardinality(H \ {b}) = Cardinality(H) - InFlight(b)'
    <2>1. Cardinality(H \ {b}) = IF b \in H THEN Cardinality(H) - 1 ELSE Cardinality(H)
      BY <1>1, FS_RemoveElement, Zenon
    <2>2. CASE b \in H
      BY <2>1, <2>2, <1>4, Zenon
    <2>3. CASE b \notin H
      BY <2>1, <2>3, <1>2, <1>4, <1>5
    <2> QED
      BY <2>2, <2>3, Zenon
  <1>9. Cardinality(H) = Cardinality(G) - InFlight(b) + InFlight(b)'
    BY <1>2, <1>5, <1>6, <1>7, <1>8
  <1> QED
    BY <1>2, <1>9, Zenon DEF G, H

\* What the brokers have changes by what the broker that moves has.
LEMMA GivenChange ==
  ASSUME TypeOK, TypeOK', NEW b \in Brokers,
         \A d \in Brokers \ {b} : live'[d] = live[d] /\ order'[d] = order[d]
  PROVE  /\ Given \in Nat
         /\ Given' = Given - live[b] - InFlight(b) + live'[b] + InFlight(b)'
  <1> USE BrokerAssumption
  <1> DEFINE g == Cardinality({d \in Brokers : order[d] = "granted"})
  <1>1. \A d \in Brokers : live[d] \in Nat /\ live'[d] \in Nat
    BY Zenon DEF TypeOK
  <1>2. SumOver(Brokers, live') = SumOver(Brokers, live) - live[b] + live'[b]
    BY <1>1, SumChange
  <1>3. SumOver(Brokers, live) \in Nat
    BY <1>1, SumType, Zenon
  <1>4. g \in Nat /\ g' = g - InFlight(b) + InFlight(b)'
    BY GrantedCount, Zenon
  <1>5. InFlight(b) \in {0, 1} /\ InFlight(b)' \in {0, 1}
    BY Zenon DEF InFlight
  <1>6. Given = SumOver(Brokers, live) + g /\ Given' = SumOver(Brokers, live') + g'
    BY Zenon DEF Given
  <1> HIDE DEF g
  <1> QED
    BY <1>1, <1>2, <1>3, <1>4, <1>5, <1>6

\* The slots the brokers have are a natural number.
LEMMA GivenType ==
  ASSUME TypeOK
  PROVE  Given \in Nat
  <1> USE BrokerAssumption
  <1>1. SumOver(Brokers, live) \in Nat
    BY SumType, Zenon DEF TypeOK
  <1>2. IsFiniteSet({b \in Brokers : order[b] = "granted"})
    BY FS_Subset, Zenon
  <1>3. Cardinality({b \in Brokers : order[b] = "granted"}) \in Nat
    BY <1>2, FS_CardinalityType, Zenon
  <1> QED
    BY <1>1, <1>3 DEF Given

\* In every step of a broker, and in a Grant, the counter moves with the slots.
LEMMA CounterFollows ==
  ASSUME BrokerInv, BrokerInv', NEW b \in Brokers, BrokerNext(b)
  PROVE  /\ Given' = Given + (out' - out)
         /\ out' <= out \/ (out < Limit /\ out' = out + 1)
  <1> USE BrokerAssumption
  <1>1. TypeOK /\ TypeOK'
    BY Zenon DEF BrokerInv
  <1>2. /\ live[b] \in Nat /\ live'[b] \in Nat /\ stale[b] \in Nat /\ out \in Int /\ out' \in Int
        /\ idle[b] \in Nat
    BY <1>1, Zenon DEF TypeOK
  <1>3. InFlight(b) \in {0, 1} /\ InFlight(b)' \in {0, 1}
    BY Zenon DEF InFlight
  <1> DEFINE had == live[b] + InFlight(b)
             has == live'[b] + InFlight(b)'
  <1>4. SUFFICES /\ out' = out - had + has
                 /\ has <= had \/ (out < Limit /\ has = had + 1)
                 /\ \A d \in Brokers \ {b} : live'[d] = live[d] /\ order'[d] = order[d]
    <2>1. Given \in Nat /\ Given' = Given - live[b] - InFlight(b) + live'[b] + InFlight(b)'
      BY <1>1, <1>4, GivenChange, Zenon
    <2> QED
      BY <1>2, <1>3, <1>4, <2>1
  <1>5. CASE Start(b) \/ Top(b) \/ Drain(b) \/ TakeBack(b) \/ Post(b)
    <2>1. out' = out /\ live' = live /\ order' = order
      BY <1>5, Zenon DEF Start, Top, Drain, TakeBack, Post, daemonVars
    <2>2. InFlight(b)' = InFlight(b)
      BY <2>1, Zenon DEF InFlight
    <2> QED
      BY <1>2, <1>3, <2>1, <2>2
  <1>6. CASE Resize(b)
    <2> DEFINE keep == Lower(Held(b), InUse(b) + 1)
               oldKept == Lower(stale[b], keep)
    <2>1. /\ live' = [live EXCEPT ![b] = keep - oldKept]
          /\ out' = out - (live[b] - (keep - oldKept))
          /\ order' = order
      BY <1>6, Zenon DEF Resize
    <2>2. InFlight(b)' = InFlight(b)
      BY <2>1, Zenon DEF InFlight
    <2>3. live'[b] = keep - oldKept
      BY <1>1, <2>1, Zenon DEF TypeOK
    <2>4. keep - oldKept <= live[b]
      BY <1>2 DEF Lower, Held, InUse
    <2>5. \A d \in Brokers \ {b} : live'[d] = live[d]
      BY <1>1, <2>1, Zenon DEF TypeOK
    <2> HIDE DEF keep, oldKept
    <2> QED
      BY <1>2, <1>3, <2>1, <2>2, <2>3, <2>4, <2>5
  <1>7. CASE Cancel(b)
    <2>1. /\ live' = live /\ order' = [order EXCEPT ![b] = "none"]
          /\ out' = out - InFlight(b)
      BY <1>7, Zenon DEF Cancel
    <2>2. InFlight(b)' = 0 /\ \A d \in Brokers \ {b} : order'[d] = order[d]
      BY <1>1, <2>1, Zenon DEF InFlight, TypeOK
    <2> QED
      BY <1>2, <1>3, <2>1, <2>2
  <1>8. CASE Order(b)
    <2>1. live' = live /\ out' = out
      BY <1>8, Zenon DEF Order, daemonVars
    <2>2. order' = order \/ order' = [order EXCEPT ![b] = IF @ = "none" THEN "sent" ELSE @]
      BY <1>8, Zenon DEF Order
    <2>3. InFlight(b)' = InFlight(b) /\ \A d \in Brokers \ {b} : order'[d] = order[d]
      BY <1>1, <2>2 DEF InFlight, TypeOK
    <2> QED
      BY <1>2, <1>3, <2>1, <2>3
  <1>9. CASE Poll(b)
    <2>1. /\ live' = [live EXCEPT ![b] = @ + InFlight(b)] /\ out' = out
          /\ order' = [order EXCEPT ![b] = IF @ = "sent" THEN @ ELSE "none"]
      BY <1>9, Zenon DEF Poll, daemonVars
    <2>2. /\ InFlight(b)' = 0 /\ live'[b] = live[b] + InFlight(b)
          /\ \A d \in Brokers \ {b} : order'[d] = order[d] /\ live'[d] = live[d]
      BY <1>1, <2>1 DEF InFlight, TypeOK
    <2> QED
      BY <1>2, <1>3, <2>1, <2>2
  <1>10. CASE Exit(b) \/ Kill(b)
    <2>1. /\ live' = [live EXCEPT ![b] = 0] /\ order' = [order EXCEPT ![b] = "none"]
          /\ out' = out - live[b] - InFlight(b)
      BY <1>10, Zenon DEF Exit, Kill, Gone
    <2>2. /\ InFlight(b)' = 0 /\ live'[b] = 0
          /\ \A d \in Brokers \ {b} : order'[d] = order[d] /\ live'[d] = live[d]
      BY <1>1, <2>1 DEF InFlight, TypeOK
    <2> QED
      BY <1>2, <1>3, <2>1, <2>2
  <1>11. CASE Grant(b)
    <2>1. /\ live' = live /\ order' = [order EXCEPT ![b] = "granted"]
          /\ order[b] = "sent" /\ out < Limit /\ out' = out + 1
      BY <1>11, Zenon DEF Grant
    <2>2. InFlight(b) = 0 /\ InFlight(b)' = 1 /\ \A d \in Brokers \ {b} : order'[d] = order[d]
      BY <1>1, <2>1, Zenon DEF InFlight, TypeOK
    <2> QED
      BY <1>2, <2>1, <2>2
  <1> QED
    BY <1>5, <1>6, <1>7, <1>8, <1>9, <1>10, <1>11, Zenon DEF BrokerNext, BrokerStep

\* ghc's steps and a start of the daemon move no slot.
LEMMA CounterRests ==
  ASSUME UNCHANGED vars \/ StartDaemon \/ \E s \in Sems : GhcNext(s)
  PROVE  out' = out /\ Given' = Given
  <1>1. UNCHANGED <<live, order, out>>
    BY Zenon DEF vars, StartDaemon, GhcNext, Want, Take, GiveBack, Unlink, daemonVars
  <1> QED
    BY <1>1, Zenon DEF Given

\* A daemon that stops has no slot out, and the brokers none of its slots.
LEMMA CounterReset ==
  ASSUME Stop
  PROVE  out' = 0 /\ Given' = 0
  <1> USE BrokerAssumption
  <1>1. /\ out' = 0 /\ live' = [b \in Brokers |-> 0]
        /\ \E written \in SUBSET {b \in Brokers : order[b] = "granted"} :
              order' = [b \in Brokers |->
                          IF order[b] \in {"none", "late"} THEN order[b]
                          ELSE IF b \in written THEN "late" ELSE "eof"]
    BY Zenon DEF Stop
  <1>2. {b \in Brokers : order'[b] = "granted"} = {}
    BY <1>1, Zenon
  <1>3. Marks(Brokers, live') = {}
    BY <1>1 DEF Marks
  <1> QED
    BY <1>1, <1>2, <1>3, FS_EmptySet DEF Given, SumOver

\* The daemon's counter is what the brokers have, and never above JIGD_SLOTS: a
\* slot is neither leaked nor released twice by Resize, Cancel, an exit or a kill.
THEOREM SlotsAreAccounted == Spec => []SlotsAccounted
  <1>1. Init => SlotsAccounted
    <2> SUFFICES ASSUME Init PROVE SlotsAccounted
      BY Zenon
    <2>1. {b \in Brokers : order[b] = "granted"} = {} /\ Marks(Brokers, live) = {} /\ out = 0
      BY DEF Init, Marks
    <2>2. SumOver(Brokers, live) = 0 /\ Given = 0
      BY <2>1, FS_EmptySet DEF Given, SumOver
    <2> QED
      BY <2>1, <2>2, BrokerAssumption DEF SlotsAccounted
  <1>2. ASSUME BrokerInv, BrokerInv', SlotsAccounted, [Next]_vars PROVE SlotsAccounted'
    <2>0. out \in Int /\ out' \in Int /\ Limit \in Nat \ {0} /\ out = Given /\ out <= Limit
      BY <1>2, BrokerAssumption, Zenon DEF BrokerInv, TypeOK, SlotsAccounted
    <2>1. ASSUME NEW b \in Brokers, BrokerNext(b) PROVE SlotsAccounted'
      <3>1. /\ Given' = Given + (out' - out)
            /\ out' <= out \/ (out < Limit /\ out' = out + 1)
        BY <1>2, <2>1, CounterFollows, Zenon
      <3>2. PICK n \in Int : out' = n
        BY <2>0, Zenon
      <3>3. Given' = n /\ n <= Limit
        BY <2>0, <3>1, <3>2
      <3> QED
        BY <3>2, <3>3, Zenon DEF SlotsAccounted
    <2>2. CASE Stop
      BY <2>0, <2>2, CounterReset DEF SlotsAccounted
    <2>3. CASE UNCHANGED vars \/ StartDaemon \/ \E s \in Sems : GhcNext(s)
      BY <2>0, <2>3, CounterRests, Zenon DEF SlotsAccounted
    <2> QED
      BY <1>2, <2>1, <2>2, <2>3, Zenon DEF Next
  <1> QED
    BY <1>1, <1>2, Invariance, PTL DEF Spec

----------------------------------------------------------------------------
(* Brokers and compilers together *)

\* The counter of the daemon that serves both.
AllAccounted == out = Given + Cardinality(Slotted) /\ out <= Limit

\* Before a fault nothing is lost and no token, held or on its way, is from an earlier
\* daemon.
FaultFree ==
  faults = 0 =>
    /\ \A s \in Sems : lost[s] = 0
    /\ \A b \in Brokers : stale[b] = 0
    /\ \A b \in Brokers : order[b] # "late"

AdmissionInv ==
  /\ BrokerInv
  /\ job \in [Jobs -> {"idle", "ask", "slot", "alone"}]
  /\ AllAccounted
  /\ FaultFree

\* BrokerInv says nothing of the counter but that it is an integer.
LEMMA CounterFree ==
  ASSUME BrokerInv, UNCHANGED brokerVars, out' \in Int
  PROVE  BrokerInv'
  <1>1. UNCHANGED <<sem, running, waiters, linked, lost, lock, pc, tick, idle, inUse,
                    live, stale, order, up, faults>>
    BY Zenon DEF brokerVars
  <1>2. TypeOK'
    BY <1>1, Zenon DEF BrokerInv, TypeOK
  <1>3. OneBroker' /\ NoOverAdmission' /\ TickSound' /\ UnlinkedUnused'
    BY <1>1, Zenon DEF BrokerInv, OneBroker, NoOverAdmission, TickSound, TickSoundOf, UnlinkedUnused,
                Held, Backing
  <1> QED
    BY <1>2, <1>3, Zenon DEF BrokerInv

\* The compilers under a slot are finitely many.
LEMMA SlottedFinite == IsFiniteSet(Slotted) /\ Cardinality(Slotted) \in Nat
  <1>1. IsFiniteSet(Slotted)
    BY FS_Subset, AdmissionAssumption, Zenon DEF Slotted
  <1> QED
    BY <1>1, FS_CardinalityType, Zenon

\* Nothing is out when the daemon and the compilers start.
LEMMA AdmissionInit == AInit => AdmissionInv
  <1> SUFFICES ASSUME AInit PROVE AdmissionInv
    BY Zenon
  <1>1. BrokerInv
    BY InitInv, Zenon DEF AInit
  <1>2. {b \in Brokers : order[b] = "granted"} = {} /\ Marks(Brokers, live) = {} /\ out = 0
    BY DEF AInit, Init, Marks
  <1>3. Slotted = {}
    BY Zenon DEF AInit, Slotted
  <1>4. AllAccounted
    BY <1>2, <1>3, FS_EmptySet, BrokerAssumption DEF AllAccounted, Given, SumOver
  <1>5. FaultFree
    BY Zenon DEF AInit, Init, FaultFree
  <1> QED
    BY <1>1, <1>4, <1>5, Zenon DEF AdmissionInv, AInit

\* A compiler asks, gets its slot, or is done with it.
LEMMA JobInv ==
  ASSUME AdmissionInv, NEW j \in Jobs, Ask(j) \/ GrantJob(j) \/ Finish(j)
  PROVE  AdmissionInv'
  <1> USE BrokerAssumption, AdmissionAssumption
  <1>1. UNCHANGED brokerVars
    BY Zenon DEF Ask, GrantJob, Finish, vars, brokerVars
  <1>2. out \in Int /\ Limit \in Nat /\ job \in [Jobs -> {"idle", "ask", "slot", "alone"}]
    BY Zenon DEF AdmissionInv, BrokerInv, TypeOK
  <1>3. Given' = Given
    BY <1>1, Zenon DEF Given, brokerVars
  <1>4. FaultFree'
    BY <1>1, Zenon DEF AdmissionInv, FaultFree, brokerVars
  <1>5. out = Given + Cardinality(Slotted) /\ out <= Limit /\ Given \in Nat
    BY GivenType, Zenon DEF AdmissionInv, AllAccounted, BrokerInv
  <1>6. Cardinality(Slotted) \in Nat /\ IsFiniteSet(Slotted)
    BY SlottedFinite, Zenon
  <1>7. CASE Ask(j)
    <2>1. /\ out' = out
          /\ job[j] = "idle" /\ job' = [job EXCEPT ![j] = IF up THEN "ask" ELSE "alone"]
      BY <1>7, Zenon DEF Ask, vars
    <2>2. Slotted' = Slotted /\ job' \in [Jobs -> {"idle", "ask", "slot", "alone"}]
      BY <1>2, <2>1, Zenon DEF Slotted
    <2>3. AllAccounted'
      BY <1>3, <1>5, <2>1, <2>2, Zenon DEF AllAccounted
    <2> QED
      BY <1>1, <1>2, <1>4, <2>1, <2>2, <2>3, CounterFree, Zenon DEF AdmissionInv
  <1>8. CASE GrantJob(j)
    <2>1. out' = out + 1 /\ out < Limit /\ job[j] = "ask" /\ job' = [job EXCEPT ![j] = "slot"]
      BY <1>8, Zenon DEF GrantJob
    <2>2. /\ Slotted' = Slotted \cup {j} /\ j \notin Slotted
          /\ job' \in [Jobs -> {"idle", "ask", "slot", "alone"}]
      BY <1>2, <2>1, Zenon DEF Slotted
    <2>3. Cardinality(Slotted') = Cardinality(Slotted) + 1
      BY <1>6, <2>2, FS_AddElement, Zenon
    <2>4. AllAccounted'
      BY <1>2, <1>3, <1>5, <1>6, <2>1, <2>3 DEF AllAccounted
    <2> QED
      BY <1>1, <1>2, <1>4, <2>1, <2>2, <2>4, CounterFree DEF AdmissionInv
  <1>9. CASE Finish(j) /\ job[j] = "slot"
    <2>1. out' = out - 1 /\ job' = [job EXCEPT ![j] = "idle"]
      BY <1>9, Zenon DEF Finish
    <2>2. /\ Slotted' = Slotted \ {j} /\ j \in Slotted
          /\ job' \in [Jobs -> {"idle", "ask", "slot", "alone"}]
      BY <1>2, <1>9, <2>1, Zenon DEF Slotted
    <2>3. Cardinality(Slotted') = Cardinality(Slotted) - 1
      BY <1>6, <2>2, FS_RemoveElement, Zenon
    <2>4. AllAccounted'
      BY <1>2, <1>3, <1>5, <1>6, <2>1, <2>3 DEF AllAccounted
    <2> QED
      BY <1>1, <1>2, <1>4, <2>1, <2>2, <2>4, CounterFree DEF AdmissionInv
  <1>10. CASE Finish(j) /\ job[j] # "slot"
    <2>1. out' = out /\ job' = [job EXCEPT ![j] = "idle"]
      BY <1>10, Zenon DEF Finish
    <2>2. Slotted' = Slotted /\ job' \in [Jobs -> {"idle", "ask", "slot", "alone"}]
      BY <1>2, <1>10, <2>1, Zenon DEF Slotted
    <2>3. AllAccounted'
      BY <1>3, <1>5, <2>1, <2>2, Zenon DEF AllAccounted
    <2> QED
      BY <1>1, <1>2, <1>4, <2>1, <2>2, <2>3, CounterFree, Zenon DEF AdmissionInv
  <1> QED
    BY <1>7, <1>8, <1>9, <1>10, Zenon

\* Only a kill and a stop of the daemon are faults; without one nothing is lost.
LEMMA FaultFreeStep ==
  ASSUME BrokerInv, BrokerInv', FaultFree, [Next]_vars
  PROVE  FaultFree'
  <1> DEFINE Clean == (\A s \in Sems : lost[s] = 0) /\ (\A b \in Brokers : stale[b] = 0)
             Prompt == \A b \in Brokers : order[b] # "late"
             Quiet(b) == Start(b) \/ Top(b) \/ Drain(b) \/ Cancel(b) \/ Order(b) \/ Post(b)
                           \/ TakeBack(b) \/ Grant(b)
             Beside == StartDaemon \/ UNCHANGED vars \/ \E s \in Sems : GhcNext(s)
  <1> SUFFICES ASSUME faults' = 0 PROVE Clean' /\ Prompt'
    BY Zenon DEF FaultFree
  <1> USE BrokerAssumption
  <1>1. TypeOK
    BY Zenon DEF BrokerInv
  <1>2. faults' # faults + 1
    <2>1. faults \in Nat
      BY <1>1, Zenon DEF TypeOK
    <2> QED
      BY <2>1
  <1>3. ~Stop /\ \A b \in Brokers : ~Kill(b)
    BY <1>2, Zenon DEF Stop, Kill
  <1>4. \/ Beside
        \/ \E b \in Brokers : Quiet(b) \/ Poll(b) \/ Resize(b) \/ Exit(b)
    BY <1>3, Zenon DEF Next, BrokerNext, BrokerStep
  <1>5. ASSUME NEW b \in Brokers, Quiet(b) PROVE UNCHANGED <<lost, stale, faults>>
    BY <1>5, Zenon DEF Start, Top, Drain, Cancel, Order, Post, TakeBack, Grant
  <1>6. ASSUME Beside PROVE UNCHANGED <<lost, stale, faults, order>>
    BY <1>6, Zenon DEF StartDaemon, vars, GhcNext, Want, Take, GiveBack, Unlink
  <1>7. faults' = faults
    BY <1>4, <1>5, <1>6, Zenon DEF Poll, Resize, Exit
  <1>8. Clean /\ Prompt
    BY <1>7, Zenon DEF FaultFree
  <1>9. Prompt'
    <2>1. ASSUME NEW b \in Brokers, Quiet(b) \/ Poll(b) \/ Resize(b) \/ Exit(b)
          PROVE  order' = order \/ \E o \in Orders \ {"late"} : order' = [order EXCEPT ![b] = o]
      <3>1. CASE Start(b) \/ Top(b) \/ Drain(b) \/ Resize(b) \/ Post(b) \/ TakeBack(b)
        BY <3>1, Zenon DEF Start, Top, Drain, Resize, Post, TakeBack
      <3>2. CASE Cancel(b) \/ Exit(b) \/ Grant(b)
        BY <3>2, Zenon DEF Cancel, Exit, Gone, Grant, Orders
      <3>3. CASE Order(b) \/ Poll(b)
        <4>1. order[b] \in Orders \ {"late"} /\ order = [order EXCEPT ![b] = order[b]]
          BY <1>1, <1>8, Zenon DEF TypeOK
        <4> QED
          BY <3>3, <4>1, Zenon DEF Order, Poll, Orders
      <3> QED
        BY <2>1, <3>1, <3>2, <3>3, Zenon
    <2>2. ASSUME NEW b \in Brokers, NEW o \in Orders \ {"late"}, order' = [order EXCEPT ![b] = o]
          PROVE  Prompt'
      BY <1>1, <1>8, <2>2, Zenon DEF TypeOK
    <2> QED
      BY <1>4, <1>6, <1>8, <2>1, <2>2, Zenon
  <1>10. ASSUME UNCHANGED <<lost, stale>> PROVE Clean'
    BY <1>8, <1>10, Zenon
  <1>11. ASSUME NEW b \in Brokers, Resize(b) PROVE Clean'
    <2> DEFINE keep == Lower(Held(b), InUse(b) + 1)
    <2>1. stale' = [stale EXCEPT ![b] = Lower(stale[b], keep)] /\ lost' = lost
      BY <1>11, Zenon DEF Resize
    <2>2. keep \in Nat
      BY <1>1 DEF Lower, Held, InUse, TypeOK
    <2> HIDE DEF keep
    <2>3. Lower(stale[b], keep) = 0
      BY <1>8, <2>2 DEF Lower
    <2> QED
      BY <1>1, <1>8, <2>1, <2>3, Zenon DEF TypeOK
  <1>12. ASSUME NEW b \in Brokers, Exit(b) PROVE Clean'
    BY <1>1, <1>8, <1>12, Zenon DEF Exit, Gone, TypeOK
  <1>13. ASSUME NEW b \in Brokers, Poll(b) PROVE Clean'
    <2>1. stale' = [stale EXCEPT ![b] = @ + LateOK(b)] /\ lost' = lost
      BY <1>13, Zenon DEF Poll
    <2>2. LateOK(b) = 0 /\ stale[b] = 0
      BY <1>8, Zenon DEF LateOK
    <2>3. stale' = [stale EXCEPT ![b] = 0]
      BY <2>1, <2>2
    <2> QED
      BY <1>1, <1>8, <2>1, <2>3, Zenon DEF TypeOK
  <1> QED
    BY <1>4, <1>5, <1>6, <1>9, <1>10, <1>11, <1>12, <1>13, Zenon

\* A step of the brokers, the ghcs or the daemon leaves the compilers alone, unless
\* the daemon stops.
LEMMA BesideJobs ==
  ASSUME AdmissionInv, BrokerInv', UNCHANGED job,
         \/ \E b \in Brokers : BrokerNext(b)
         \/ UNCHANGED vars \/ StartDaemon \/ \E s \in Sems : GhcNext(s)
  PROVE  AllAccounted'
  <1> USE BrokerAssumption
  <1>1. /\ out = Given + Cardinality(Slotted) /\ out <= Limit /\ Given \in Nat /\ BrokerInv
        /\ out \in Int /\ out' \in Int /\ Limit \in Nat
    BY GivenType, Zenon DEF AdmissionInv, AllAccounted, BrokerInv, TypeOK
  <1>2. Slotted' = Slotted
    BY Zenon DEF Slotted
  <1>3. Cardinality(Slotted) \in Nat
    BY SlottedFinite, Zenon
  <1>4. ASSUME NEW b \in Brokers, BrokerNext(b) PROVE AllAccounted'
    <2>1. /\ Given' = Given + (out' - out)
          /\ out' <= out \/ (out < Limit /\ out' = out + 1)
      BY <1>1, <1>4, CounterFollows, Zenon
    <2>2. PICK n \in Int : out' = n
      BY <1>1, Zenon
    <2>3. n = Given' + Cardinality(Slotted) /\ n <= Limit
      BY <1>1, <1>3, <2>1, <2>2
    <2> QED
      BY <1>2, <2>2, <2>3, Zenon DEF AllAccounted
  <1>5. CASE UNCHANGED vars \/ StartDaemon \/ \E s \in Sems : GhcNext(s)
    BY <1>1, <1>2, <1>5, CounterRests, Zenon DEF AllAccounted
  <1> QED
    BY <1>4, <1>5, Zenon

\* When the daemon stops, nobody keeps a slot of it.
LEMMA StopAllInv ==
  ASSUME AdmissionInv, BrokerInv', StopAll
  PROVE  AllAccounted' /\ job' \in [Jobs -> {"idle", "ask", "slot", "alone"}]
  <1>1. out' = 0 /\ Given' = 0
    BY CounterReset, Zenon DEF StopAll
  <1>2. job' = [j \in Jobs |-> IF job[j] = "idle" THEN "idle" ELSE "alone"]
    BY Zenon DEF StopAll
  <1>3. Slotted' = {}
    BY <1>2, Zenon DEF Slotted
  <1> QED
    BY <1>1, <1>2, <1>3, FS_EmptySet, BrokerAssumption DEF AllAccounted

\* The invariant of the daemon with both kinds of users is inductive.
LEMMA AdmissionNext ==
  ASSUME AdmissionInv, [ANext]_allVars
  PROVE  AdmissionInv'
  <1>1. ASSUME NEW j \in Jobs, Ask(j) \/ GrantJob(j) \/ Finish(j) PROVE AdmissionInv'
    BY <1>1, JobInv, Zenon
  <1>2. ASSUME UNCHANGED job,
               \/ \E b \in Brokers : BrokerNext(b)
               \/ UNCHANGED vars \/ StartDaemon \/ \E s \in Sems : GhcNext(s)
        PROVE  AdmissionInv'
    <2>1. [Next]_vars
      BY <1>2, Zenon DEF Next
    <2>2. BrokerInv'
      BY <2>1, NextInv, Zenon DEF AdmissionInv
    <2>3. AllAccounted'
      BY <1>2, <2>2, BesideJobs, Zenon
    <2>4. FaultFree'
      BY <2>1, <2>2, FaultFreeStep, Zenon DEF AdmissionInv
    <2> QED
      BY <1>2, <2>2, <2>3, <2>4, Zenon DEF AdmissionInv
  <1>3. CASE StopAll
    <2>1. [Next]_vars
      BY <1>3, Zenon DEF Next, StopAll
    <2>2. BrokerInv'
      BY <2>1, NextInv, Zenon DEF AdmissionInv
    <2>3. FaultFree'
      BY <2>1, <2>2, FaultFreeStep, Zenon DEF AdmissionInv
    <2> QED
      BY <1>3, <2>2, <2>3, StopAllInv, Zenon DEF AdmissionInv
  <1>4. ASSUME NEW s \in Sems, UnlinkLast(s) \/ Want(s) \/ Take(s) \/ GiveBack(s)
        PROVE  GhcNext(s)
    BY <1>4, Zenon DEF UnlinkLast, GhcNext
  <1>5. ASSUME NEW s \in Sems, UnlinkLast(s) PROVE UNCHANGED job
    BY <1>5, Zenon DEF UnlinkLast
  <1>6. CASE UNCHANGED allVars
    BY <1>2, <1>6, Zenon DEF allVars
  <1> QED
    BY <1>1, <1>2, <1>3, <1>4, <1>5, <1>6, Zenon DEF ANext

\* Without faults the tokens of all ghcs beyond cabal's own are slots of brokers:
\* the running capabilities of a semaphore are numbered, those above Cabal are
\* matched with the tokens of the broker that holds its lock.
LEMMA CapabilitiesBacked ==
  ASSUME BrokerInv, FaultFree, faults = 0
  PROVE  SumOver(Sems, running) <= Cabal * Cardinality(Sems) + SumOver(Brokers, live)
  <1> USE BrokerAssumption
  <1> DEFINE All == Marks(Sems, running)
             Own == {m \in All : m[2] <= Cabal}
             Extra == {m \in All : m[2] > Cabal}
             slot == [m \in Extra |-> <<lock[m[1]], m[2] - Cabal>>]
  <1>1. /\ running \in [Sems -> Nat] /\ live \in [Brokers -> Nat] /\ sem \in [Sems -> Nat]
        /\ lock \in [Sems -> Brokers \cup {NoBroker}]
        /\ \A s \in Sems : lock[s] # NoBroker => SemOf[lock[s]] = s
    BY Zenon DEF BrokerInv, TypeOK
  <1>2. IsFiniteSet(All) /\ IsFiniteSet(Marks(Brokers, live)) /\ SumOver(Brokers, live) \in Nat
    BY <1>1, SumType, Zenon
  <1>3. IsFiniteSet(Own) /\ IsFiniteSet(Extra)
    BY <1>2, FS_Subset, Zenon
  <1>4. All = Own \cup Extra /\ Own \cap Extra = {}
    <2>1. \A m \in All : m[2] \in Int
      BY <1>1 DEF Marks
    <2> QED
      BY <2>1
  <1>5. Cardinality(All) = Cardinality(Own) + Cardinality(Extra)
    <2> HIDE DEF All, Own, Extra
    <2> QED
      BY <1>3, <1>4, DisjointCount, Zenon
  <1>6. Cardinality(Own) <= Cabal * Cardinality(Sems)
    <2>1. Own \subseteq Sems \X (1..Cabal)
      BY <1>1 DEF Marks
    <2>2. IsFiniteSet(1..Cabal) /\ Cardinality(1..Cabal) = Cabal
      BY FS_Interval
    <2>3. /\ IsFiniteSet(Sems \X (1..Cabal))
          /\ Cardinality(Sems \X (1..Cabal)) = Cardinality(Sems) * Cardinality(1..Cabal)
      BY <2>2, FS_Product, Zenon
    <2>4. Cardinality(Own) <= Cardinality(Sems \X (1..Cabal))
      BY <2>1, <2>3, FS_Subset, Zenon
    <2>5. Cardinality(Sems) \in Nat
      BY FS_CardinalityType, Zenon
    <2> HIDE DEF Own
    <2>6. Cardinality(Sems) * Cardinality(1..Cabal) = Cabal * Cardinality(Sems)
      BY <2>2, <2>5
    <2> QED
      BY <2>3, <2>4, <2>6, Zenon
  <1>7. ASSUME NEW m \in Extra
        PROVE  /\ m[1] \in Sems /\ lock[m[1]] \in Brokers /\ m[2] \in Nat
               /\ m[2] - Cabal \in 1..live[lock[m[1]]]
    <2>1. PICK s \in Sems : m \in {s} \X (1..running[s])
      BY Zenon DEF Marks
    <2>2. m[1] = s /\ m[2] \in Nat /\ Cabal < m[2] /\ m[2] <= running[s]
      BY <1>1, <2>1
    <2>3. sem[s] + running[s] <= Cabal + Backing(s) + lost[s] /\ lost[s] = 0
      BY Zenon DEF BrokerInv, NoOverAdmission, FaultFree
    <2>4. CASE lock[s] = NoBroker
      BY <1>1, <2>2, <2>3, <2>4 DEF Backing
    <2>5. CASE lock[s] # NoBroker
      <3>1. lock[s] \in Brokers
        BY <1>1, <2>5, Zenon
      <3>2. Backing(s) = live[lock[s]] /\ live[lock[s]] \in Nat
        BY <1>1, <2>5, <3>1 DEF Backing, Held, FaultFree
      <3> QED
        BY <1>1, <2>2, <2>3, <3>1, <3>2
    <2> QED
      BY <2>4, <2>5, Zenon
  <1>8. slot \in Injection(Extra, Marks(Brokers, live))
    <2>1. slot \in [Extra -> Marks(Brokers, live)]
      BY <1>7 DEF Marks
    <2>2. ASSUME NEW m \in Extra, NEW n \in Extra, slot[m] = slot[n] PROVE m = n
      <3>1. lock[m[1]] = lock[n[1]] /\ m[2] - Cabal = n[2] - Cabal
        BY <2>2, Zenon
      <3>2. m[1] = n[1]
        BY <1>1, <1>7, <3>1
      <3>3. m[2] = n[2]
        BY <1>7, <3>1
      <3>4. m = <<m[1], m[2]>> /\ n = <<n[1], n[2]>>
        BY DEF Marks
      <3> QED
        BY <3>2, <3>3, <3>4, Zenon
    <2> QED
      BY <2>1, <2>2, Zenon DEF Injection, IsInjective
  <1>9. Cardinality(Extra) <= SumOver(Brokers, live)
    BY <1>2, <1>8, FS_Injection, Zenon DEF SumOver
  <1>10. Cardinality(Own) \in Nat /\ Cardinality(Extra) \in Nat /\ Cardinality(Sems) \in Nat
    BY <1>3, FS_CardinalityType, Zenon
  <1>11. SumOver(Sems, running) = Cardinality(Own) + Cardinality(Extra)
    BY <1>5, Zenon DEF SumOver
  <1>12. Cabal * Cardinality(Sems) \in Nat
    BY <1>10
  <1> HIDE DEF Own, Extra
  <1> QED
    BY <1>2, <1>6, <1>9, <1>10, <1>11, <1>12

\* Until a broker is killed or the daemon stops, the ghc capabilities and the
\* compilers that run at the same time are at most JIGD_SLOTS and the tokens the
\* cabals were started with, for any number of each.
THEOREM HostIsBounded == ASpec => []HostBound
  <1>1. ASSUME AdmissionInv PROVE HostBound
    <2> SUFFICES ASSUME faults = 0
                 PROVE  SumOver(Sems, running) + Cardinality(Slotted)
                          <= Limit + Cabal * Cardinality(Sems)
      BY Zenon DEF HostBound
    <2> USE BrokerAssumption
    <2>1. BrokerInv /\ FaultFree /\ out = Given + Cardinality(Slotted) /\ out <= Limit
      BY <1>1, Zenon DEF AdmissionInv, AllAccounted
    <2>2. SumOver(Sems, running) <= Cabal * Cardinality(Sems) + SumOver(Brokers, live)
      BY <2>1, CapabilitiesBacked, Zenon
    <2>3. SumOver(Sems, running) \in Nat /\ SumOver(Brokers, live) \in Nat
      BY <2>1, SumType, Zenon DEF BrokerInv, TypeOK
    <2>4. IsFiniteSet({b \in Brokers : order[b] = "granted"})
      BY FS_Subset, Zenon
    <2>5. Cardinality({b \in Brokers : order[b] = "granted"}) \in Nat
      BY <2>4, FS_CardinalityType, Zenon
    <2>6. Given >= SumOver(Brokers, live) /\ Given \in Nat
      BY <2>3, <2>5 DEF Given
    <2>7. Cardinality(Slotted) \in Nat /\ Cardinality(Sems) \in Nat
      BY SlottedFinite, FS_CardinalityType, Zenon
    <2>8. Cabal * Cardinality(Sems) \in Nat
      BY <2>7
    <2> QED
      BY <2>1, <2>2, <2>3, <2>6, <2>7, <2>8
  <1>2. AdmissionInv => HostBound
    BY <1>1, Zenon
  <1> QED
    BY <1>2, AdmissionInit, AdmissionNext, PTL DEF ASpec
=============================================================================
