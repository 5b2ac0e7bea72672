--------------------------- MODULE PackStoreProofs ---------------------------
(***************************************************************************)
(* The index of jigd's store is sound, its counters are right, nobody      *)
(* sends on a closed channel, the store implements LossyMap, and a clean   *)
(* restart loses nothing: for any keys, sizes, tiers and budgets, and any  *)
(* number of Puts, crashes and failing system calls.  All but the channel  *)
(* say so until OpenStore skips a pack: run packstore_reuse shows that a   *)
(* clean restart may lose values after that.                               *)
(***************************************************************************)
EXTENDS PackStoreSteps, FiniteSetTheorems

----------------------------------------------------------------------------
(* Sums *)

\* One summand is as many marks as it says.
LEMMA RowCount ==
  ASSUME NEW x, NEW n \in Nat
  PROVE  /\ IsFiniteSet({x} \X (1..n))
         /\ Cardinality({x} \X (1..n)) = n
  <1>1. IsFiniteSet({x}) /\ Cardinality({x}) = 1
    BY FS_Singleton
  <1>2. IsFiniteSet(1..n) /\ Cardinality(1..n) = n
    BY FS_Interval
  <1> DEFINE one == {x}
             upTo == 1..n
  <1> HIDE DEF one, upTo
  <1>3. IsFiniteSet(one \X upTo) /\ Cardinality(one \X upTo) = Cardinality(one) * Cardinality(upTo)
    BY <1>1, <1>2, FS_Product, Zenon DEF one, upTo
  <1>4. Cardinality(one) * Cardinality(upTo) = n
    BY <1>1, <1>2 DEF one, upTo
  <1> QED
    BY <1>3, <1>4 DEF one, upTo

\* The size of two finite sets that share nothing.
LEMMA DisjointCount ==
  ASSUME NEW A, IsFiniteSet(A), NEW B, IsFiniteSet(B), A \cap B = {}
  PROVE  Cardinality(A \cup B) = Cardinality(A) + Cardinality(B)
  <1>1. Cardinality(A \cap B) = 0
    BY FS_EmptySet
  <1>2. Cardinality(A) \in Nat /\ Cardinality(B) \in Nat
    BY FS_CardinalityType
  <1>3. Cardinality(A \cup B) = Cardinality(A) + Cardinality(B) - Cardinality(A \cap B)
    BY FS_Union
  <1> DEFINE c == Cardinality(A \cap B)
  <1> HIDE DEF c
  <1>4. Cardinality(A \cup B) = Cardinality(A) + Cardinality(B) - c /\ c = 0
    BY <1>1, <1>3 DEF c
  <1> QED
    BY <1>2, <1>4

\* A finite set brings finitely many marks, so its sum is a natural number.
LEMMA SumType ==
  ASSUME NEW S, IsFiniteSet(S), NEW f, \A x \in S : f[x] \in Nat
  PROVE  IsFiniteSet(Marks(S, f)) /\ SumOver(S, f) \in Nat
  <1> DEFINE T == {{x} \X (1..f[x]) : x \in S}
             row == [x \in S |-> {x} \X (1..f[x])]
  <1>1. row \in Surjection(S, T)
    BY Zenon DEF Surjection
  <1>2. IsFiniteSet(T)
    BY <1>1, FS_Surjection
  <1>3. ASSUME NEW R \in T PROVE IsFiniteSet(R)
    <2>1. PICK x \in S : R = {x} \X (1..f[x])
      OBVIOUS
    <2> QED
      BY <2>1, RowCount, Zenon
  <1>4. IsFiniteSet(UNION T)
    BY <1>2, <1>3, FS_UNION, Zenon
  <1> QED
    BY <1>4, FS_CardinalityType DEF Marks, SumOver

\* Nothing sums up to zero.
LEMMA SumEmpty ==
  ASSUME NEW f
  PROVE  SumOver({}, f) = 0
  <1>1. Marks({}, f) = {}
    BY DEF Marks
  <1> QED
    BY <1>1, FS_EmptySet DEF SumOver

\* The sum depends on the summands only.
LEMMA SumSame ==
  ASSUME NEW S, NEW f, NEW g, \A x \in S : f[x] = g[x]
  PROVE  SumOver(S, f) = SumOver(S, g)
  <1>1. Marks(S, f) = Marks(S, g)
    BY DEF Marks
  <1> QED
    BY <1>1 DEF SumOver

\* One more summand.
LEMMA SumAdd ==
  ASSUME NEW S, IsFiniteSet(S), NEW x, x \notin S, NEW f,
         \A y \in S \cup {x} : f[y] \in Nat
  PROVE  SumOver(S \cup {x}, f) = SumOver(S, f) + f[x]
  <1> DEFINE row == {x} \X (1..f[x])
  <1>1. Marks(S \cup {x}, f) = Marks(S, f) \cup row
    BY DEF Marks
  <1>2. Marks(S, f) \cap row = {}
    BY DEF Marks
  <1>3. IsFiniteSet(row) /\ Cardinality(row) = f[x]
    BY RowCount
  <1>4. IsFiniteSet(Marks(S, f)) /\ SumOver(S, f) \in Nat
    BY SumType
  <1>5. Cardinality(Marks(S, f) \cup row) = Cardinality(Marks(S, f)) + Cardinality(row)
    BY <1>2, <1>3, <1>4, DisjointCount
  <1> HIDE DEF row
  <1> QED
    BY <1>1, <1>3, <1>5, Zenon DEF SumOver

\* One summand less.
LEMMA SumRemove ==
  ASSUME NEW S, IsFiniteSet(S), NEW x \in S, NEW f, \A y \in S : f[y] \in Nat
  PROVE  SumOver(S, f) = SumOver(S \ {x}, f) + f[x]
  <1>1. IsFiniteSet(S \ {x})
    BY FS_RemoveElement
  <1>2. S = (S \ {x}) \cup {x} /\ x \notin S \ {x}
    OBVIOUS
  <1>3. \A y \in (S \ {x}) \cup {x} : f[y] \in Nat
    BY <1>2
  <1>4. SumOver((S \ {x}) \cup {x}, f) = SumOver(S \ {x}, f) + f[x]
    BY <1>1, <1>2, <1>3, SumAdd
  <1> QED
    BY <1>2, <1>4

\* The sum over two sets that share nothing.
LEMMA SumUnion ==
  ASSUME NEW S, IsFiniteSet(S), NEW T, IsFiniteSet(T), S \cap T = {}, NEW f,
         \A y \in S \cup T : f[y] \in Nat
  PROVE  SumOver(S \cup T, f) = SumOver(S, f) + SumOver(T, f)
  <1>1. Marks(S \cup T, f) = Marks(S, f) \cup Marks(T, f)
    BY DEF Marks
  <1>2. Marks(S, f) \cap Marks(T, f) = {}
    BY DEF Marks
  <1>3. IsFiniteSet(Marks(S, f)) /\ SumOver(S, f) \in Nat
    BY SumType
  <1>4. IsFiniteSet(Marks(T, f)) /\ SumOver(T, f) \in Nat
    BY SumType
  <1>5. Cardinality(Marks(S, f) \cup Marks(T, f))
          = Cardinality(Marks(S, f)) + Cardinality(Marks(T, f))
    BY <1>2, <1>3, <1>4, DisjointCount
  <1> QED
    BY <1>1, <1>5 DEF SumOver

----------------------------------------------------------------------------
(* The demoter, between its moves *)

\* What the demoter does between its moves.
LEMMA QuietInv ==
  ASSUME StoreInv, AwaitKick \/ Receive \/ Pick \/ MoveFails
  PROVE  StoreInv'
  <1>1. /\ dpc \notin {"none", "done"} /\ dpc' # "none"
        /\ dpc' \in {"range", "wait", "pick", "done", "pack", "evict"}
        /\ UNCHANGED <<file, hint, index, tierOf, active, state, todo, last, closed, panic,
                       log, atClose>>
    BY Zenon DEF AwaitKick, Receive, Pick, MoveFails, diskVars, memVars, quietVars, loadVars
  <1>2. Loaded /\ Loaded' /\ ServeInv
    BY <1>1, Zenon DEF StoreInv, Loaded
  <1>3. VictimInv' /\ vic' \in 0..MaxId
    <2>1. CASE ~Pick
      <3>1. dpc' \in {"range", "wait", "pick", "done"} /\ vic' = vic
        BY <2>1, Zenon DEF AwaitKick, Receive, MoveFails
      <3> QED
        BY <3>1, Zenon DEF VictimInv, StoreInv, TypeInv
    <2>2. CASE Pick /\ Crowded = {}
      <3>1. dpc' = "range" /\ vic' = vic
        BY <2>2, Zenon DEF Pick
      <3> QED
        BY <3>1, Zenon DEF VictimInv, StoreInv, TypeInv
    <2>3. CASE Pick /\ Crowded # {}
      <3>1. PICK t \in Tiers : /\ vic' \in Sealed(t)
                                /\ dpc' = IF t = NTiers THEN "evict" ELSE "pack"
        BY <2>3, Zenon DEF Pick, Crowded, Victims
      <3>3. vic' \in Ids /\ tierOf[vic'] = t /\ vic' # active
        BY <3>1, Zenon DEF Sealed
      <3>4. vic' < active
        <4>1. PICK v \in Ids : vic' = v
          BY <3>3, Zenon
        <4>2. v <= active
          BY <3>1, <3>3, <4>1, <1>2, PackStoreAssumption
             DEF StoreInv, Placed, ServeInv, ActiveInv, IdsBelow, Tiers
        <4> QED
          BY <3>3, <4>1, <4>2, <1>2 DEF ServeInv, ActiveInv, Ids
      <3>5. vic' \in 0..MaxId
        BY <3>3 DEF Ids
      <3> QED
        BY <1>1, <3>1, <3>3, <3>4, <3>5, PackStoreAssumption DEF VictimInv, Tiers
    <2> QED
      BY <2>1, <2>2, <2>3, Zenon
  <1>4. TypeInv'
    BY <1>1, <1>3, Zenon DEF StoreInv, TypeInv
  <1>5. DiskInv' /\ IndexPoints' /\ Placed'
    BY <1>1, SameDisk, SameMemory, Zenon DEF StoreInv
  <1>6. OnePlace' /\ OneHint' /\ ActiveInv' /\ SealedInv'
    BY <1>1, <1>2, SameService, Zenon
  <1> QED
    BY <1>1, <1>2, <1>3, <1>4, <1>5, <1>6, Zenon DEF StoreInv, ServeInv, Loaded

----------------------------------------------------------------------------
(* The invariant holds *)

\* Before the first start there is nothing on disk.
LEMMA InitInv ==
  ASSUME Init
  PROVE  StoreInv
  <1>1. /\ file = Empty /\ hint = Empty /\ log = <<>>
        /\ index = [k \in Keys |-> NoLoc] /\ tierOf = [id \in Ids |-> 0]
        /\ active = 0 /\ state = "down" /\ todo = {} /\ last = 0
        /\ closed = FALSE /\ panic = FALSE /\ dpc = "none" /\ vic = 0
        /\ atClose = [k \in Keys |-> 0]
    BY Zenon DEF Init
  <1>2. \A t \in Tiers, id \in Ids : ~Exists(t, id) /\ ~Hinted(t, id)
    BY <1>1, Zenon DEF Empty, Exists, Hinted
  <1>3. TypeInv
    BY <1>1, PackStoreAssumption DEF TypeInv, Empty
  <1>4. DiskInv
    BY <1>2 DEF DiskInv, TornLast, RecordsWritten, CopiesAgree, HintsAgree, TopExists,
                HintsOfCopies, HasRec
  <1>5. IndexPoints /\ Placed /\ CloseInv
    BY <1>1, Zenon DEF IndexPoints, Placed, CloseInv
  <1> QED
    BY <1>1, <1>3, <1>4, <1>5, Zenon DEF StoreInv, Loaded, Fresh

\* A step of somebody else.
LEMMA StutterInv ==
  ASSUME StoreInv, UNCHANGED vars
  PROVE  StoreInv'
  <1>1. UNCHANGED <<file, hint, index, tierOf, active, state, todo, last, closed, panic, dpc,
                    vic, log, atClose>>
    BY Zenon DEF vars
  <1>2. TypeInv'
    BY <1>1, Zenon DEF StoreInv, TypeInv
  <1>3. DiskInv' /\ IndexPoints' /\ Placed'
    BY <1>1, SameDisk, SameMemory, Zenon DEF StoreInv
  <1>4. Loaded' <=> Loaded
    BY <1>1, Zenon DEF Loaded
  <1>5. Loaded => ServeInv'
    <2> SUFFICES ASSUME Loaded PROVE ServeInv'
      BY Zenon
    <2>1. ServeInv
      BY Zenon DEF StoreInv
    <2>2. VictimInv'
      BY <1>1, <2>1, Zenon DEF ServeInv, VictimInv, Exists, Hinted
    <2> QED
      BY <1>1, <2>1, <2>2, SameService, Zenon DEF ServeInv
  <1>6. ~Loaded => CloseInv'
    BY <1>1, SameClose, Zenon DEF StoreInv
  <1>7. state = "loading" => LoadInv'
    BY <1>1, Zenon DEF StoreInv, LoadInv, IndexHinted, Entry, HasRec, Exists, Hinted
  <1>8. state = "down" => Fresh'
    BY <1>1, Zenon DEF StoreInv, Fresh
  <1> QED
    BY <1>1, <1>2, <1>3, <1>4, <1>5, <1>6, <1>7, <1>8, Zenon DEF StoreInv

\* Only LoadFails skips a pack, and what is skipped stays so.
LEMMA SkipStays ==
  ASSUME [Next]_vars
  PROVE  /\ skipped' = skipped \/ skipped' = TRUE
         /\ ~skipped' => \A t \in Tiers, id \in Ids : ~LoadFails(t, id)
  <1>1. ASSUME NEW t \in Tiers, NEW id \in Ids, LoadFails(t, id) PROVE skipped' = TRUE
    BY <1>1, Zenon DEF LoadFails
  <1> DEFINE Kept == skipped' = skipped \/ skipped' = TRUE
  <1> SUFFICES Kept
    BY <1>1, Zenon
  <1>2. CASE Load
    <2>1. PICK t \in Tiers, id \in Ids :
            RemoveDup(t, id) \/ LoadHinted(t, id) \/ LoadScanned(t, id) \/ LoadFails(t, id)
      BY <1>2, Zenon DEF Load
    <2> QED
      BY <1>1, <2>1, Zenon DEF RemoveDup, LoadHinted, LoadScanned
  <1>3. CASE Open \/ Opened \/ OpenFails \/ Refused \/ SetClosed \/ CloseChannel \/ Closed
    BY <1>3, Zenon DEF Open, Opened, OpenFails, Refused, SetClosed, CloseChannel, Closed
  <1>4. ASSUME NEW k \in Keys, Write(k) PROVE Kept
    <2>1. CASE Put(k)
      BY <2>1, Zenon DEF Put, AppendRecord
    <2>2. CASE RotateFails(k) \/ WriteFails(k)
      BY <2>2, Zenon DEF RotateFails, WriteFails
    <2> QED
      BY <1>4, <2>1, <2>2, Zenon DEF Write
  <1>5. CASE Demote \/ MoveFails
    <2>1. CASE AwaitKick \/ Receive \/ Pick \/ MoveFails
      BY <2>1, Zenon DEF AwaitKick, Receive, Pick, MoveFails, quietVars
    <2>2. CASE Evict \/ CopyPack \/ CopyHint \/ Switch \/ Unlink
      BY <2>2, Zenon DEF Evict, CopyPack, CopyHint, Switch, Unlink, quietVars
    <2> QED
      BY <1>5, <2>1, <2>2, Zenon DEF Demote
  <1>6. CASE Crash \/ PowerLoss
    <2>1. Crashed
      BY <1>6, Zenon DEF Crash, PowerLoss
    <2> QED
      BY <2>1, Zenon DEF Crashed
  <1>7. CASE UNCHANGED vars
    BY <1>7, Zenon DEF vars
  <1> QED
    BY <1>2, <1>3, <1>4, <1>5, <1>6, <1>7, Zenon DEF Next

\* Every step keeps the invariant.
LEMMA NextInv ==
  ASSUME ~skipped', StoreInv, [Next]_vars
  PROVE  StoreInv'
  <1>1. CASE Open
    BY <1>1, OpenInv, Zenon
  <1>2. CASE Load
    BY <1>2, RemoveDupInv, LoadHintedInv, LoadScannedInv, SkipStays, Zenon DEF Load
  <1>3. CASE Opened
    BY <1>3, OpenedInv, Zenon
  <1>4. CASE OpenFails \/ Refused
    BY <1>4, RefusedInv, Zenon
  <1>5. CASE \E k \in Keys : Write(k)
    BY <1>5, WriteInv, Zenon
  <1>6. CASE Demote \/ MoveFails
    BY <1>6, QuietInv, EvictInv, CopyPackInv, CopyHintInv, SwitchInv, UnlinkInv, Zenon DEF Demote
  <1>7. CASE SetClosed \/ CloseChannel
    BY <1>7, ClosingInv, Zenon
  <1>8. CASE Closed
    BY <1>8, ClosedInv, Zenon
  <1>9. CASE Crash
    BY <1>9, CrashInv, Zenon
  <1>10. CASE PowerLoss
    BY <1>10, PowerLossInv, Zenon
  <1>11. CASE UNCHANGED vars
    BY <1>11, StutterInv, Zenon
  <1> QED
    BY <1>1, <1>2, <1>3, <1>4, <1>5, <1>6, <1>7, <1>8, <1>9, <1>10, <1>11, Zenon DEF Next

\* The inductive invariant of the store.
Sound == ~skipped => StoreInv

\* Until OpenStore skips a pack, disk, index and service agree.
THEOREM StoreIsSound == Spec => []Sound
  <1>1. Init => Sound
    BY InitInv, Zenon DEF Sound
  <1>2. Sound /\ [Next]_vars => Sound'
    BY NextInv, SkipStays, Zenon DEF Sound
  <1> QED
    BY <1>1, <1>2, PTL DEF Spec

\* Until then, whatever crashed or failed before, the index points at a record of its
\* key in a pack file that is there.
THEOREM IndexIsSound == Spec => []IndexSound
  <1>1. Sound => IndexSound
    BY Zenon DEF Sound, StoreInv, IndexSound
  <1> QED
    BY <1>1, StoreIsSound, PTL

----------------------------------------------------------------------------
(* The demote channel *)

\* The channel is closed only once Close has set Store.closed under mu, and Put sends
\* only while it is not set: however a load may fail, nobody sends on it after that.
ChannelInv == ~panic /\ (closed => state = "draining")

\* A step on the channel.
LEMMA ChannelNext ==
  ASSUME ChannelInv, [Next]_vars
  PROVE  ChannelInv'
  <1>1. CASE Open \/ Load \/ Opened \/ OpenFails
    BY <1>1 DEF Open, Load, RemoveDup, LoadHinted, LoadScanned, LoadFails, Opened, OpenFails,
                chanVars, ChannelInv
  <1>2. CASE Refused \/ Closed \/ Crash \/ PowerLoss
    BY <1>2 DEF Refused, Closed, Crash, PowerLoss, Crashed, Forgotten, ChannelInv
  <1>3. CASE \E k \in Keys : Write(k)
    <2>1. state = "up" /\ state' = state /\ closed' = closed
      BY <1>3, Zenon DEF Write, Put, AppendRecord, Kick, RotateFails, WriteFails, chanVars
    <2>2. panic' = panic \/ (~closed => panic' = FALSE)
      BY <1>3, <2>1, Zenon DEF Write, Put, AppendRecord, Kick, RotateFails, WriteFails, chanVars, ChannelInv
    <2> QED
      BY <2>1, <2>2 DEF ChannelInv
  <1>4. CASE Demote \/ MoveFails
    BY <1>4 DEF Demote, MoveFails, AwaitKick, Receive, Pick, Evict, CopyPack, CopyHint, Switch,
                Unlink, quietVars, ChannelInv
  <1>5. CASE SetClosed \/ CloseChannel
    BY <1>5 DEF SetClosed, CloseChannel, chanVars, ChannelInv
  <1>6. CASE UNCHANGED vars
    BY <1>6, Zenon DEF vars, ChannelInv
  <1> QED
    BY <1>1, <1>2, <1>3, <1>4, <1>5, <1>6, Zenon DEF Next

\* Nobody sends on the demote channel after Close has closed it.
THEOREM NeverSendsOnClosed == Spec => []NoSendOnClosed
  <1>1. Init => ChannelInv
    BY Zenon DEF Init, ChannelInv
  <1>2. ChannelInv /\ [Next]_vars => ChannelInv'
    BY ChannelNext, Zenon
  <1>3. ChannelInv => NoSendOnClosed
    BY Zenon DEF ChannelInv, NoSendOnClosed
  <1> QED
    BY <1>1, <1>2, <1>3, PTL DEF Spec

----------------------------------------------------------------------------
(* A clean restart *)

\* Only the last step of OpenStore starts the service.
LEMMA OnlyOpened ==
  ASSUME [Next]_vars, state = "loading", state' = "up"
  PROVE  Opened
  <1>1. CASE Load
    BY <1>1 DEF Load, RemoveDup, LoadHinted, LoadScanned, LoadFails
  <1>2. CASE Demote \/ MoveFails
    BY <1>2, Zenon DEF Demote, MoveFails, AwaitKick, Receive, Pick, Evict, CopyPack, CopyHint, Switch,
                Unlink, quietVars
  <1>3. CASE \E k \in Keys : Write(k)
    BY <1>3, Zenon DEF Write, Put, RotateFails, WriteFails
  <1>4. CASE Open \/ OpenFails \/ Refused \/ SetClosed \/ CloseChannel \/ Closed
    BY <1>4, Zenon DEF Open, OpenFails, Refused, SetClosed, CloseChannel, Closed
  <1>5. CASE Crash \/ PowerLoss
    BY <1>5, Zenon DEF Crash, PowerLoss, Crashed
  <1>6. CASE UNCHANGED vars
    BY <1>6, Zenon DEF vars
  <1> QED
    BY <1>1, <1>2, <1>3, <1>4, <1>5, <1>6, Zenon DEF Next

\* Once everything is loaded, the index has what was there at the last Close.
LEMMA AllFound ==
  ASSUME StoreInv, Opened, state' = "up", NEW k \in Keys, atClose[k] # 0
  PROVE  Value(k)' = atClose[k]
  <1>1. state = "loading" /\ todo = {} /\ index' = index
    BY Zenon DEF Opened
  <1>2. TypeInv /\ LoadInv /\ CloseInv
    BY <1>1, Zenon DEF StoreInv, Loaded
  <1>3. PICK t \in Tiers, p \in Ids, n \in Nat \ {0} :
          /\ FoundAt(k, t, p, n)
          /\ file[t][p][n].ver = atClose[k]
          /\ tierOf[p] # 0 => index[k] = [pack |-> p, at |-> n]
    BY <1>2 DEF CloseInv
  <1>4. tierOf[p] = t /\ t # 0
    BY <1>1, <1>2, <1>3 DEF FoundAt, FirstCopy, LoadInv, Tiers
  <1>5. p <= last /\ last \in Nat
    BY <1>2, <1>4, PackStoreAssumption DEF LoadInv, TypeInv
  <1>6. p # last + 1
    BY <1>5 DEF Ids
  <1>7. /\ file' = [file EXCEPT ![1][last + 1] = <<>>]
        /\ tierOf' = [tierOf EXCEPT ![last + 1] = 1]
    BY Zenon DEF Opened
  <1>8. file'[t][p] = file[t][p] /\ tierOf'[p] = t
    BY <1>2, <1>4, <1>6, <1>7, Zenon DEF TypeInv
  <1>9. index[k] = [pack |-> p, at |-> n] /\ index[k] # NoLoc
    <2>1. [pack |-> p, at |-> n] \in [pack : Ids, at : Nat \ {0}]
      BY Zenon
    <2> QED
      BY <1>3, <1>4, <2>1, Sentinels, Zenon
  <1> QED
    BY <1>1, <1>3, <1>8, <1>9 DEF Value

\* A store that is closed properly answers the same after the next start, if OpenStore
\* has never skipped a pack.
THEOREM RestartIsClean == Spec => CleanRestart
  <1>1. Sound /\ [Next]_vars => [state = "loading" /\ state' = "up" /\ ~skipped =>
           \A k \in Keys : atClose[k] # 0 => Value(k)' = atClose[k]]_vars
    BY OnlyOpened, AllFound, Zenon DEF Sound
  <1> QED
    BY <1>1, StoreIsSound, PTL DEF Spec, CleanRestart

----------------------------------------------------------------------------
(* The store implements LossyMap *)

\* What a reader of the store gets.
Answers == [k \in Keys |-> IF Loaded THEN Value(k) ELSE 0]

ValuesWritten ==
  \A k \in Keys : Value(k) \in 0..Len(log) /\ (Value(k) # 0 => log[Value(k)] = k)

\* A value was written under its key.
LEMMA ValueWritten ==
  StoreInv => ValuesWritten
  <1> SUFFICES ASSUME StoreInv, NEW k \in Keys
               PROVE  Value(k) \in 0..Len(log) /\ (Value(k) # 0 => log[Value(k)] = k)
    BY Zenon DEF ValuesWritten
  <1>1. TypeInv /\ IndexPoints /\ DiskInv
    BY Zenon DEF StoreInv
  <1>2. Len(log) \in Nat
    BY <1>1 DEF TypeInv
  <1>3. CASE index[k] = NoLoc
    BY <1>2, <1>3 DEF Value
  <1>4. CASE index[k] # NoLoc
    <2>1. PICK p \in Ids, n \in Nat \ {0} : index[k].pack = p /\ index[k].at = n
      BY <1>1, <1>4, IndexRecord, Zenon
    <2>2. tierOf[p] \in Tiers /\ HasRec(tierOf[p], p, n) /\ file[tierOf[p]][p][n].key = k
      BY <1>1, <1>4, <2>1, IndexRecord, Zenon
    <2>3. /\ file[tierOf[p]][p][n].ver \in 1..Len(log)
          /\ log[file[tierOf[p]][p][n].ver] = k
      BY <1>1, <2>1, <2>2, Zenon DEF DiskInv, RecordsWritten
    <2>4. Value(k) = file[tierOf[p]][p][n].ver
      BY <1>4, <2>1, Zenon DEF Value
    <2> QED
      BY <1>2, <2>3, <2>4
  <1> QED
    BY <1>3, <1>4, Zenon

\* A record that keeps its place, or moves with its pack, is still what Get answers.
LEMMA SameValue ==
  ASSUME StoreInv, NEW k \in Keys, index'[k] = index[k],
         \A id \in Ids, i \in Nat : tierOf[id] # 0 /\ HasRec(tierOf[id], id, i) =>
           file'[tierOf'[id]][id][i] = file[tierOf[id]][id][i]
  PROVE  Value(k)' = Value(k)
  <1>1. TypeInv /\ IndexPoints
    BY Zenon DEF StoreInv
  <1>2. CASE index[k] = NoLoc
    BY <1>2, Zenon DEF Value
  <1>3. CASE index[k] # NoLoc
    <2>1. PICK p \in Ids, n \in Nat \ {0} : index[k].pack = p /\ index[k].at = n
      BY <1>1, <1>3, IndexRecord, Zenon
    <2>2. tierOf[p] # 0 /\ HasRec(tierOf[p], p, n)
      BY <1>1, <1>3, <2>1, IndexRecord, Zenon DEF IndexPoints
    <2>3. file'[tierOf'[p]][p][n] = file[tierOf[p]][p][n]
      BY <2>1, <2>2, Zenon
    <2> QED
      BY <1>3, <2>1, <2>3, Zenon DEF Value
  <1> QED
    BY <1>2, <1>3, Zenon

\* The last step of OpenStore: the index has values of the log.
LEMMA StartStep ==
  ASSUME StoreInv', Opened, state' = "up"
  PROVE  M!Start
  <1>1. ~Loaded /\ Loaded' /\ log' = log
    BY Zenon DEF Opened, Loaded
  <1>2. \A k \in Keys : Value(k)' \in 0..Len(log') /\ (Value(k)' # 0 => log'[Value(k)'] = k)
    <2>1. ValuesWritten'
      BY ValueWritten, PTL
    <2> QED
      BY <2>1, Zenon DEF ValuesWritten
  <1> QED
    BY <1>1, <1>2 DEF M!Start, M!Written

\* The record r of key k goes into pack a, which has the records old.
PutInto(k, r, a, old) ==
  /\ file' = [file EXCEPT ![1][a] = Append(old, r)]
  /\ tierOf' = [tierOf EXCEPT ![a] = 1]
  /\ index' = [index EXCEPT ![k] = [pack |-> a, at |-> Len(file'[1][a])]]
  /\ \/ a = active /\ old = file[1][active]
     \/ tierOf[a] = 0 /\ old = <<>>
  /\ live' = MovedLive(a, {k})

\* A Put writes its record into the active pack or into a new one.
LEMMA PutWrites ==
  ASSUME StoreInv, NEW k \in Keys, Put(k), NEW r, r = [key |-> k, ver |-> Len(log) + 1]
  PROVE  \E a \in Ids, old \in PackFiles : PutInto(k, r, a, old)
  <1>1. Loaded
    BY Zenon DEF Put, Loaded
  <1>2. /\ TypeInv /\ Placed /\ 1 \in Tiers /\ active \in Ids
        /\ file[1][active] \in PackFiles /\ IdsBelow(active)
    BY <1>1, ActiveAlone, Zenon
  <1>3. CASE Full(k)
    <2>1. PICK b \in Ids : b = active + 1
      <3>1. active + 1 \in Ids
        BY <1>2, <1>3, PackStoreAssumption DEF Put, AppendRecord, NextFree, Ids
      <3> QED
        BY <3>1, Zenon
    <2>2. tierOf[b] = 0
      <3> SUFFICES ASSUME tierOf[b] # 0 PROVE FALSE
        BY Zenon
      <3>1. Exists(tierOf[b], b) /\ tierOf[b] \in Tiers
        BY <1>2, PackStoreAssumption DEF Placed, TypeInv, Tiers
      <3>2. b <= active
        BY <3>1, <1>2, Zenon DEF IdsBelow
      <3> QED
        BY <2>1, <3>2, <1>2 DEF Ids
    <2>3. /\ file' = [file EXCEPT ![1][b] = Append(<<>>, r)]
          /\ tierOf' = [tierOf EXCEPT ![b] = 1]
          /\ index' = [index EXCEPT ![k] = [pack |-> b, at |-> Len(file'[1][b])]]
          /\ live' = MovedLive(b, {k})
      BY <1>3, <2>1, Zenon DEF Put, AppendRecord, NewIndex
    <2>4. <<>> \in PackFiles
      BY DEF PackFiles
    <2> QED
      BY <2>2, <2>3, <2>4, Zenon DEF PutInto
  <1>4. CASE ~Full(k)
    <2>1. /\ file' = [file EXCEPT ![1][active] = Append(@, r)]
          /\ tierOf' = [tierOf EXCEPT ![active] = 1]
          /\ index' = [index EXCEPT ![k] = [pack |-> active, at |-> Len(file'[1][active])]]
          /\ live' = MovedLive(active, {k})
      BY <1>4, Zenon DEF Put, AppendRecord, NewIndex
    <2>2. file' = [file EXCEPT ![1][active] = Append(file[1][active], r)]
      BY <2>1, <1>2, Zenon DEF TypeInv
    <2> QED
      BY <2>1, <2>2, <1>2, Zenon DEF PutInto
  <1> QED
    BY <1>3, <1>4, Zenon

\* A Put that succeeds.
LEMMA WriteStep ==
  ASSUME StoreInv, NEW k \in Keys, Put(k)
  PROVE  M!Write(k)
  <1>1. Loaded /\ Loaded' /\ log' = Append(log, k)
    BY Zenon DEF Put, AppendRecord, Loaded
  <1>2. /\ TypeInv /\ Placed /\ 1 \in Tiers /\ active \in Ids /\ tierOf[active] = 1
        /\ Exists(1, active) /\ file[1][active] \in PackFiles /\ IdsBelow(active)
    BY <1>1, ActiveAlone, Zenon
  <1>3. Len(log) \in Nat
    BY <1>2 DEF TypeInv
  <1>4. PICK r \in Records : r = [key |-> k, ver |-> Len(log) + 1]
    <2>1. [key |-> k, ver |-> Len(log) + 1] \in Records
      BY <1>3 DEF Records
    <2> QED
      BY <2>1, Zenon
  <1>5. PICK a \in Ids, old \in PackFiles : PutInto(k, r, a, old)
    BY <1>4, PutWrites, Zenon
  <1>6. PICK f : f = Append(old, r)
    BY Zenon
  <1>7. /\ f \in PackFiles /\ Len(f) \in Nat \ {0} /\ f[Len(f)] = r
        /\ \A i \in 1..Len(old) : f[i] = old[i]
    BY <1>6 DEF PackFiles
  <1>8. /\ file'[1][a] = f
        /\ \A u \in Tiers, j \in Ids : u # 1 \/ j # a => file'[u][j] = file[u][j]
    BY <1>2, <1>5, <1>6, <1>7, Stored DEF TypeInv, PutInto
  <1>9. tierOf'[a] = 1 /\ \A j \in Ids : j # a => tierOf'[j] = tierOf[j]
    BY <1>2, <1>5, Zenon DEF TypeInv, PutInto
  <1>10. /\ index'[k] = [pack |-> a, at |-> Len(f)]
         /\ \A x \in Keys : x # k => index'[x] = index[x]
    BY <1>2, <1>5, <1>8, Zenon DEF TypeInv, PutInto
  <1>11. Value(k)' = Len(log) + 1
    <2>1. index'[k] # NoLoc
      <3>1. index'[k] \in [pack : Ids, at : Nat \ {0}]
        BY <1>7, <1>10
      <3> QED
        BY <3>1, Sentinels, Zenon
    <2>2. file'[tierOf'[a]][a][Len(f)].ver = Len(log) + 1
      BY <1>4, <1>7, <1>8, <1>9
    <2> QED
      BY <1>10, <2>1, <2>2 DEF Value
  <1>12. \A x \in Keys : x # k => Value(x)' = Value(x)
    <2>1. \A id \in Ids, i \in Nat : tierOf[id] # 0 /\ HasRec(tierOf[id], id, i) =>
            file'[tierOf'[id]][id][i] = file[tierOf[id]][id][i]
      <3> SUFFICES ASSUME NEW id \in Ids, NEW i \in Nat, tierOf[id] # 0,
                          HasRec(tierOf[id], id, i)
                   PROVE  file'[tierOf'[id]][id][i] = file[tierOf[id]][id][i]
        BY Zenon
      <3>1. CASE id = a
        BY <3>1, <1>2, <1>5, <1>7, <1>8, <1>9 DEF HasRec, PutInto
      <3>2. CASE id # a
        <4>1. tierOf[id] \in Tiers
          BY <1>2, PackStoreAssumption DEF TypeInv, Tiers
        <4> QED
          BY <3>2, <4>1, <1>8, <1>9, Zenon
      <3> QED
        BY <3>1, <3>2, Zenon
    <2> QED
      BY <1>10, <2>1, SameValue, Zenon
  <1>13. Answers' = [Answers EXCEPT ![k] = Len(log) + 1]
    BY <1>1, <1>11, <1>12, Zenon DEF Answers
  <1> QED
    BY <1>1, <1>13, Zenon DEF M!Write, Answers

\* A pack of the last tier is deleted.
LEMMA ForgetStep ==
  ASSUME StoreInv, Evict
  PROVE  M!Forget
  <1>1. /\ dpc = "evict" /\ UNCHANGED <<state, log>>
        /\ index' = [k \in Keys |->
                       IF index[k] # NoLoc /\ index[k].pack = vic THEN NoLoc ELSE index[k]]
        /\ file' = [file EXCEPT ![NTiers][vic] = NoFile]
        /\ tierOf' = [tierOf EXCEPT ![vic] = 0]
    BY Zenon DEF Evict, quietVars
  <1>2. Loaded /\ Loaded'
    BY <1>1, Zenon DEF StoreInv, Loaded
  <1>3. TypeInv /\ IndexPoints
    BY Zenon DEF StoreInv
  <1> DEFINE gone == {k \in Keys : index[k] # NoLoc /\ index[k].pack = vic}
  <1>4. \A k \in gone : Value(k)' = 0
    BY <1>1, Zenon DEF Value
  <1>5. ASSUME NEW k \in Keys, k \notin gone PROVE Value(k)' = Value(k)
    <2>1. index'[k] = index[k]
      BY <1>1, <1>5, Zenon
    <2>2. CASE index[k] = NoLoc
      BY <2>1, <2>2, Zenon DEF Value
    <2>3. CASE index[k] # NoLoc
      <3>1. PICK p \in Ids : index[k].pack = p /\ p # vic /\ tierOf[p] \in Tiers
        BY <1>3, <1>5, <2>3, IndexRecord, Zenon
      <3>2. tierOf'[p] = tierOf[p] /\ file'[tierOf[p]][p] = file[tierOf[p]][p]
        BY <3>1, <1>1, <1>3, Zenon DEF TypeInv
      <3> QED
        BY <2>1, <2>3, <3>1, <3>2, Zenon DEF Value
    <2> QED
      BY <2>2, <2>3, Zenon
  <1>6. Answers' = [k \in Keys |-> IF k \in gone THEN 0 ELSE Answers[k]]
    BY <1>2, <1>4, <1>5, Zenon DEF Answers
  <1>7. gone \in SUBSET Keys
    BY Zenon
  <1> HIDE DEF gone
  <1> QED
    BY <1>1, <1>2, <1>6, <1>7, Zenon DEF M!Forget, Answers

\* The process ends.
LEMMA StopStep ==
  ASSUME Loaded, state' = "down", log' = log
  PROVE  M!Stop
  <1>1. ~Loaded'
    BY Zenon DEF Loaded
  <1> QED
    BY <1>1 DEF M!Stop, M!Nothing

\* Nobody is served before or after the step.
LEMMA IdleStep ==
  ASSUME ~Loaded, ~Loaded', log' = log
  PROVE  UNCHANGED <<log, Answers, Loaded>>
  <1>1. Answers' = Answers
    BY Zenon DEF Answers
  <1>2. Loaded' = Loaded
    BY DEF Loaded
  <1> QED
    BY <1>1, <1>2, Zenon

\* The store serves and its values stay.
LEMMA SteadyStep ==
  ASSUME StoreInv, Loaded, Loaded', log' = log, index' = index,
         \A id \in Ids, i \in Nat : tierOf[id] # 0 /\ HasRec(tierOf[id], id, i) =>
           file'[tierOf'[id]][id][i] = file[tierOf[id]][id][i]
  PROVE  UNCHANGED <<log, Answers, Loaded>>
  <1>1. \A k \in Keys : Value(k)' = Value(k)
    BY SameValue, Zenon
  <1> QED
    BY <1>1, Zenon DEF Answers

\* The demoter copies a pack: those that are served stay.
LEMMA CopyKeeps ==
  ASSUME StoreInv, CopyPack
  PROVE  /\ Loaded /\ Loaded'
         /\ \A id \in Ids : tierOf[id] # 0 => file'[tierOf[id]][id] = file[tierOf[id]][id]
  <1>1. /\ dpc = "pack" /\ state' = state
        /\ file' = [file EXCEPT ![tierOf[vic] + 1][vic] =
                      IF @ = NoFile THEN file[tierOf[vic]][vic] ELSE @]
    BY Zenon DEF CopyPack, quietVars
  <1>2. Loaded /\ Loaded'
    BY <1>1, Zenon DEF StoreInv, Loaded
  <1>3. TypeInv /\ vic \in Ids /\ tierOf[vic] \in 1..NTiers - 1
    BY <1>1, <1>2, Zenon DEF StoreInv, ServeInv, VictimInv
  <1>4. ASSUME NEW id \in Ids, tierOf[id] # 0
        PROVE  file'[tierOf[id]][id] = file[tierOf[id]][id]
    <2>1. tierOf[id] \in Tiers /\ (id = vic => tierOf[id] # tierOf[vic] + 1)
      BY <1>3, <1>4, PackStoreAssumption DEF TypeInv, Tiers
    <2> QED
      BY <2>1, <1>1, <1>3, Zenon DEF TypeInv
  <1> QED
    BY <1>2, <1>4, Zenon

\* The moved pack has the records of the old one.
LEMMA SwitchKeeps ==
  ASSUME StoreInv, Switch
  PROVE  /\ Loaded /\ Loaded'
         /\ \E t \in Tiers, u \in Tiers :
              /\ t = tierOf[vic] /\ u = t + 1 /\ t # u
              /\ vic \in Ids /\ tierOf' = [tierOf EXCEPT ![vic] = u]
         /\ \A id \in Ids : id # vic => tierOf'[id] = tierOf[id]
         /\ \A id \in Ids : tierOf[id] # 0 => file'[tierOf'[id]][id] = file[tierOf[id]][id]
  <1>1. /\ dpc = "switch" /\ state' = state
        /\ tierOf' = [tierOf EXCEPT ![vic] = tierOf[vic] + 1]
        /\ file' = [file EXCEPT ![tierOf[vic]][vic] = NoFile]
    BY Zenon DEF Switch, quietVars
  <1>2. Loaded /\ Loaded'
    BY <1>1, Zenon DEF StoreInv, Loaded
  <1>3. PICK t \in Tiers, u \in Tiers : t = tierOf[vic] /\ u = t + 1 /\ t # u
    <2>1. tierOf[vic] \in 1..NTiers - 1
      BY <1>1, <1>2, Zenon DEF StoreInv, ServeInv, VictimInv
    <2>2. tierOf[vic] \in Tiers /\ tierOf[vic] + 1 \in Tiers /\ tierOf[vic] # tierOf[vic] + 1
      BY <2>1, PackStoreAssumption DEF Tiers
    <2> QED
      BY <2>2, Zenon
  <1>4. TypeInv /\ vic \in Ids /\ Exists(u, vic)
    BY <1>1, <1>2, <1>3, Zenon DEF StoreInv, ServeInv, VictimInv
  <1>5. file[u][vic] = file[t][vic]
    BY <1>2, <1>3, <1>4, Zenon DEF StoreInv, ServeInv, OnePlace
  <1>6. tierOf' = [tierOf EXCEPT ![vic] = u] /\ \A id \in Ids : id # vic => tierOf'[id] = tierOf[id]
    BY <1>1, <1>3, <1>4, Zenon DEF TypeInv
  <1>7. ASSUME NEW id \in Ids, tierOf[id] # 0
        PROVE  file'[tierOf'[id]][id] = file[tierOf[id]][id]
    <2>1. CASE id = vic
      <3>1. tierOf'[id] = u
        BY <2>1, <1>4, <1>6, Zenon DEF TypeInv
      <3>2. file'[u][vic] = file[u][vic]
        BY <1>1, <1>3, <1>4, Zenon DEF TypeInv
      <3> QED
        BY <2>1, <3>1, <3>2, <1>3, <1>5, Zenon
    <2>2. CASE id # vic
      <3>1. tierOf[id] \in Tiers /\ tierOf'[id] = tierOf[id]
        BY <2>2, <1>4, <1>6, <1>7, PackStoreAssumption DEF TypeInv, Tiers
      <3> QED
        BY <2>2, <3>1, <1>1, <1>4, Zenon DEF TypeInv
    <2> QED
      BY <2>1, <2>2, Zenon
  <1> QED
    BY <1>2, <1>3, <1>4, <1>6, <1>7, Zenon

\* The demoter moves a pack: readers do not see it.
LEMMA MoveStep ==
  ASSUME StoreInv, CopyPack \/ Switch
  PROVE  UNCHANGED <<log, Answers, Loaded>>
  <1>1. CASE CopyPack
    BY <1>1, CopyKeeps, SteadyStep, Zenon DEF CopyPack, memVars, quietVars
  <1>2. CASE Switch
    BY <1>2, SwitchKeeps, SteadyStep, Zenon DEF Switch, quietVars
  <1> QED
    BY <1>1, <1>2, Zenon

\* A Put that fails.
LEMMA FailedStep ==
  ASSUME StoreInv, NEW k \in Keys, RotateFails(k) \/ WriteFails(k)
  PROVE  UNCHANGED <<log, Answers, Loaded>>
  <1>1. Loaded /\ Loaded' /\ UNCHANGED <<index, log>>
    BY Zenon DEF RotateFails, WriteFails, Loaded, memVars
  <1>2. /\ TypeInv /\ Placed /\ 1 \in Tiers /\ active \in Ids /\ IdsBelow(active)
    BY <1>1, ActiveAlone, Zenon
  <1>3. CASE RotateFails(k)
    BY <1>1, <1>3, SteadyStep, Zenon DEF RotateFails, memVars
  <1>4. CASE WriteFails(k)
    <2>1. /\ file' = [file EXCEPT ![1][active + 1] = <<>>]
          /\ tierOf' = [tierOf EXCEPT ![active + 1] = 1]
      BY <1>4, Zenon DEF WriteFails
    <2>2. ASSUME NEW id \in Ids, tierOf[id] # 0
          PROVE  file'[tierOf'[id]][id] = file[tierOf[id]][id]
      <3>1. Exists(tierOf[id], id) /\ tierOf[id] \in Tiers
        BY <1>2, <2>2, PackStoreAssumption DEF Placed, TypeInv, Tiers
      <3>2. id <= active
        BY <3>1, <1>2, Zenon DEF IdsBelow
      <3>3. id # active + 1
        BY <3>2, <1>2 DEF Ids
      <3> QED
        BY <2>1, <3>1, <3>3, <1>2, Zenon DEF TypeInv
    <2> QED
      BY <1>1, <2>2, SteadyStep, Zenon
  <1> QED
    BY <1>3, <1>4, Zenon

\* The steps that change neither files nor index.
LEMMA QuietStep ==
  ASSUME StoreInv, UNCHANGED <<file, index, tierOf, log>>, Loaded' <=> Loaded
  PROVE  UNCHANGED <<log, Answers, Loaded>>
  <1>1. \A k \in Keys : Value(k)' = Value(k)
    BY SameValue, Zenon
  <1>2. Loaded' = Loaded
    BY DEF Loaded
  <1> QED
    BY <1>1, <1>2, Zenon DEF Answers

MapStep == M!Start \/ M!Stop \/ M!Forget \/ \E k \in Keys : M!Write(k)

\* Every step of the store is one of LossyMap, or none.
LEMMA StepSimulation ==
  ASSUME ~skipped', StoreInv, StoreInv', [Next]_vars
  PROVE  MapStep \/ UNCHANGED <<log, Answers, Loaded>>
  <1>1. CASE Open \/ Load \/ OpenFails \/ Refused
    <2>1. ~Loaded /\ ~Loaded' /\ log' = log
      <3>1. CASE Load
        BY <3>1, LoadingNext, SkipStays, Zenon DEF Load, RemoveDup, LoadHinted, LoadScanned, Loaded
      <3>2. CASE Open \/ OpenFails \/ Refused
        BY <3>2, Zenon DEF Open, OpenFails, Refused, Loaded
      <3> QED
        BY <1>1, <3>1, <3>2, Zenon
    <2> QED
      BY <2>1, IdleStep, Zenon
  <1>2. CASE Opened
    <2>1. CASE state' = "up"
      BY <1>2, <2>1, StartStep, Zenon DEF MapStep
    <2>2. CASE state' # "up"
      <3>1. ~Loaded /\ ~Loaded' /\ log' = log
        BY <1>2, <2>2, Zenon DEF Opened, Loaded
      <3> QED
        BY <3>1, IdleStep, Zenon
    <2> QED
      BY <2>1, <2>2, Zenon
  <1>3. ASSUME NEW k \in Keys, Write(k)
        PROVE  MapStep \/ UNCHANGED <<log, Answers, Loaded>>
    BY <1>3, WriteStep, FailedStep, Zenon DEF Write, MapStep
  <1>4. CASE Evict
    BY <1>4, ForgetStep, Zenon DEF MapStep
  <1>5. CASE CopyPack \/ Switch
    BY <1>5, MoveStep, Zenon
  <1>6. CASE AwaitKick \/ Receive \/ Pick \/ CopyHint \/ Unlink \/ MoveFails
    <2>1. UNCHANGED <<file, index, tierOf, log, state>>
      BY <1>6, Zenon DEF AwaitKick, Receive, Pick, CopyHint, Unlink, MoveFails, diskVars, memVars, quietVars
    <2> QED
      BY <2>1, QuietStep, Zenon DEF Loaded
  <1>7. CASE SetClosed \/ CloseChannel
    <2>1. UNCHANGED <<file, index, tierOf, log>> /\ (Loaded' <=> Loaded)
      BY <1>7, Zenon DEF SetClosed, CloseChannel, diskVars, memVars, Loaded
    <2> QED
      BY <2>1, QuietStep, Zenon
  <1>8. CASE Closed \/ Crash \/ PowerLoss
    <2>1. state' = "down" /\ log' = log
      BY <1>8, Zenon DEF Closed, Crash, PowerLoss, Crashed
    <2>2. CASE Loaded
      BY <2>1, <2>2, StopStep, Zenon DEF MapStep
    <2>3. CASE ~Loaded
      BY <2>1, <2>3, IdleStep, Zenon DEF Loaded
    <2> QED
      BY <2>2, <2>3, Zenon
  <1>9. CASE UNCHANGED vars
    <2>1. UNCHANGED <<file, index, tierOf, log>> /\ (Loaded' <=> Loaded)
      BY <1>9, Zenon DEF vars, Loaded
    <2> QED
      BY <2>1, QuietStep, Zenon
  <1> QED
    BY <1>1, <1>2, <1>3, <1>4, <1>5, <1>6, <1>7, <1>8, <1>9, Zenon DEF Next, Demote

\* Until OpenStore skips a pack, the store is a map that may forget but never goes back
\* while it serves.
THEOREM StoreIsLossyMap == Spec => ImplementsLossyMap
  <1>1. Init => M!Init
    BY DEF Init, M!Init, M!Nothing, Loaded
  <1>2. Sound /\ Sound' /\ [Next]_vars => M!Next \/ UNCHANGED <<log, Answers, Loaded, ~skipped>>
    <2> SUFFICES ASSUME Sound, Sound', [Next]_vars, ~skipped'
                 PROVE  M!Next \/ UNCHANGED <<log, Answers, Loaded, ~skipped>>
      BY Zenon DEF M!Next, M!Damage
    <2>1. skipped' = skipped
      BY SkipStays, Zenon
    <2>2. (~skipped)' = ~skipped
      BY <2>1
    <2>3. MapStep \/ UNCHANGED <<log, Answers, Loaded>>
      BY <2>1, StepSimulation, Zenon DEF Sound
    <2> QED
      BY <2>2, <2>3, Zenon DEF MapStep, M!Next
  <1> QED
    BY <1>1, <1>2, StoreIsSound, PTL DEF Spec, ImplementsLossyMap, M!Spec, Answers

----------------------------------------------------------------------------
(* The counters *)

\* What Accounted says of a tier, and the counters are numbers.
TierBytes(t) ==
  LET here == {id \in Ids : tierOf[id] = t}
  IN  SumOver(here, [id \in here |-> Size(id)])

LiveCounted == \A id \in Ids : live[id] = KeyBytes(KeysIn(id))

TotalCounted == \A t \in Tiers : total[t] = TierBytes(t)

CountInv ==
  live \in [Ids -> Int] /\ total \in [Tiers -> Int] /\ LiveCounted /\ TotalCounted

\* The size of a pack file is a number.
LEMMA BytesType ==
  ASSUME NEW recs \in PackFiles
  PROVE  Bytes(recs) \in Nat
  <1>1. DOMAIN recs = 1..Len(recs) /\ Len(recs) \in Nat
    BY DEF PackFiles
  <1>2. IsFiniteSet(DOMAIN recs)
    BY <1>1, FS_Interval
  <1>3. \A i \in DOMAIN recs : RecSize(recs[i]) \in Nat
    BY <1>1, PackStoreAssumption DEF PackFiles, RecSize, Records
  <1> QED
    BY <1>2, <1>3, SumType, Zenon DEF Bytes

\* The first pack file is empty.
LEMMA BytesEmpty ==
  Bytes(<<>>) = 0
  <1>1. DOMAIN <<>> = {}
    OBVIOUS
  <1> QED
    BY <1>1, SumEmpty, Zenon DEF Bytes

\* A Put adds the bytes of its record.
LEMMA BytesAppend ==
  ASSUME NEW recs \in PackFiles, NEW k \in Keys, NEW v \in Nat, NEW f,
         f = Append(recs, [key |-> k, ver |-> v])
  PROVE  Bytes(f) = Bytes(recs) + SizeOf[k]
  <1> DEFINE r == [key |-> k, ver |-> v]
             n == Len(recs)
             g == [i \in DOMAIN f |-> RecSize(f[i])]
             h == [i \in DOMAIN recs |-> RecSize(recs[i])]
  <1>1. DOMAIN recs = 1..n /\ n \in Nat
    BY DEF PackFiles
  <1>2. f \in PackFiles /\ DOMAIN f = 1..n + 1 /\ f[n + 1] = r /\ \A i \in 1..n : f[i] = recs[i]
    BY PackStoreAssumption DEF PackFiles, Records
  <1>3. r # Torn /\ r.key = k
    BY PackStoreAssumption DEF Records
  <1>4. g[n + 1] = SizeOf[k] /\ \A i \in 1..n : g[i] = h[i]
    BY <1>1, <1>2, <1>3 DEF RecSize
  <1>5. \A i \in (1..n) \cup {n + 1} : g[i] \in Nat
    BY <1>1, <1>2, PackStoreAssumption DEF PackFiles, RecSize, Records
  <1>6. IsFiniteSet(1..n) /\ n + 1 \notin 1..n /\ DOMAIN f = (1..n) \cup {n + 1}
    <2>1. IsFiniteSet(1..n)
      BY <1>1, FS_Interval
    <2>2. n + 1 \notin 1..n /\ 1..n + 1 = (1..n) \cup {n + 1}
      BY <1>1
    <2> QED
      BY <2>1, <2>2, <1>2, Zenon
  <1> HIDE DEF g, h, n
  <1>7. SumOver((1..n) \cup {n + 1}, g) = SumOver(1..n, g) + g[n + 1]
    BY <1>5, <1>6, SumAdd, Zenon
  <1>8. SumOver(1..n, g) = SumOver(1..n, h)
    BY <1>4, SumSame, Zenon
  <1>9. Bytes(f) = SumOver((1..n) \cup {n + 1}, g)
    BY <1>6, Zenon DEF Bytes, g
  <1>10. Bytes(recs) = SumOver(1..n, h)
    BY <1>1, Zenon DEF Bytes, h
  <1> QED
    BY <1>4, <1>7, <1>8, <1>9, <1>10, Zenon

\* The bytes of a set of keys.
LEMMA KeyBytesType ==
  ASSUME NEW K \in SUBSET Keys
  PROVE  IsFiniteSet(K) /\ KeyBytes(K) \in Nat
  <1>1. IsFiniteSet(K)
    BY PackStoreAssumption, FS_Subset, Zenon
  <1>2. \A k \in K : SizeOf[k] \in Nat
    BY PackStoreAssumption, Zenon
  <1> QED
    BY <1>1, <1>2, SumType, Zenon DEF KeyBytes

\* The bytes of two disjoint sets of keys add up.
LEMMA KeyBytesUnion ==
  ASSUME NEW K \in SUBSET Keys, NEW L \in SUBSET Keys, K \cap L = {}
  PROVE  KeyBytes(K \cup L) = KeyBytes(K) + KeyBytes(L)
  <1>1. IsFiniteSet(K) /\ IsFiniteSet(L)
    BY KeyBytesType, Zenon
  <1>2. \A k \in K \cup L : SizeOf[k] \in Nat
    BY PackStoreAssumption, Zenon
  <1> QED
    BY <1>1, <1>2, SumUnion DEF KeyBytes

\* No key, no bytes.
LEMMA KeyBytesEmpty ==
  KeyBytes({}) = 0
  BY SumEmpty, Zenon DEF KeyBytes

\* Keys whose values move to pack id are counted there and no longer where they were.
LEMMA LiveMoved ==
  ASSUME LiveCounted, NEW id \in Ids, NEW K \in SUBSET Keys, live' = MovedLive(id, K),
         \A k \in K : index'[k] # NoLoc /\ index'[k].pack = id,
         \A k \in Keys \ K : index'[k] = index[k]
  PROVE  live' \in [Ids -> Int] /\ LiveCounted'
  <1>1. ASSUME NEW p \in Ids
        PROVE  live'[p] = KeyBytes(KeysIn(p)') /\ live'[p] \in Int
    <2>1. PICK old \in SUBSET Keys : old = KeysIn(p)
      BY Zenon DEF KeysIn
    <2>2. PICK new \in SUBSET Keys : new = KeysIn(p)'
      BY Zenon DEF KeysIn
    <2>3. KeyBytes(old) = KeyBytes(old \ K) + KeyBytes(K \cap old)
      <3>1. old = (old \ K) \cup (K \cap old) /\ (old \ K) \cap (K \cap old) = {}
        BY Zenon
      <3> QED
        BY <3>1, KeyBytesUnion, Zenon
    <2>4. /\ KeyBytes(old \ K) \in Nat /\ KeyBytes(K \cap old) \in Nat /\ KeyBytes(K) \in Nat
          /\ KeyBytes(old) \in Nat /\ KeyBytes(new) \in Nat
      BY KeyBytesType, Zenon
    <2>5. live[p] = KeyBytes(old)
      BY <2>1, Zenon DEF LiveCounted
    <2>6. live'[p] = (IF p = id THEN live[p] + KeyBytes(K) ELSE live[p]) - KeyBytes(K \cap old)
      BY <2>1, Zenon DEF MovedLive
    <2>7. CASE p = id
      <3>1. new = (old \ K) \cup K /\ (old \ K) \cap K = {}
        BY <2>1, <2>2, <2>7, Zenon DEF KeysIn
      <3>2. KeyBytes(new) = KeyBytes(old \ K) + KeyBytes(K)
        BY <3>1, KeyBytesUnion, Zenon
      <3> QED
        BY <2>2, <2>3, <2>4, <2>5, <2>6, <2>7, <3>2
    <2>8. CASE p # id
      <3>1. new = old \ K
        BY <2>1, <2>2, <2>8, Zenon DEF KeysIn
      <3> QED
        BY <2>2, <2>3, <2>4, <2>5, <2>6, <2>8, <3>1
    <2> QED
      BY <2>7, <2>8, Zenon
  <1>2. live' \in [Ids -> Int]
    BY <1>1, Zenon DEF MovedLive
  <1> QED
    BY <1>1, <1>2, Zenon DEF LiveCounted, KeyBytes

\* The packs of a tier without pack x, and x if it is one of them.
LEMMA SplitSum ==
  ASSUME NEW S \in SUBSET Ids, NEW x, NEW f, \A id \in S : f[id] \in Nat
  PROVE  /\ SumOver(S \ {x}, f) \in Nat
         /\ x \in S => SumOver(S, f) = SumOver(S \ {x}, f) + f[x]
         /\ x \notin S => SumOver(S, f) = SumOver(S \ {x}, f)
  <1>1. IsFiniteSet(S) /\ IsFiniteSet(S \ {x})
    <2>1. IsFiniteSet(Ids)
      BY PackStoreAssumption, FS_Interval DEF Ids
    <2> QED
      BY <2>1, FS_Subset, Zenon
  <1>2. SumOver(S \ {x}, f) \in Nat
    BY <1>1, SumType, Zenon
  <1>3. x \in S => SumOver(S, f) = SumOver(S \ {x}, f) + f[x]
    BY <1>1, SumRemove, Zenon
  <1>4. x \notin S => S \ {x} = S
    BY Zenon
  <1> QED
    BY <1>2, <1>3, <1>4, Zenon

\* The size of a pack in Store.packs is a number.
LEMMA SizeType ==
  ASSUME TypeInv, Placed, NEW id \in Ids, tierOf[id] # 0
  PROVE  Size(id) \in Nat
  <1>1. tierOf[id] \in Tiers
    BY PackStoreAssumption DEF TypeInv, Tiers
  <1>2. file[tierOf[id]][id] \in PackFiles
    BY <1>1 DEF TypeInv, Placed, Exists
  <1> QED
    BY <1>2, BytesType, Zenon DEF Size

\* So it is after a step.
LEMMA SizeTypeNext ==
  ASSUME TypeInv', Placed', NEW id \in Ids, tierOf'[id] # 0
  PROVE  Size(id)' \in Nat
  <1>1. tierOf'[id] \in Tiers
    BY PackStoreAssumption DEF TypeInv, Tiers
  <1>2. file'[tierOf'[id]][id] \in PackFiles
    BY <1>1 DEF TypeInv, Placed, Exists
  <1> QED
    BY <1>2, BytesType, Zenon DEF Size

\* A step that moves, adds, removes or resizes the pack x and no other.
OnlyPack(x) ==
  \A j \in Ids : j # x => tierOf'[j] = tierOf[j] /\ (tierOf[j] # 0 => Size(j)' = Size(j))

\* It changes the bytes of a tier by those of x.
LEMMA Recount ==
  ASSUME TypeInv, Placed, TypeInv', Placed', NEW t \in Tiers, NEW x \in Ids, OnlyPack(x)
  PROVE  \E rest \in Nat :
           /\ tierOf[x] = t => TierBytes(t) = rest + Size(x) /\ Size(x) \in Nat
           /\ tierOf[x] # t => TierBytes(t) = rest
           /\ tierOf'[x] = t => TierBytes(t)' = rest + Size(x)' /\ Size(x)' \in Nat
           /\ tierOf'[x] # t => TierBytes(t)' = rest
  <1>1. t # 0
    BY DEF Tiers
  <1>2. PICK S \in SUBSET Ids : S = {id \in Ids : tierOf[id] = t}
    BY Zenon
  <1>3. PICK U \in SUBSET Ids : U = {id \in Ids : tierOf'[id] = t}
    BY Zenon
  <1>4. PICK f : f = [id \in S |-> Size(id)]
    BY Zenon
  <1>5. PICK h : h = [id \in U |-> Size(id)']
    BY Zenon
  <1>6. \A id \in S : f[id] = Size(id) /\ Size(id) \in Nat
    BY <1>1, <1>2, <1>4, SizeType, Zenon
  <1>7. \A id \in U : h[id] = Size(id)' /\ Size(id)' \in Nat
    BY <1>1, <1>3, <1>5, SizeTypeNext, Zenon
  <1>8. TierBytes(t) = SumOver(S, f) /\ TierBytes(t)' = SumOver(U, h)
    BY <1>2, <1>3, <1>4, <1>5, Zenon DEF TierBytes
  <1>9. S \ {x} = U \ {x}
    BY <1>2, <1>3, Zenon DEF OnlyPack
  <1>10. \A id \in U \ {x} : f[id] = h[id]
    BY <1>1, <1>2, <1>3, <1>6, <1>7, <1>9, Zenon DEF OnlyPack
  <1>11. SumOver(S \ {x}, f) = SumOver(U \ {x}, h)
    BY <1>9, <1>10, SumSame
  <1>12. /\ SumOver(S \ {x}, f) \in Nat
         /\ x \in S => SumOver(S, f) = SumOver(S \ {x}, f) + f[x]
         /\ x \notin S => SumOver(S, f) = SumOver(S \ {x}, f)
    <2>1. \A id \in S : f[id] \in Nat
      BY <1>6, Zenon
    <2> QED
      BY <2>1, SplitSum, Zenon
  <1>13. /\ x \in U => SumOver(U, h) = SumOver(U \ {x}, h) + h[x]
         /\ x \notin U => SumOver(U, h) = SumOver(U \ {x}, h)
    <2>1. \A id \in U : h[id] \in Nat
      BY <1>7, Zenon
    <2> QED
      BY <2>1, SplitSum, Zenon
  <1>14. (x \in S <=> tierOf[x] = t) /\ (x \in U <=> tierOf'[x] = t)
    BY <1>2, <1>3, Zenon
  <1> QED
    BY <1>6, <1>7, <1>8, <1>11, <1>12, <1>13, <1>14, Zenon

\* The counter of each tier follows the pack x.
LEMMA TotalMoved ==
  ASSUME TypeInv, Placed, TypeInv', Placed', TotalCounted, NEW x \in Ids, OnlyPack(x),
         total \in [Tiers -> Int], total' \in [Tiers -> Int],
         \A t \in Tiers :
           total'[t] = total[t] - (IF tierOf[x] = t THEN Size(x) ELSE 0)
                                + (IF tierOf'[x] = t THEN Size(x)' ELSE 0)
  PROVE  TotalCounted'
  <1> SUFFICES ASSUME NEW t \in Tiers PROVE total'[t] = TierBytes(t)'
    BY Zenon DEF TotalCounted
  <1>1. total[t] = TierBytes(t)
    BY Zenon DEF TotalCounted
  <1>2. PICK rest \in Nat :
          /\ tierOf[x] = t => TierBytes(t) = rest + Size(x) /\ Size(x) \in Nat
          /\ tierOf[x] # t => TierBytes(t) = rest
          /\ tierOf'[x] = t => TierBytes(t)' = rest + Size(x)' /\ Size(x)' \in Nat
          /\ tierOf'[x] # t => TierBytes(t)' = rest
    BY Recount, Zenon
  <1>3. PICK m \in Int : m = IF tierOf[x] = t THEN Size(x) ELSE 0
    <2>1. (IF tierOf[x] = t THEN Size(x) ELSE 0) \in Int
      BY <1>2
    <2> QED
      BY <2>1, Zenon
  <1>4. PICK n \in Int : n = IF tierOf'[x] = t THEN Size(x)' ELSE 0
    <2>1. (IF tierOf'[x] = t THEN Size(x)' ELSE 0) \in Int
      BY <1>2
    <2> QED
      BY <2>1, Zenon
  <1>5. total[t] = rest + m
    BY <1>1, <1>2, <1>3
  <1>6. TierBytes(t)' = rest + n
    BY <1>2, <1>4
  <1>7. total'[t] = total[t] - m + n
    BY <1>3, <1>4, Zenon
  <1> QED
    BY <1>5, <1>6, <1>7

\* The index stays, and so do the live bytes.
LEMMA LiveSame ==
  ASSUME CountInv, UNCHANGED <<live, index>>
  PROVE  live' \in [Ids -> Int] /\ LiveCounted'
  <1>1. \A id \in Ids : KeysIn(id)' = KeysIn(id)
    BY Zenon DEF KeysIn
  <1> QED
    BY <1>1, Zenon DEF CountInv, LiveCounted, KeyBytes

\* Nothing that is counted changes.
LEMMA CountSame ==
  ASSUME CountInv, UNCHANGED <<live, total, index, tierOf>>,
         \A id \in Ids : tierOf[id] # 0 => file'[tierOf[id]][id] = file[tierOf[id]][id]
  PROVE  CountInv'
  <1>1. LiveCounted'
    BY LiveSame, Zenon
  <1>2. ASSUME NEW t \in Tiers PROVE TierBytes(t)' = TierBytes(t)
    <2> DEFINE here == {id \in Ids : tierOf[id] = t}
    <2>1. \A id \in here : Size(id)' = Size(id)
      BY DEF Size, Bytes, Tiers
    <2>2. [id \in here |-> Size(id)'] = [id \in here |-> Size(id)]
      BY <2>1, Zenon
    <2>3. {id \in Ids : tierOf'[id] = t} = here
      BY Zenon
    <2> QED
      BY <2>2, <2>3, Zenon DEF TierBytes
  <1>3. TotalCounted'
    BY <1>2, Zenon DEF CountInv, TotalCounted
  <1> QED
    BY <1>1, <1>3, Zenon DEF CountInv

\* A process without a store counts nothing.
LEMMA CountForgotten ==
  ASSUME Forgotten
  PROVE  CountInv'
  <1>1. /\ index' = [k \in Keys |-> NoLoc] /\ tierOf' = [id \in Ids |-> 0]
        /\ live' = [id \in Ids |-> 0] /\ total' = [t \in Tiers |-> 0]
    BY Zenon DEF Forgotten
  <1>2. \A id \in Ids : KeysIn(id)' = {}
    BY <1>1, Zenon DEF KeysIn
  <1>3. LiveCounted'
    BY <1>1, <1>2, KeyBytesEmpty, Zenon DEF LiveCounted, KeyBytes
  <1>4. ASSUME NEW t \in Tiers PROVE TierBytes(t)' = 0
    <2>1. {id \in Ids : tierOf'[id] = t} = {}
      BY <1>1 DEF Tiers
    <2> QED
      BY <2>1, SumEmpty, Zenon DEF TierBytes
  <1>5. TotalCounted'
    BY <1>1, <1>4, Zenon DEF TotalCounted
  <1> QED
    BY <1>1, <1>3, <1>5 DEF CountInv

\* A pack that is evicted takes its bytes with it.
LEMMA CountEvict ==
  ASSUME StoreInv, StoreInv', CountInv, Evict
  PROVE  CountInv'
  <1>1. /\ dpc = "evict"
        /\ index' = [k \in Keys |->
                       IF index[k] # NoLoc /\ index[k].pack = vic THEN NoLoc ELSE index[k]]
        /\ total' = [total EXCEPT ![NTiers] = @ - Size(vic)]
        /\ file' = [file EXCEPT ![NTiers][vic] = NoFile]
        /\ tierOf' = [tierOf EXCEPT ![vic] = 0]
        /\ live' = [live EXCEPT ![vic] = 0]
    BY Zenon DEF Evict
  <1>2. TypeInv /\ Placed /\ TypeInv' /\ Placed' /\ vic \in Ids /\ tierOf[vic] = NTiers
    BY <1>1, Zenon DEF StoreInv, Loaded, ServeInv, VictimInv
  <1>3. NTiers \in Tiers /\ NTiers # 0
    BY PackStoreAssumption DEF Tiers
  <1>4. PICK v \in Ids : v = vic
    BY <1>2, Zenon
  <1>5. live' \in [Ids -> Int] /\ LiveCounted'
    <2>1. live' \in [Ids -> Int] /\ live'[v] = 0 /\ \A p \in Ids : p # v => live'[p] = live[p]
      BY <1>1, <1>4 DEF CountInv
    <2>2. KeysIn(v)' = {} /\ \A p \in Ids : p # v => KeysIn(p)' = KeysIn(p)
      BY <1>1, <1>4, Zenon DEF KeysIn
    <2>3. ASSUME NEW p \in Ids PROVE live'[p] = KeyBytes(KeysIn(p)')
      BY <2>1, <2>2, KeyBytesEmpty, Zenon DEF CountInv, LiveCounted
    <2> QED
      BY <2>1, <2>3, Zenon DEF LiveCounted, KeyBytes
  <1>6. tierOf[v] = NTiers /\ tierOf'[v] = 0 /\ \A j \in Ids : j # v => tierOf'[j] = tierOf[j]
    BY <1>1, <1>2, <1>4, Zenon DEF TypeInv
  <1>7. OnlyPack(v)
    <2> SUFFICES ASSUME NEW j \in Ids, j # v, tierOf[j] # 0 PROVE Size(j)' = Size(j)
      BY <1>6, Zenon DEF OnlyPack
    <2>1. tierOf[j] \in Tiers
      BY <1>2, PackStoreAssumption DEF TypeInv, Tiers
    <2>2. file'[tierOf[j]][j] = file[tierOf[j]][j]
      BY <2>1, <1>1, <1>2, <1>4, Zenon DEF TypeInv
    <2> QED
      BY <2>2, <1>6, Zenon DEF Size, Bytes
  <1>8. Size(v) \in Nat
    BY <1>2, <1>3, <1>6, SizeType, Zenon
  <1>9. /\ total' \in [Tiers -> Int] /\ total'[NTiers] = total[NTiers] - Size(v)
        /\ \A t \in Tiers : t # NTiers => total'[t] = total[t]
    BY <1>1, <1>3, <1>4, <1>8 DEF CountInv
  <1>10. \A t \in Tiers :
           total'[t] = total[t] - (IF tierOf[v] = t THEN Size(v) ELSE 0)
                                + (IF tierOf'[v] = t THEN Size(v)' ELSE 0)
    BY <1>6, <1>8, <1>9 DEF CountInv, Tiers
  <1>11. TotalCounted'
    BY <1>2, <1>7, <1>9, <1>10, TotalMoved, Zenon DEF CountInv
  <1> QED
    BY <1>5, <1>9, <1>11, Zenon DEF CountInv

\* A pack that moves takes its bytes along.
LEMMA CountSwitch ==
  ASSUME StoreInv, StoreInv', CountInv, Switch
  PROVE  CountInv'
  <1>1. /\ UNCHANGED <<live, index>>
        /\ total' = [total EXCEPT ![tierOf[vic]] = @ - Size(vic), ![tierOf[vic] + 1] = @ + Size(vic)]
    BY Zenon DEF Switch
  <1>2. PICK v \in Ids, t \in Tiers, u \in Tiers :
          v = vic /\ t = tierOf[v] /\ u = t + 1 /\ t # u /\ tierOf' = [tierOf EXCEPT ![v] = u]
    BY SwitchKeeps, Zenon
  <1>3. TypeInv /\ Placed /\ TypeInv' /\ Placed' /\ t # 0
    BY DEF StoreInv, Tiers
  <1>4. tierOf'[v] = u /\ \A j \in Ids : j # v => tierOf'[j] = tierOf[j]
    BY <1>2, <1>3, Zenon DEF TypeInv
  <1>5. \A j \in Ids : tierOf[j] # 0 => Size(j)' = Size(j)
    BY SwitchKeeps, Zenon DEF Size, Bytes
  <1>6. OnlyPack(v)
    BY <1>4, <1>5, Zenon DEF OnlyPack
  <1>7. Size(v) \in Nat /\ Size(v)' = Size(v)
    BY <1>2, <1>3, <1>5, SizeType, Zenon
  <1>8. PICK n \in Nat : n = Size(v)
    BY <1>7, Zenon
  <1>9. total' = [total EXCEPT ![t] = @ - n, ![u] = @ + n]
    BY <1>1, <1>2, <1>8, Zenon
  <1>10. /\ total' \in [Tiers -> Int] /\ total'[t] = total[t] - n /\ total'[u] = total[u] + n
         /\ \A s \in Tiers : s # t /\ s # u => total'[s] = total[s]
    BY <1>2, <1>9 DEF CountInv
  <1>11. \A s \in Tiers :
           total'[s] = total[s] - (IF tierOf[v] = s THEN Size(v) ELSE 0)
                                + (IF tierOf'[v] = s THEN Size(v)' ELSE 0)
    BY <1>2, <1>4, <1>7, <1>8, <1>10 DEF CountInv
  <1>12. TotalCounted'
    BY <1>3, <1>6, <1>10, <1>11, TotalMoved, Zenon DEF CountInv
  <1> QED
    BY <1>1, <1>10, <1>12, LiveSame, Zenon DEF CountInv

\* Pack x comes to tier t or grows there, with the records w, by n bytes.
Grows(x, t, w, n) ==
  /\ file' = [file EXCEPT ![t][x] = w]
  /\ tierOf' = [tierOf EXCEPT ![x] = t]
  /\ total' = [total EXCEPT ![t] = @ + n]
  /\ \/ tierOf[x] = 0 /\ n = Bytes(w)
     \/ tierOf[x] = t /\ Bytes(w) = Size(x) + n

\* The counter of the tier is right then.
LEMMA TotalAdded ==
  ASSUME StoreInv, StoreInv', CountInv, NEW x \in Ids, NEW t \in Tiers, NEW w \in PackFiles,
         NEW n \in Int, Grows(x, t, w, n)
  PROVE  total' \in [Tiers -> Int] /\ TotalCounted'
  <1>1. TypeInv /\ Placed /\ TypeInv' /\ Placed' /\ t # 0
    BY DEF StoreInv, Tiers
  <1>2. tierOf'[x] = t /\ \A j \in Ids : j # x => tierOf'[j] = tierOf[j]
    BY <1>1, Zenon DEF TypeInv, Grows
  <1>3. file'[t][x] = w /\ \A u \in Tiers, j \in Ids : u # t \/ j # x => file'[u][j] = file[u][j]
    BY <1>1, Stored DEF TypeInv, Grows
  <1>4. OnlyPack(x)
    <2> SUFFICES ASSUME NEW j \in Ids, j # x, tierOf[j] # 0 PROVE Size(j)' = Size(j)
      BY <1>2, Zenon DEF OnlyPack
    <2>1. tierOf[j] \in Tiers
      BY <1>1, PackStoreAssumption DEF TypeInv, Tiers
    <2>2. file'[tierOf'[j]][j] = file[tierOf[j]][j]
      BY <2>1, <1>2, <1>3
    <2> QED
      BY <2>2, Zenon DEF Size, Bytes
  <1>5. PICK m \in Nat : m = Bytes(w) /\ Size(x)' = m
    <2>1. Bytes(w) \in Nat
      BY BytesType, Zenon
    <2>2. Size(x)' = Bytes(w)
      BY <1>2, <1>3, Zenon DEF Size
    <2> QED
      BY <2>1, <2>2, Zenon
  <1>6. /\ total' \in [Tiers -> Int] /\ total'[t] = total[t] + n
        /\ \A u \in Tiers : u # t => total'[u] = total[u]
    BY DEF CountInv, Grows
  <1>7. \A u \in Tiers :
          total'[u] = total[u] - (IF tierOf[x] = u THEN Size(x) ELSE 0)
                               + (IF tierOf'[x] = u THEN Size(x)' ELSE 0)
    <2> SUFFICES ASSUME NEW u \in Tiers
                 PROVE  total'[u] = total[u] - (IF tierOf[x] = u THEN Size(x) ELSE 0)
                                             + (IF u = t THEN m ELSE 0)
      BY <1>2, <1>5, Zenon
    <2>1. total[u] \in Int /\ u # 0
      BY DEF CountInv, Tiers
    <2>2. CASE tierOf[x] = 0
      BY <2>1, <2>2, <1>1, <1>5, <1>6 DEF Grows
    <2>3. CASE tierOf[x] # 0
      <3>1. Size(x) \in Nat
        BY <2>3, <1>1, SizeType, Zenon
      <3> QED
        BY <2>1, <2>3, <3>1, <1>5, <1>6 DEF Grows
    <2> QED
      BY <2>2, <2>3, Zenon
  <1>8. TotalCounted'
    BY <1>1, <1>4, <1>6, <1>7, TotalMoved, Zenon DEF CountInv
  <1> QED
    BY <1>6, <1>8, Zenon

\* A new pack is empty.
LEMMA CountNew ==
  ASSUME StoreInv, StoreInv', CountInv, NEW a \in Ids, tierOf[a] = 0,
         file' = [file EXCEPT ![1][a] = <<>>], tierOf' = [tierOf EXCEPT ![a] = 1],
         UNCHANGED <<index, live, total>>
  PROVE  CountInv'
  <1>1. 1 \in Tiers /\ <<>> \in PackFiles
    BY PackStoreAssumption DEF Tiers, PackFiles
  <1>2. PICK t \in Tiers, w \in PackFiles, n \in Int : t = 1 /\ w = <<>> /\ n = 0
    BY <1>1
  <1>3. total' = [total EXCEPT ![t] = @ + n]
    BY <1>2 DEF CountInv
  <1>4. Grows(a, t, w, n)
    BY <1>2, <1>3, BytesEmpty, Zenon DEF Grows
  <1>5. total' \in [Tiers -> Int] /\ TotalCounted'
    BY <1>4, TotalAdded, Zenon
  <1> QED
    BY <1>5, LiveSame, Zenon DEF CountInv

\* A Put adds its record to the pack, to the tier and to what is live.
LEMMA CountPut ==
  ASSUME StoreInv, StoreInv', CountInv, NEW k \in Keys, Put(k)
  PROVE  CountInv'
  <1>1. Loaded /\ total' = [total EXCEPT ![1] = @ + SizeOf[k]]
    BY Zenon DEF Put, AppendRecord, Loaded
  <1>2. TypeInv /\ 1 \in Tiers /\ tierOf[active] = 1
    BY <1>1, ActiveAlone, Zenon
  <1>3. Len(log) + 1 \in Nat
    BY <1>2 DEF TypeInv
  <1>4. PICK v \in Nat : v = Len(log) + 1
    BY <1>3, Zenon
  <1>5. PICK r : r = [key |-> k, ver |-> v]
    BY Zenon
  <1>6. PICK a \in Ids, old \in PackFiles : PutInto(k, r, a, old)
    BY <1>4, <1>5, PutWrites, Zenon
  <1>7. PICK w \in PackFiles : w = Append(old, r)
    <2>1. r \in Records
      BY <1>5, Zenon DEF Records
    <2>2. Append(old, r) \in PackFiles
      BY <2>1 DEF PackFiles
    <2> QED
      BY <2>2, Zenon
  <1>8. PICK t \in Tiers, n \in Int : t = 1 /\ n = SizeOf[k]
    <2>1. SizeOf[k] \in Int
      BY PackStoreAssumption
    <2> QED
      BY <2>1, <1>2, Zenon
  <1>9. Bytes(w) = Bytes(old) + n
    BY <1>5, <1>7, <1>8, BytesAppend, Zenon
  <1>10. /\ file' = [file EXCEPT ![t][a] = w]
         /\ tierOf' = [tierOf EXCEPT ![a] = t]
         /\ total' = [total EXCEPT ![t] = @ + n]
    BY <1>1, <1>6, <1>7, <1>8, Zenon DEF PutInto
  <1>11. \/ tierOf[a] = 0 /\ n = Bytes(w)
         \/ tierOf[a] = t /\ Bytes(w) = Size(a) + n
    <2>1. CASE a = active /\ old = file[1][active]
      BY <2>1, <1>2, <1>8, <1>9, Zenon DEF Size
    <2>2. CASE tierOf[a] = 0 /\ old = <<>>
      BY <2>2, <1>9, BytesEmpty
    <2> QED
      BY <2>1, <2>2, <1>6, Zenon DEF PutInto
  <1>12. total' \in [Tiers -> Int] /\ TotalCounted'
    BY <1>10, <1>11, TotalAdded, Zenon DEF Grows
  <1>13. live' \in [Ids -> Int] /\ LiveCounted'
    <2>1. /\ live' = MovedLive(a, {k})
          /\ index' = [index EXCEPT ![k] = [pack |-> a, at |-> Len(w)]]
      <3>1. file'[1][a] = w
        BY <1>2, <1>8, <1>10, Zenon DEF TypeInv
      <3> QED
        BY <1>6, <3>1, Zenon DEF PutInto
    <2>2. Len(w) \in Nat \ {0}
      BY <1>7 DEF PackFiles
    <2>3. [pack |-> a, at |-> Len(w)] # NoLoc
      <3>1. [pack |-> a, at |-> Len(w)] \in [pack : Ids, at : Nat \ {0}]
        BY <2>2, Zenon
      <3> QED
        BY <3>1, Sentinels, Zenon
    <2>4. /\ index'[k] # NoLoc /\ index'[k].pack = a
          /\ \A x \in Keys \ {k} : index'[x] = index[x]
      BY <2>1, <2>3, <1>2, Zenon DEF TypeInv
    <2>5. PICK K \in SUBSET Keys : K = {k}
      BY Zenon
    <2>6. /\ LiveCounted /\ live' = MovedLive(a, K)
          /\ \A x \in K : index'[x] # NoLoc /\ index'[x].pack = a
          /\ \A x \in Keys \ K : index'[x] = index[x]
      BY <2>1, <2>4, <2>5, Zenon DEF CountInv
    <2> QED
      BY <2>6, LiveMoved, Zenon
  <1> QED
    BY <1>12, <1>13, Zenon DEF CountInv

\* A pack is loaded with the entries e and the records w.
LEMMA CountLoaded ==
  ASSUME StoreInv, StoreInv', CountInv, NEW t \in Tiers, NEW id \in Ids, tierOf[id] = 0,
         NEW e, DOMAIN e \in SUBSET Keys, \A k \in DOMAIN e : e[k] \in Nat \ {0},
         NEW w \in PackFiles,
         file' = [file EXCEPT ![t][id] = w],
         index' = AddedIndex(id, e),
         live' = MovedLive(id, Adds(id, e)),
         tierOf' = [tierOf EXCEPT ![id] = t],
         total' = [total EXCEPT ![t] = @ + Bytes(w)]
  PROVE  CountInv'
  <1>1. PICK n \in Int : n = Bytes(w)
    <2>1. Bytes(w) \in Int
      BY BytesType
    <2> QED
      BY <2>1, Zenon
  <1>2. Grows(id, t, w, n)
    BY <1>1, Zenon DEF Grows
  <1>3. total' \in [Tiers -> Int] /\ TotalCounted'
    BY <1>2, TotalAdded, Zenon
  <1>4. PICK K \in SUBSET Keys : K = Adds(id, e)
    BY Zenon DEF Adds
  <1>5. ASSUME NEW k \in K PROVE index'[k] # NoLoc /\ index'[k].pack = id
    <2>1. k \in DOMAIN e /\ k \in Keys
      BY <1>4, Zenon DEF Adds
    <2>2. index'[k] = [pack |-> id, at |-> e[k]]
      BY <1>4, <2>1, Zenon DEF AddedIndex
    <2>3. [pack |-> id, at |-> e[k]] \in [pack : Ids, at : Nat \ {0}]
      BY <2>1, Zenon
    <2> QED
      BY <2>2, <2>3, Sentinels
  <1>6. \A k \in Keys \ K : index'[k] = index[k]
    BY <1>4, Zenon DEF AddedIndex
  <1>7. live' \in [Ids -> Int] /\ LiveCounted'
    <2>1. live' = MovedLive(id, K) /\ LiveCounted
      BY <1>4, Zenon DEF CountInv
    <2> QED
      BY <2>1, <1>5, <1>6, LiveMoved, Zenon
  <1> QED
    BY <1>3, <1>7, Zenon DEF CountInv

\* OpenStore counts what it loads.
LEMMA CountLoad ==
  ASSUME StoreInv, StoreInv', CountInv, Load, \A t \in Tiers, id \in Ids : ~LoadFails(t, id)
  PROVE  CountInv'
  <1>1. PICK t \in Tiers, id \in Ids :
          RemoveDup(t, id) \/ LoadHinted(t, id) \/ LoadScanned(t, id)
    BY Zenon DEF Load
  <1>2. IsNext(t, id)
    BY <1>1, Zenon DEF RemoveDup, LoadHinted, LoadScanned
  <1>3. TypeInv /\ DiskInv /\ LoadInv /\ Exists(t, id) /\ file[t][id] \in PackFiles
    BY <1>2, LoadingNext, Zenon
  <1>4. CASE RemoveDup(t, id)
    <2>1. /\ tierOf[id] # 0 /\ UNCHANGED <<live, total, index, tierOf>>
          /\ file' = [file EXCEPT ![t][id] = NoFile]
      BY <1>4, Zenon DEF RemoveDup, memVars
    <2>2. tierOf[id] # t
      BY <1>2, <1>3, <2>1 DEF LoadInv, IsNext, Tiers
    <2>3. \A j \in Ids : tierOf[j] # 0 => file'[tierOf[j]][j] = file[tierOf[j]][j]
      <3> SUFFICES ASSUME NEW j \in Ids, tierOf[j] # 0
                   PROVE  file'[tierOf[j]][j] = file[tierOf[j]][j]
        BY Zenon
      <3>1. tierOf[j] \in Tiers
        BY <1>3, PackStoreAssumption DEF TypeInv, Tiers
      <3> QED
        BY <3>1, <2>1, <2>2, <1>3, Zenon DEF TypeInv
    <2> QED
      BY <2>1, <2>3, CountSame, Zenon
  <1>5. CASE LoadHinted(t, id)
    <2>1. PICK e : e = HintEntries(t, id)
      BY Zenon
    <2>2. PICK w \in PackFiles : w = file[t][id]
      BY <1>3, Zenon
    <2>3. /\ tierOf[id] = 0 /\ Hinted(t, id)
          /\ index' = AddedIndex(id, e)
          /\ live' = MovedLive(id, Adds(id, e))
          /\ tierOf' = [tierOf EXCEPT ![id] = t]
          /\ total' = [total EXCEPT ![t] = @ + Bytes(w)]
          /\ file' = file
      BY <1>5, <2>1, <2>2, Zenon DEF LoadHinted, diskVars, Hinted
    <2>4. file' = [file EXCEPT ![t][id] = w]
      BY <2>2, <2>3, <1>3, Zenon DEF TypeInv
    <2>5. DOMAIN e \in SUBSET Keys /\ \A k \in DOMAIN e : e[k] \in Nat \ {0}
      BY <1>3, <2>1, <2>3, HintIs, Zenon
    <2> QED
      BY <2>3, <2>4, <2>5, CountLoaded, Zenon
  <1>6. CASE LoadScanned(t, id)
    <2>1. PICK e : e = ScanEntries(file[t][id])
      BY Zenon
    <2>2. PICK w \in PackFiles : w = Whole(file[t][id])
      <3>1. \A i \in 1..Len(file[t][id]) : i < Len(file[t][id]) => file[t][id][i] # Torn
        BY <1>3, Zenon DEF DiskInv, TornLast
      <3> QED
        BY <1>3, <3>1, WholeIs, Zenon
    <2>3. /\ tierOf[id] = 0
          /\ file' = [file EXCEPT ![t][id] = w]
          /\ index' = AddedIndex(id, e)
          /\ live' = MovedLive(id, Adds(id, e))
          /\ tierOf' = [tierOf EXCEPT ![id] = t]
          /\ total' = [total EXCEPT ![t] = @ + Bytes(w)]
      BY <1>6, <2>1, <2>2, Zenon DEF LoadScanned
    <2>4. DOMAIN e \in SUBSET Keys /\ \A k \in DOMAIN e : e[k] \in Nat \ {0}
      <3>1. /\ DOMAIN e \in SUBSET Keys
            /\ \A k \in DOMAIN e : e[k] \in 1..Len(file[t][id])
        BY <1>3, <2>1, ScanIs, Zenon
      <3>2. Len(file[t][id]) \in Nat
        BY <1>3 DEF PackFiles
      <3> QED
        BY <3>1, <3>2
    <2> QED
      BY <2>3, <2>4, CountLoaded, Zenon
  <1> QED
    BY <1>1, <1>4, <1>5, <1>6, Zenon

\* Every step keeps the counters right.
LEMMA CountNext ==
  ASSUME ~skipped', StoreInv, StoreInv', CountInv, [Next]_vars
  PROVE  CountInv'
  <1>1. CASE Load
    BY <1>1, CountLoad, SkipStays, Zenon
  <1>2. CASE Opened
    <2>1. CASE state' = "up"
      <3>1. /\ file' = [file EXCEPT ![1][last + 1] = <<>>]
            /\ tierOf' = [tierOf EXCEPT ![last + 1] = 1]
            /\ UNCHANGED <<index, live, total>>
            /\ state = "loading" /\ last < MaxId
        BY <1>2, <2>1, Zenon DEF Opened
      <3>2. last \in Nat /\ LoadInv
        BY <3>1, PackStoreAssumption DEF StoreInv, TypeInv
      <3>3. PICK a \in Ids : a = last + 1
        <4>1. last + 1 \in Ids
          BY <3>1, <3>2, PackStoreAssumption DEF Ids
        <4> QED
          BY <4>1, Zenon
      <3>4. tierOf[a] = 0
        <4>1. ~(a <= last)
          BY <3>2, <3>3
        <4> QED
          BY <3>2, <4>1, Zenon DEF LoadInv
      <3> QED
        BY <3>1, <3>3, <3>4, CountNew, Zenon
    <2>2. CASE state' # "up"
      BY <1>2, <2>2, CountSame, Zenon DEF Opened
    <2> QED
      BY <2>1, <2>2, Zenon
  <1>3. ASSUME NEW k \in Keys, Write(k) PROVE CountInv'
    <2>1. CASE Put(k)
      BY <2>1, CountPut, Zenon
    <2>2. CASE RotateFails(k)
      BY <2>2, CountSame, Zenon DEF RotateFails, memVars
    <2>3. CASE WriteFails(k)
      <3>1. /\ Loaded /\ active < MaxId
            /\ file' = [file EXCEPT ![1][active + 1] = <<>>]
            /\ tierOf' = [tierOf EXCEPT ![active + 1] = 1]
            /\ UNCHANGED <<index, live, total>>
        BY <2>3, Zenon DEF WriteFails, NextFree, Loaded
      <3>2. TypeInv /\ Placed /\ active \in Ids /\ IdsBelow(active)
        BY <3>1, ActiveAlone, Zenon
      <3>3. PICK a \in Ids : a = active + 1
        <4>1. active + 1 \in Ids
          BY <3>1, <3>2, PackStoreAssumption DEF Ids
        <4> QED
          BY <4>1, Zenon
      <3>4. tierOf[a] = 0
        <4> SUFFICES ASSUME tierOf[a] # 0 PROVE FALSE
          BY Zenon
        <4>1. Exists(tierOf[a], a) /\ tierOf[a] \in Tiers
          BY <3>2, PackStoreAssumption DEF Placed, TypeInv, Tiers
        <4>2. a <= active
          BY <4>1, <3>2, Zenon DEF IdsBelow
        <4> QED
          BY <3>2, <3>3, <4>2 DEF Ids
      <3> QED
        BY <3>1, <3>3, <3>4, CountNew, Zenon
    <2> QED
      BY <1>3, <2>1, <2>2, <2>3, Zenon DEF Write
  <1>4. CASE Evict
    BY <1>4, CountEvict, Zenon
  <1>5. CASE CopyPack
    BY <1>5, CopyKeeps, CountSame, Zenon DEF CopyPack, memVars
  <1>6. CASE Switch
    BY <1>6, CountSwitch, Zenon
  <1>7. CASE \/ Open \/ OpenFails \/ AwaitKick \/ Receive \/ Pick \/ CopyHint \/ Unlink
             \/ MoveFails \/ SetClosed \/ CloseChannel \/ UNCHANGED vars
    <2>1. UNCHANGED <<file, live, total, index, tierOf>>
      BY <1>7, Zenon DEF Open, OpenFails, AwaitKick, Receive, Pick, CopyHint, Unlink, MoveFails,
                  SetClosed, CloseChannel, diskVars, memVars, vars
    <2> QED
      BY <2>1, CountSame, Zenon
  <1>8. CASE Refused \/ Closed \/ Crash \/ PowerLoss
    BY <1>8, CountForgotten, Zenon DEF Refused, Closed, Crash, PowerLoss, Crashed
  <1> QED
    BY <1>1, <1>2, <1>3, <1>4, <1>5, <1>6, <1>7, <1>8, Zenon DEF Next, Demote

\* Until OpenStore skips a pack, pack.live and Tier.total are what a recount gives, at any
\* time.
THEOREM CountersAreRight == Spec => []Accounted
  <1> DEFINE Counted == ~skipped => CountInv
  <1>1. Init => Counted
    <2> SUFFICES ASSUME Init PROVE CountInv
      BY Zenon
    <2>1. /\ index = [k \in Keys |-> NoLoc] /\ tierOf = [id \in Ids |-> 0]
          /\ live = [id \in Ids |-> 0] /\ total = [t \in Tiers |-> 0]
      BY Zenon DEF Init
    <2>2. \A id \in Ids : KeysIn(id) = {}
      BY <2>1, Zenon DEF KeysIn
    <2>3. LiveCounted
      BY <2>1, <2>2, KeyBytesEmpty, Zenon DEF LiveCounted
    <2>4. ASSUME NEW t \in Tiers PROVE TierBytes(t) = 0
      <3>1. {id \in Ids : tierOf[id] = t} = {}
        BY <2>1 DEF Tiers
      <3> QED
        BY <3>1, SumEmpty, Zenon DEF TierBytes
    <2>5. TotalCounted
      BY <2>1, <2>4, Zenon DEF TotalCounted
    <2> QED
      BY <2>1, <2>3, <2>5 DEF CountInv
  <1>2. Sound /\ Sound' /\ Counted /\ [Next]_vars => Counted'
    BY CountNext, SkipStays, Zenon DEF Sound
  <1>3. Counted => Accounted
    BY Zenon DEF CountInv, LiveCounted, TotalCounted, TierBytes, Accounted
  <1> QED
    BY <1>1, <1>2, <1>3, StoreIsSound, PTL DEF Spec
=============================================================================
