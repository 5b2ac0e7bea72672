--------------------------- MODULE PackStoreSteps ---------------------------
(***************************************************************************)
(* The inductive invariant of jigd's store, and the steps that keep it:    *)
(* the demoter's moves, Put, OpenStore, and the end of a process.          *)
(* PackStoreProofs has the theorems.                                       *)
(*                                                                         *)
(* The invariant has four parts: what is on disk at any time (DiskInv),    *)
(* what OpenStore has loaded so far (LoadInv), what holds while the store  *)
(* serves (ServeInv) and what the last Close has left for the next start   *)
(* (CloseInv).                                                             *)
(***************************************************************************)
EXTENDS PackStore, TLAPS

PackFiles == Seq(Records \cup {Torn})
Hints == UNION {[K -> Nat \ {0}] : K \in SUBSET Keys}

TypeInv ==
  /\ file \in [Tiers -> [Ids -> PackFiles \cup {NoFile}]]
  /\ hint \in [Tiers -> [Ids -> Hints \cup {NoFile}]]
  /\ index \in [Keys -> [pack : Ids, at : Nat \ {0}] \cup {NoLoc}]
  /\ tierOf \in [Ids -> 0..NTiers]
  /\ active \in 0..MaxId
  /\ state \in {"down", "loading", "refused", "up", "closing", "draining"}
  /\ todo \in SUBSET (Tiers \X Ids)
  /\ last \in 0..MaxId
  /\ dpc \in {"none", "range", "wait", "pick", "pack", "hint", "switch", "evict", "unlink", "done"}
  /\ vic \in 0..MaxId
  /\ log \in Seq(Keys)

\* A pack file exists, and has a whole record at position i.
Exists(t, id) == file[t][id] # NoFile
Hinted(t, id) == hint[t][id] # NoFile
HasRec(t, id, i) == Exists(t, id) /\ i \in 1..Len(file[t][id]) /\ file[t][id][i] # Torn

----------------------------------------------------------------------------
(* On disk *)

\* Only the last record of a pack may be torn.
TornLast ==
  \A t \in Tiers, id \in Ids : Exists(t, id) =>
    \A i \in 1..Len(file[t][id]) : i < Len(file[t][id]) => file[t][id][i] # Torn

\* Every record was written by a Put of its key.
RecordsWritten ==
  \A t \in Tiers, id \in Ids, i \in Nat : HasRec(t, id, i) =>
    /\ file[t][id][i] \in Records
    /\ file[t][id][i].ver \in 1..Len(log)
    /\ log[file[t][id][i].ver] = file[t][id][i].key

\* Copies of a pack in two tiers have the same records, as far as both have them.
CopiesAgree ==
  \A t \in Tiers, u \in Tiers, id \in Ids, i \in Nat :
    HasRec(t, id, i) /\ HasRec(u, id, i) => file[t][id][i] = file[u][id][i]

\* What a hint says of any copy of its pack is so, unless the record is gone.
HintsAgree ==
  \A t \in Tiers, u \in Tiers, id \in Ids, k \in Keys :
    (Hinted(t, id) /\ k \in DOMAIN hint[t][id] /\ HasRec(u, id, hint[t][id][k]))
      => file[u][id][hint[t][id][k]].key = k

\* The highest id that was ever used is that of a pack file: it is not used again.
IdsBelow(n) == \A t \in Tiers, id \in Ids : Exists(t, id) \/ Hinted(t, id) => id <= n

TopExists ==
  \A t \in Tiers, id \in Ids : Exists(t, id) \/ Hinted(t, id) =>
    \E u \in Tiers, top \in Ids : Exists(u, top) /\ IdsBelow(top)

\* A hint in a slower tier than a pack file is that of a copy there.
HintsOfCopies ==
  \A t \in Tiers, u \in Tiers, id \in Ids :
    t < u /\ Exists(t, id) /\ Hinted(u, id) => Exists(u, id)

DiskInv ==
  TornLast /\ RecordsWritten /\ CopiesAgree /\ HintsAgree /\ TopExists /\ HintsOfCopies

----------------------------------------------------------------------------
(* In memory *)

\* A pack in Store.packs has its file.
Placed == \A id \in Ids : tierOf[id] # 0 => Exists(tierOf[id], id)

\* The hint of a loaded pack, what the pack holds of key k according to it.
Entry(id, k) ==
  /\ Hinted(tierOf[id], id)
  /\ k \in DOMAIN hint[tierOf[id]][id]
  /\ HasRec(tierOf[id], id, hint[tierOf[id]][id][k])

\* The index points where the hint of the pack does.
IndexHinted(k) ==
  LET p == index[k].pack
  IN  Hinted(tierOf[p], p) /\ k \in DOMAIN hint[tierOf[p]][p] /\ hint[tierOf[p]][p][k] = index[k].at

\* OpenStore: what is loaded, and what is still to do.
LoadInv ==
  /\ \A t \in Tiers, id \in Ids :
       /\ <<t, id>> \in todo => Exists(t, id) /\ (tierOf[id] # 0 => tierOf[id] < t)
       /\ Exists(t, id) => tierOf[id] = t \/ <<t, id>> \in todo
  /\ \A id \in Ids : tierOf[id] # 0 => id <= last /\ Hinted(tierOf[id], id)
  /\ \A k \in Keys : index[k] # NoLoc => IndexHinted(k)
  /\ \A k \in Keys, q \in Ids :
       tierOf[q] # 0 /\ Entry(q, k) => index[k] # NoLoc /\ index[k].pack >= q

\* A copy in the next tier was made by the demoter and is complete.
OnePlace ==
  \A t \in Tiers, id \in Ids : Exists(t, id) =>
    /\ tierOf[id] # 0
    /\ \/ t = tierOf[id]
       \/ t = tierOf[id] + 1 /\ id # active /\ file[t][id] = file[tierOf[id]][id]

\* So is a hint there.
OneHint ==
  \A t \in Tiers, id \in Ids : (tierOf[id] # 0 /\ tierOf[id] < t /\ Hinted(t, id)) =>
    /\ t = tierOf[id] + 1
    /\ id # active
    /\ hint[t][id] = hint[tierOf[id]][id]

\* The active pack is the newest, in the first tier, with whole records only; what
\* a failed rotation left as its hint lists some of them.
ActiveInv ==
  /\ active \in Ids
  /\ tierOf[active] = 1
  /\ IdsBelow(active)
  /\ \A i \in 1..Len(file[1][active]) : file[1][active][i] # Torn
  /\ Hinted(1, active) => \A k \in DOMAIN hint[1][active] :
                            hint[1][active][k] <= Len(file[1][active])

\* The sealed packs: each has a hint that has what the index finds in the pack, and
\* nothing that the index finds in an older one.
SealedInv ==
  /\ \A id \in Ids : tierOf[id] # 0 /\ id # active => Hinted(tierOf[id], id)
  /\ \A k \in Keys : index[k] # NoLoc /\ index[k].pack # active => IndexHinted(k)
  /\ \A k \in Keys, q \in Ids :
       (index[k] # NoLoc /\ index[k].pack < q /\ tierOf[q] # 0 /\ q # active) => ~Entry(q, k)

\* The pack the demoter is about to move.
VictimInv ==
  /\ dpc \in {"pack", "hint", "switch", "evict", "unlink"} => vic \in Ids /\ vic < active
  /\ dpc = "evict" => tierOf[vic] = NTiers
  /\ dpc \in {"pack", "hint", "switch"} => tierOf[vic] \in 1..NTiers - 1
  /\ dpc \in {"hint", "switch"} => Exists(tierOf[vic] + 1, vic)
  /\ dpc = "switch" => Hinted(tierOf[vic] + 1, vic)
  /\ dpc = "unlink" => tierOf[vic] # 1

ServeInv == OnePlace /\ OneHint /\ ActiveInv /\ SealedInv /\ VictimInv

----------------------------------------------------------------------------
(* After a clean close *)

\* The copy of a pack that OpenStore will load.
FirstCopy(t, id) == Exists(t, id) /\ \A u \in Tiers : u < t => ~Exists(u, id)

\* Position n of pack p is where the next start finds key k.
FoundAt(k, t, p, n) ==
  /\ FirstCopy(t, p)
  /\ Hinted(t, p) /\ k \in DOMAIN hint[t][p] /\ hint[t][p][k] = n
  /\ HasRec(t, p, n)
  /\ \A u \in Tiers, q \in Ids : FirstCopy(u, q) /\ p < q =>
       Hinted(u, q) /\ ~(k \in DOMAIN hint[u][q] /\ HasRec(u, q, hint[u][q][k]))

\* What was there at the last Close is on disk, and in the index once its pack is
\* loaded.
CloseInv ==
  \A k \in Keys : atClose[k] # 0 =>
    \E t \in Tiers, p \in Ids, n \in Nat \ {0} :
      /\ FoundAt(k, t, p, n)
      /\ file[t][p][n].ver = atClose[k]
      /\ tierOf[p] # 0 => index[k] = [pack |-> p, at |-> n]
      /\ tierOf[p] = 0 => index[k] = NoLoc \/ index[k].pack < p

----------------------------------------------------------------------------

Fresh ==
  /\ index = [k \in Keys |-> NoLoc]
  /\ tierOf = [id \in Ids |-> 0]
  /\ todo = {} /\ last = 0

StoreInv ==
  /\ TypeInv
  /\ DiskInv
  /\ IndexPoints
  /\ Placed
  /\ ~panic
  /\ closed => state = "draining"
  /\ Loaded => ServeInv /\ dpc # "none"
  /\ ~Loaded => active = 0 /\ dpc = "none" /\ CloseInv
  /\ state = "down" => Fresh
  /\ state = "loading" => LoadInv
  /\ state # "loading" => todo = {}

----------------------------------------------------------------------------
(* Lemmas about the operators *)

\* A file of one tier is written or removed.
LEMMA Stored ==
  ASSUME NEW V, NEW f \in [Tiers -> [Ids -> V]], NEW t \in Tiers, NEW id \in Ids, NEW v \in V,
         NEW g, g = [f EXCEPT ![t][id] = v]
  PROVE  /\ g \in [Tiers -> [Ids -> V]]
         /\ g[t][id] = v
         /\ \A u \in Tiers, j \in Ids : u # t \/ j # id => g[u][j] = f[u][j]
  BY Zenon

\* The constants that stand for nothing are none of the things they stand beside.
LEMMA Sentinels ==
  /\ NoFile \notin PackFiles
  /\ NoFile \notin Hints
  /\ NoLoc \notin [pack : Ids, at : Nat \ {0}]
  /\ Torn \notin Records
  <1>1. NoFile \notin Hints
    <2> SUFFICES ASSUME NEW K \in SUBSET Keys, NoFile \in [K -> Nat \ {0}] PROVE FALSE
      BY Zenon DEF Hints
    <2>1. NoFile \in [K -> Nat]
      BY Zenon
    <2> QED
      BY <2>1, PackStoreAssumption, Zenon
  <1>2. NoLoc \notin [pack : Ids, at : Nat \ {0}]
    BY PackStoreAssumption, Zenon DEF Locs
  <1> QED
    BY <1>1, <1>2, PackStoreAssumption, Zenon DEF PackFiles

\* A position is not NoLoc.
LEMMA Position ==
  ASSUME NEW p \in Ids, NEW n \in Nat \ {0}, NEW loc, loc = [pack |-> p, at |-> n]
  PROVE  loc # NoLoc /\ loc.pack = p /\ loc.at = n
  <1>1. loc \in [pack : Ids, at : Nat \ {0}]
    BY Zenon
  <1> QED
    BY <1>1, Sentinels, Zenon

\* HintsAgree after a step, with a name for the position.
LEMMA HintsAgreeNext ==
  ASSUME \A t \in Tiers, u \in Tiers, id \in Ids, k \in Keys : \A n :
            (Hinted(t, id)' /\ k \in DOMAIN hint'[t][id] /\ hint'[t][id][k] = n
              /\ HasRec(u, id, n)') => file'[u][id][n].key = k
  PROVE  HintsAgree'
  BY DEF HintsAgree, HasRec, Exists

\* Every record of a step that writes none was there before in a copy of the pack,
\* and every entry of a hint was there before or is that of such a record.
LEMMA NothingNew ==
  ASSUME RecordsWritten, CopiesAgree, HintsAgree, log' = log,
         \A t \in Tiers, id \in Ids, i \in Nat : HasRec(t, id, i)' =>
            \E u \in Tiers : HasRec(u, id, i) /\ file'[t][id][i] = file[u][id][i],
         \A t \in Tiers, id \in Ids, k \in Keys :
            Hinted(t, id)' /\ k \in DOMAIN hint'[t][id] =>
              /\ hint'[t][id][k] \in Nat
              /\ \/ \E u \in Tiers : /\ Hinted(u, id) /\ k \in DOMAIN hint[u][id]
                                     /\ hint[u][id][k] = hint'[t][id][k]
                 \/ \E u \in Tiers : /\ HasRec(u, id, hint'[t][id][k])
                                     /\ file[u][id][hint'[t][id][k]].key = k
  PROVE  RecordsWritten' /\ CopiesAgree' /\ HintsAgree'
  <1>1. RecordsWritten'
    <2> SUFFICES ASSUME NEW t \in Tiers, NEW id \in Ids, NEW i \in Nat, HasRec(t, id, i)'
                 PROVE  /\ file'[t][id][i] \in Records
                        /\ file'[t][id][i].ver \in 1..Len(log)
                        /\ log[file'[t][id][i].ver] = file'[t][id][i].key
      BY DEF RecordsWritten
    <2>1. PICK u \in Tiers : HasRec(u, id, i) /\ file'[t][id][i] = file[u][id][i]
      BY Zenon
    <2> QED
      BY <2>1 DEF RecordsWritten
  <1>2. CopiesAgree'
    <2> SUFFICES ASSUME NEW t \in Tiers, NEW u \in Tiers, NEW id \in Ids, NEW i \in Nat,
                        HasRec(t, id, i)', HasRec(u, id, i)'
                 PROVE  file'[t][id][i] = file'[u][id][i]
      BY DEF CopiesAgree
    <2>1. PICK v \in Tiers : HasRec(v, id, i) /\ file'[t][id][i] = file[v][id][i]
      BY Zenon
    <2>2. PICK w \in Tiers : HasRec(w, id, i) /\ file'[u][id][i] = file[w][id][i]
      BY Zenon
    <2> QED
      BY <2>1, <2>2, Zenon DEF CopiesAgree
  <1>3. HintsAgree'
    <2> SUFFICES ASSUME NEW t \in Tiers, NEW u \in Tiers, NEW id \in Ids, NEW k \in Keys,
                        Hinted(t, id)', k \in DOMAIN hint'[t][id], NEW n,
                        hint'[t][id][k] = n, HasRec(u, id, n)'
                 PROVE  file'[u][id][n].key = k
      BY DEF HintsAgree, HasRec, Exists
    <2>0. n \in Nat
      BY Zenon
    <2>1. PICK v \in Tiers : HasRec(v, id, n) /\ file'[u][id][n] = file[v][id][n]
      BY <2>0
    <2>2. CASE \E w \in Tiers : Hinted(w, id) /\ k \in DOMAIN hint[w][id] /\ hint[w][id][k] = n
      BY <2>1, <2>2 DEF HintsAgree
    <2>3. CASE \E w \in Tiers : HasRec(w, id, n) /\ file[w][id][n].key = k
      BY <2>0, <2>1, <2>3 DEF CopiesAgree
    <2> QED
      BY <2>2, <2>3, Zenon
  <1> QED
    BY <1>1, <1>2, <1>3, Zenon

----------------------------------------------------------------------------
(* Steps that leave the disk and the index alone *)

\* What is on disk depends on the files only.
LEMMA SameDisk ==
  ASSUME DiskInv, UNCHANGED <<file, hint, log>>
  PROVE  DiskInv'
  <1>1. TornLast' /\ RecordsWritten' /\ CopiesAgree'
    BY DEF DiskInv, TornLast, RecordsWritten, CopiesAgree, HasRec, Exists
  <1>2. HintsAgree'
    BY DEF DiskInv, HintsAgree, Hinted, HasRec, Exists
  <1>3. TopExists' /\ HintsOfCopies'
    BY Zenon DEF DiskInv, TopExists, IdsBelow, HintsOfCopies, Hinted, Exists
  <1> QED
    BY <1>1, <1>2, <1>3, Zenon DEF DiskInv

\* So does what the next start will find.
LEMMA SameFound ==
  ASSUME UNCHANGED <<file, hint>>, NEW k, NEW t, NEW p, NEW n, FoundAt(k, t, p, n)
  PROVE  FoundAt(k, t, p, n)'
  BY Zenon DEF FoundAt, FirstCopy, Hinted, HasRec, Exists

\* What the next start finds in a pack it finds again if this pack, and what is in
\* higher ones, is as before.
LEMMA FoundKept ==
  ASSUME NEW k, NEW t \in Tiers, NEW p \in Ids, NEW n, FoundAt(k, t, p, n), FirstCopy(t, p)',
         file'[t][p] = file[t][p], hint'[t][p] = hint[t][p],
         \A u \in Tiers, q \in Ids : FirstCopy(u, q)' /\ p < q =>
           FirstCopy(u, q) /\ file'[u][q] = file[u][q] /\ hint'[u][q] = hint[u][q]
  PROVE  FoundAt(k, t, p, n)'
  <1>1. Hinted(t, p)' /\ k \in DOMAIN hint'[t][p] /\ hint'[t][p][k] = n /\ HasRec(t, p, n)'
    BY Zenon DEF FoundAt, Hinted, HasRec, Exists
  <1>2. ASSUME NEW u \in Tiers, NEW q \in Ids, FirstCopy(u, q)', p < q
        PROVE  Hinted(u, q)' /\ ~(k \in DOMAIN hint[u][q] /\ HasRec(u, q, hint[u][q][k]))'
    <2>1. FirstCopy(u, q) /\ file'[u][q] = file[u][q] /\ hint'[u][q] = hint[u][q]
      BY <1>2, Zenon
    <2>2. Hinted(u, q) /\ ~(k \in DOMAIN hint[u][q] /\ HasRec(u, q, hint[u][q][k]))
      BY <1>2, <2>1, Zenon DEF FoundAt
    <2> QED
      BY <2>1, <2>2, Zenon DEF Hinted, HasRec, Exists
  <1> QED
    BY <1>1, <1>2, Zenon DEF FoundAt

\* Or has been loaded.
LEMMA SameClose ==
  ASSUME CloseInv, UNCHANGED <<file, hint, index, tierOf, atClose>>
  PROVE  CloseInv'
  BY SameFound DEF CloseInv

\* The index and the packs are as sound as before.
LEMMA SameMemory ==
  ASSUME IndexPoints, Placed, UNCHANGED <<file, index, tierOf>>
  PROVE  IndexPoints' /\ Placed'
  BY Zenon DEF IndexPoints, Placed, Exists

\* What holds while the store serves depends on the demoter only in VictimInv.
LEMMA SameService ==
  ASSUME ServeInv, UNCHANGED <<file, hint, index, tierOf, active>>
  PROVE  OnePlace' /\ OneHint' /\ ActiveInv' /\ SealedInv'
  <1>1. OnePlace' /\ OneHint'
    BY Zenon DEF ServeInv, OnePlace, OneHint, Exists, Hinted
  <1>2. ActiveInv'
    BY Zenon DEF ServeInv, ActiveInv, IdsBelow, Exists, Hinted
  <1>3. SealedInv'
    BY Zenon DEF ServeInv, SealedInv, IndexHinted, Entry, HasRec, Exists, Hinted
  <1> QED
    BY <1>1, <1>2, <1>3, Zenon

\* A process without a store has no pack.
LEMMA ForgottenType ==
  ASSUME Forgotten
  PROVE  /\ index' \in [Keys -> [pack : Ids, at : Nat \ {0}] \cup {NoLoc}]
         /\ tierOf' \in [Ids -> 0..NTiers]
         /\ active' \in 0..MaxId
         /\ todo' \in SUBSET (Tiers \X Ids)
         /\ last' \in 0..MaxId
         /\ dpc' = "none"
         /\ vic' \in 0..MaxId
  BY PackStoreAssumption DEF Forgotten

\* A process without a store knows of no pack; what is on disk stays to be found.
LEMMA ForgottenInv ==
  ASSUME StoreInv, Forgotten, state' = "down", TypeInv', DiskInv', CloseInv'
  PROVE  StoreInv'
  <1>1. /\ index' = [k \in Keys |-> NoLoc] /\ tierOf' = [id \in Ids |-> 0]
        /\ active' = 0 /\ todo' = {} /\ last' = 0 /\ closed' = FALSE /\ panic' = panic
        /\ dpc' = "none"
    BY Zenon DEF Forgotten
  <1>2. IndexPoints' /\ Placed'
    BY <1>1, Zenon DEF IndexPoints, Placed
  <1>3. Fresh' /\ ~Loaded' /\ ~panic'
    BY <1>1, Zenon DEF Fresh, Loaded, StoreInv
  <1> QED
    BY <1>1, <1>2, <1>3, Zenon DEF StoreInv

\* OpenStore reads the directories.
LEMMA OpenInv ==
  ASSUME StoreInv, Open
  PROVE  StoreInv'
  <1>1. /\ state = "down" /\ state' = "loading"
        /\ todo' = {q \in Tiers \X Ids : file[q[1]][q[2]] # NoFile}
        /\ UNCHANGED <<file, hint, index, tierOf, active, last, closed, panic, dpc, vic, log, atClose>>
    BY Zenon DEF Open, diskVars, memVars, chanVars, demoterVars
  <1>2. Fresh /\ CloseInv /\ active = 0 /\ dpc = "none" /\ ~closed /\ ~panic
    BY <1>1, Zenon DEF StoreInv, Loaded
  <1>3. TypeInv'
    BY <1>1, Zenon DEF StoreInv, TypeInv
  <1>4. DiskInv' /\ IndexPoints' /\ Placed'
    BY <1>1, SameDisk, SameMemory, Zenon DEF StoreInv
  <1>5. CloseInv'
    BY <1>1, <1>2, SameClose, Zenon
  <1>6. LoadInv'
    <2>1. \A t \in Tiers, id \in Ids : Exists(t, id)' <=> <<t, id>> \in todo'
      BY <1>1, Zenon DEF Exists
    <2>2. \A id \in Ids : tierOf'[id] = 0
      BY <1>1, <1>2, Zenon DEF Fresh
    <2>3. \A k \in Keys : index'[k] = NoLoc
      BY <1>1, <1>2, Zenon DEF Fresh
    <2> QED
      BY <2>1, <2>2, <2>3, Zenon DEF LoadInv
  <1> QED
    BY <1>1, <1>2, <1>3, <1>4, <1>5, <1>6, Zenon DEF StoreInv, Loaded

\* OpenStore fails, or the process has told so and is gone.
LEMMA RefusedInv ==
  ASSUME StoreInv, OpenFails \/ Refused
  PROVE  StoreInv'
  <1>1. CASE OpenFails
    <2>1. /\ state = "loading" /\ state' = "refused" /\ todo = {}
          /\ UNCHANGED <<file, hint, index, tierOf, active, todo, last, closed, panic, dpc, vic,
                         log, atClose>>
      BY <1>1, Zenon DEF OpenFails, diskVars, memVars, loadVars, chanVars, demoterVars
    <2>2. CloseInv /\ active = 0 /\ dpc = "none" /\ ~closed /\ ~panic
      BY <2>1, Zenon DEF StoreInv, Loaded
    <2>3. TypeInv'
      BY <2>1, Zenon DEF StoreInv, TypeInv
    <2>4. DiskInv' /\ IndexPoints' /\ Placed'
      BY <2>1, SameDisk, SameMemory, Zenon DEF StoreInv
    <2>5. CloseInv'
      BY <2>1, <2>2, SameClose, Zenon
    <2> QED
      BY <2>1, <2>2, <2>3, <2>4, <2>5, Zenon DEF StoreInv, Loaded
  <1>2. CASE Refused
    <2>1. /\ state = "refused" /\ state' = "down" /\ Forgotten
          /\ UNCHANGED <<file, hint, log, atClose>>
      BY <1>2, Zenon DEF Refused, diskVars
    <2>2. TypeInv'
      BY <2>1, ForgottenType, Zenon DEF StoreInv, TypeInv
    <2>3. DiskInv'
      BY <2>1, SameDisk, Zenon DEF StoreInv
    <2>4. CloseInv'
      <3>1. CloseInv
        BY <2>1, Zenon DEF StoreInv, Loaded
      <3>2. \A k \in Keys : index'[k] = NoLoc
        BY <2>1, Zenon DEF Forgotten
      <3>3. \A p \in Ids : tierOf'[p] = 0
        BY <2>1, Zenon DEF Forgotten
      <3> QED
        BY <2>1, <3>1, <3>2, <3>3, SameFound, Zenon DEF CloseInv
    <2> QED
      BY <2>1, <2>2, <2>3, <2>4, ForgottenInv, Zenon
  <1> QED
    BY <1>1, <1>2, Zenon

\* Close begins.
LEMMA ClosingInv ==
  ASSUME StoreInv, SetClosed \/ CloseChannel
  PROVE  StoreInv'
  <1>1. /\ Loaded /\ Loaded' /\ state # "loading"
        /\ closed' => state' = "draining"
        /\ state' \in {"closing", "draining"}
        /\ UNCHANGED <<file, hint, index, tierOf, active, todo, last, panic, dpc, vic, log>>
    BY DEF SetClosed, CloseChannel, Loaded, diskVars, memVars, loadVars, chanVars, demoterVars,
           StoreInv
  <1>2. TypeInv'
    BY <1>1, Zenon DEF StoreInv, TypeInv
  <1>3. DiskInv' /\ IndexPoints' /\ Placed'
    BY <1>1, SameDisk, SameMemory, Zenon DEF StoreInv
  <1>4. OnePlace' /\ OneHint' /\ ActiveInv' /\ SealedInv'
    BY <1>1, SameService, Zenon DEF StoreInv
  <1>5. VictimInv'
    BY <1>1, Zenon DEF StoreInv, ServeInv, VictimInv, Exists, Hinted
  <1> QED
    BY <1>1, <1>2, <1>3, <1>4, <1>5, Zenon DEF StoreInv, ServeInv

----------------------------------------------------------------------------
(* The demoter *)

\* The active pack is the newest one on disk.
LEMMA ActiveIsTop ==
  ASSUME NEW a \in Ids, Exists(1, a)', IdsBelow(a)'
  PROVE  TopExists'
  <1>1. 1 \in Tiers
    BY PackStoreAssumption DEF Tiers
  <1> QED
    BY <1>1, Zenon DEF TopExists

\* A pack that stays in Store.packs keeps its records, wherever it is, ...
LEMMA IndexKept ==
  ASSUME TypeInv, IndexPoints, Placed,
         \A id \in Ids : tierOf'[id] # 0 =>
            tierOf[id] # 0 /\ file'[tierOf'[id]][id] = file[tierOf[id]][id],
         \A k \in Keys : index'[k] # NoLoc =>
            index'[k] = index[k] /\ tierOf'[index[k].pack] # 0
  PROVE  IndexPoints' /\ Placed'
  <1>1. IndexPoints'
    <2> SUFFICES ASSUME NEW k \in Keys, index'[k] # NoLoc
                 PROVE  LET recs == file'[tierOf'[index'[k].pack]][index'[k].pack]
                        IN  /\ tierOf'[index'[k].pack] # 0
                            /\ recs # NoFile
                            /\ index'[k].at <= Len(recs)
                            /\ recs[index'[k].at] # Torn
                            /\ recs[index'[k].at].key = k
      BY Zenon DEF IndexPoints
    <2>1. PICK p \in Ids : /\ index'[k].pack = p /\ index[k].pack = p /\ index[k] = index'[k]
                           /\ tierOf'[p] # 0 /\ tierOf[p] # 0
                           /\ file'[tierOf'[p]][p] = file[tierOf[p]][p]
      BY DEF TypeInv
    <2> QED
      BY <2>1 DEF IndexPoints
  <1>2. Placed'
    BY Zenon DEF Placed, Exists
  <1> QED
    BY <1>1, <1>2, Zenon

\* ... and a sealed one its hint.
LEMMA PacksKept ==
  ASSUME TypeInv, IndexPoints, Placed, SealedInv, active' = active,
         \A id \in Ids : tierOf'[id] # 0 =>
            /\ tierOf[id] # 0
            /\ file'[tierOf'[id]][id] = file[tierOf[id]][id]
            /\ hint'[tierOf'[id]][id] = hint[tierOf[id]][id],
         \A k \in Keys : index'[k] # NoLoc =>
            index'[k] = index[k] /\ tierOf'[index[k].pack] # 0
  PROVE  IndexPoints' /\ Placed' /\ SealedInv'
  <1>1. ASSUME NEW k \in Keys, index'[k] # NoLoc
        PROVE  \E p \in Ids : /\ index'[k].pack = p /\ index[k].pack = p /\ index[k] = index'[k]
                              /\ tierOf'[p] # 0 /\ tierOf[p] # 0
                              /\ hint'[tierOf'[p]][p] = hint[tierOf[p]][p]
    BY <1>1 DEF TypeInv
  <1>2. IndexPoints' /\ Placed'
    BY IndexKept, Zenon
  <1>3. \A id \in Ids : tierOf'[id] # 0 /\ id # active' => (Hinted(tierOf[id], id))'
    BY Zenon DEF SealedInv, Hinted
  <1>4. \A k \in Keys : index'[k] # NoLoc /\ index'[k].pack # active' => IndexHinted(k)'
    BY <1>1 DEF SealedInv, IndexHinted, Hinted
  <1>5. \A k \in Keys, q \in Ids :
          (index'[k] # NoLoc /\ index'[k].pack < q /\ tierOf'[q] # 0 /\ q # active')
             => ~Entry(q, k)'
    BY <1>1 DEF SealedInv, Entry, HasRec, Exists, Hinted
  <1> QED
    BY <1>2, <1>3, <1>4, <1>5, Zenon DEF SealedInv

\* Hint files that were there before, beside records that were.
LEMMA HintsKept ==
  ASSUME TypeInv, NEW t \in Tiers, NEW id \in Ids, NEW k \in Keys,
         Hinted(t, id), k \in DOMAIN hint[t][id]
  PROVE  hint[t][id][k] \in Nat \ {0}
  <1>1. hint[t][id] \in Hints
    BY DEF TypeInv, Hinted
  <1> QED
    BY <1>1 DEF Hints

\* A pack of the last tier is deleted.
LEMMA EvictInv ==
  ASSUME StoreInv, Evict
  PROVE  StoreInv'
  <1>1. /\ dpc = "evict" /\ dpc' = "unlink"
        /\ file' = [file EXCEPT ![NTiers][vic] = NoFile]
        /\ tierOf' = [tierOf EXCEPT ![vic] = 0]
        /\ index' = [k \in Keys |->
                       IF index[k] # NoLoc /\ index[k].pack = vic THEN NoLoc ELSE index[k]]
        /\ UNCHANGED <<hint, active, state, todo, last, closed, panic, vic, log, atClose>>
    BY Zenon DEF Evict, quietVars, loadVars
  <1>2. Loaded /\ Loaded' /\ ServeInv /\ TypeInv /\ DiskInv /\ IndexPoints /\ Placed
    BY <1>1, Zenon DEF StoreInv, Loaded
  <1>3. vic \in Ids /\ vic < active /\ tierOf[vic] = NTiers /\ NTiers \in Tiers /\ 1 \in Tiers
    BY <1>1, <1>2, PackStoreAssumption DEF ServeInv, VictimInv, Tiers
  <1>4. active \in Ids /\ active # vic
    BY <1>2, <1>3 DEF ServeInv, ActiveInv, Ids
  <1>5. /\ file' \in [Tiers -> [Ids -> PackFiles \cup {NoFile}]]
        /\ file'[NTiers][vic] = NoFile
        /\ \A u \in Tiers, j \in Ids : u # NTiers \/ j # vic => file'[u][j] = file[u][j]
    BY <1>1, <1>2, <1>3, Stored DEF TypeInv
  <1>6. tierOf' \in [Ids -> 0..NTiers] /\ tierOf'[vic] = 0
        /\ \A j \in Ids : j # vic => tierOf'[j] = tierOf[j]
    BY <1>1, <1>2, <1>3, PackStoreAssumption DEF TypeInv
  <1>7. /\ index' \in [Keys -> [pack : Ids, at : Nat \ {0}] \cup {NoLoc}]
        /\ \A k \in Keys : index'[k] # NoLoc => index'[k] = index[k] /\ index[k].pack # vic
    BY <1>1, <1>2, Zenon DEF TypeInv
  <1>8. TypeInv'
    BY <1>1, <1>2, <1>5, <1>6, <1>7, Zenon DEF TypeInv
  <1>9. \A t \in Tiers : file'[t][vic] = NoFile
    <2> SUFFICES ASSUME NEW t \in Tiers, t # NTiers PROVE file[t][vic] = NoFile
      BY <1>3, <1>5, Zenon
    <2> QED
      BY <1>2, <1>3, PackStoreAssumption DEF ServeInv, OnePlace, Exists, Tiers
  <1>10. \A t \in Tiers, id \in Ids : id # vic => file'[t][id] = file[t][id]
    BY <1>5, Zenon
  <1>11. \A t \in Tiers, id \in Ids : Exists(t, id)' => Exists(t, id) /\ id # vic
    BY <1>9, <1>10, Zenon DEF Exists
  <1>12. RecordsWritten' /\ CopiesAgree' /\ HintsAgree'
    <2>1. \A t \in Tiers, id \in Ids, i \in Nat : HasRec(t, id, i)' =>
            HasRec(t, id, i) /\ file'[t][id][i] = file[t][id][i]
      BY <1>10, <1>11, Zenon DEF HasRec
    <2>2. \A t \in Tiers, id \in Ids, k \in Keys :
            Hinted(t, id)' /\ k \in DOMAIN hint'[t][id] =>
              /\ hint'[t][id][k] \in Nat
              /\ Hinted(t, id) /\ k \in DOMAIN hint[t][id] /\ hint[t][id][k] = hint'[t][id][k]
      BY <1>1, <1>2, HintsKept, Zenon DEF Hinted
    <2> QED
      BY <1>1, <1>2, <2>1, <2>2, NothingNew, Zenon DEF DiskInv
  <1>13. TornLast'
    BY <1>2, <1>10, <1>11 DEF DiskInv, TornLast
  <1>14. IdsBelow(active)'
    BY <1>1, <1>2, <1>11, Zenon DEF ServeInv, ActiveInv, IdsBelow, Hinted
  <1>15. Exists(1, active)'
    BY <1>1, <1>2, <1>3, <1>4, <1>10 DEF ServeInv, ActiveInv, Placed, Exists
  <1>16. HintsOfCopies'
    BY <1>1, <1>2, <1>10, <1>11 DEF DiskInv, HintsOfCopies, Hinted, Exists
  <1>17. DiskInv'
    BY <1>1, <1>4, <1>12, <1>13, <1>14, <1>15, <1>16, ActiveIsTop, Zenon DEF DiskInv, Exists, IdsBelow
  <1>18. IndexPoints' /\ Placed' /\ SealedInv'
    <2>1. \A id \in Ids : tierOf'[id] # 0 =>
            /\ tierOf[id] # 0
            /\ file'[tierOf'[id]][id] = file[tierOf[id]][id]
            /\ hint'[tierOf'[id]][id] = hint[tierOf[id]][id]
      <3> SUFFICES ASSUME NEW id \in Ids, tierOf'[id] # 0
                   PROVE  /\ tierOf[id] # 0
                          /\ file'[tierOf'[id]][id] = file[tierOf[id]][id]
                          /\ hint'[tierOf'[id]][id] = hint[tierOf[id]][id]
        BY Zenon
      <3>1. id # vic /\ tierOf'[id] = tierOf[id] /\ tierOf[id] \in Tiers
        BY <1>2, <1>6, PackStoreAssumption DEF TypeInv, Tiers
      <3> QED
        BY <1>1, <1>10, <3>1, Zenon
    <2>2. \A k \in Keys : index'[k] # NoLoc =>
            index'[k] = index[k] /\ tierOf'[index[k].pack] # 0
      BY <1>2, <1>6, <1>7 DEF IndexPoints, TypeInv
    <2> QED
      BY <1>1, <1>2, <2>1, <2>2, PacksKept, Zenon DEF ServeInv
  <1>19. OnePlace'
    <2> SUFFICES ASSUME NEW t \in Tiers, NEW id \in Ids, Exists(t, id)'
                 PROVE  /\ tierOf'[id] # 0
                        /\ \/ t = tierOf'[id]
                           \/ /\ t = tierOf'[id] + 1 /\ id # active'
                              /\ file'[t][id] = file'[tierOf'[id]][id]
      BY Zenon DEF OnePlace
    <2>1. Exists(t, id) /\ id # vic /\ tierOf'[id] = tierOf[id] /\ tierOf[id] # 0
      BY <1>2, <1>6, <1>11, Zenon DEF ServeInv, OnePlace
    <2>2. tierOf[id] \in Tiers
      BY <2>1, <1>2, PackStoreAssumption DEF TypeInv, Tiers
    <2> QED
      BY <2>1, <2>2, <1>1, <1>2, <1>10 DEF ServeInv, OnePlace
  <1>20. OneHint'
    BY <1>1, <1>2, <1>6, Zenon DEF ServeInv, OneHint, Hinted
  <1>21. ActiveInv'
    BY <1>1, <1>2, <1>3, <1>4, <1>6, <1>10, <1>14 DEF ServeInv, ActiveInv, Hinted
  <1>22. VictimInv'
    BY <1>1, <1>3, <1>6 DEF VictimInv
  <1> QED
    BY <1>1, <1>2, <1>8, <1>17, <1>18, <1>19, <1>20, <1>21, <1>22, Zenon DEF StoreInv, ServeInv, Loaded

\* The victim and the tiers it moves between.
LEMMA VictimPlace ==
  ASSUME StoreInv, dpc \in {"pack", "hint", "switch"}
  PROVE  /\ Loaded /\ ServeInv /\ TypeInv /\ DiskInv /\ IndexPoints /\ Placed
         /\ vic \in Ids /\ active \in Ids /\ vic < active /\ vic # active /\ 1 \in Tiers
         /\ tierOf[vic] \in Tiers /\ tierOf[vic] + 1 \in Tiers /\ tierOf[vic] # tierOf[vic] + 1
         /\ Exists(tierOf[vic], vic) /\ Hinted(tierOf[vic], vic)
  <1>1. Loaded /\ ServeInv /\ TypeInv /\ DiskInv /\ IndexPoints /\ Placed
    BY Zenon DEF StoreInv, Loaded
  <1>2. /\ vic \in Ids /\ active \in Ids /\ vic < active /\ vic # active /\ 1 \in Tiers
        /\ tierOf[vic] \in 1..NTiers - 1
    BY <1>1, PackStoreAssumption DEF ServeInv, VictimInv, ActiveInv, Ids, Tiers
  <1>3. tierOf[vic] \in Tiers /\ tierOf[vic] + 1 \in Tiers /\ tierOf[vic] # tierOf[vic] + 1
        /\ tierOf[vic] # 0
    BY <1>2, PackStoreAssumption DEF Tiers
  <1> QED
    BY <1>1, <1>2, <1>3, Zenon DEF Placed, ServeInv, SealedInv

\* The pack is copied into the next tier.
LEMMA CopyPackInv ==
  ASSUME StoreInv, CopyPack
  PROVE  StoreInv'
  <1> DEFINE t == tierOf[vic]
  <1>1. /\ dpc = "pack" /\ dpc' = "hint"
        /\ file' = [file EXCEPT ![t + 1][vic] = IF @ = NoFile THEN file[t][vic] ELSE @]
        /\ UNCHANGED <<hint, index, tierOf, active, state, todo, last, closed, panic, vic, log,
                       atClose>>
    BY Zenon DEF CopyPack, memVars, quietVars, loadVars
  <1>2. /\ Loaded /\ ServeInv /\ TypeInv /\ DiskInv /\ IndexPoints /\ Placed
        /\ vic \in Ids /\ active \in Ids /\ vic < active /\ vic # active /\ 1 \in Tiers
        /\ t \in Tiers /\ t + 1 \in Tiers /\ t # t + 1
        /\ Exists(t, vic) /\ Hinted(t, vic)
    BY <1>1, VictimPlace, Zenon
  <1>3. file[t + 1][vic] # NoFile => file[t + 1][vic] = file[t][vic]
    BY <1>2, Zenon DEF ServeInv, OnePlace, Exists
  <1>4. /\ file' = [file EXCEPT ![t + 1][vic] = file[t][vic]]
        /\ file[t][vic] \in PackFiles \cup {NoFile}
    BY <1>1, <1>2, <1>3, Zenon DEF TypeInv
  <1>5. /\ file' \in [Tiers -> [Ids -> PackFiles \cup {NoFile}]]
        /\ file'[t + 1][vic] = file[t][vic]
        /\ \A u \in Tiers, j \in Ids : u # t + 1 \/ j # vic => file'[u][j] = file[u][j]
    <2> HIDE DEF t
    <2> QED
      BY <1>2, <1>4, Stored DEF TypeInv
  <1> HIDE DEF t
  <1>6. TypeInv'
    BY <1>1, <1>2, <1>5, Zenon DEF TypeInv
  <1>7. \A u \in Tiers, id \in Ids :
          Exists(u, id)' => Exists(u, id) \/ (u = t + 1 /\ id = vic)
    BY <1>5, Zenon DEF Exists
  <1>8. \A u \in Tiers, id \in Ids : Exists(u, id) => Exists(u, id)'
    BY <1>2, <1>5, Zenon DEF Exists
  <1>9. RecordsWritten' /\ CopiesAgree' /\ HintsAgree'
    <2>1. \A u \in Tiers, id \in Ids, i \in Nat : HasRec(u, id, i)' =>
            \E v \in Tiers : HasRec(v, id, i) /\ file'[u][id][i] = file[v][id][i]
      <3> SUFFICES ASSUME NEW u \in Tiers, NEW id \in Ids, NEW i \in Nat, HasRec(u, id, i)'
                   PROVE  \E v \in Tiers : HasRec(v, id, i) /\ file'[u][id][i] = file[v][id][i]
        BY Zenon
      <3>1. CASE u = t + 1 /\ id = vic
        BY <3>1, <1>2, <1>5, Zenon DEF HasRec, Exists
      <3>2. CASE ~(u = t + 1 /\ id = vic)
        BY <3>2, <1>5, Zenon DEF HasRec, Exists
      <3> QED
        BY <3>1, <3>2, Zenon
    <2>2. \A u \in Tiers, id \in Ids, k \in Keys :
            Hinted(u, id)' /\ k \in DOMAIN hint'[u][id] =>
              /\ hint'[u][id][k] \in Nat
              /\ Hinted(u, id) /\ k \in DOMAIN hint[u][id] /\ hint[u][id][k] = hint'[u][id][k]
      BY <1>1, <1>2, HintsKept, Zenon DEF Hinted
    <2> QED
      BY <1>1, <1>2, <2>1, <2>2, NothingNew, Zenon DEF DiskInv
  <1>10. TornLast'
    <2> SUFFICES ASSUME NEW u \in Tiers, NEW id \in Ids, Exists(u, id)'
                 PROVE  \A i \in 1..Len(file'[u][id]) :
                          i < Len(file'[u][id]) => file'[u][id][i] # Torn
      BY Zenon DEF TornLast
    <2>1. \E v \in Tiers : Exists(v, id) /\ file'[u][id] = file[v][id]
      BY <1>2, <1>5, Zenon DEF Exists
    <2> QED
      BY <2>1, <1>2, Zenon DEF DiskInv, TornLast
  <1>11. IdsBelow(active)'
    BY <1>1, <1>2, <1>7, Zenon DEF ServeInv, ActiveInv, IdsBelow, Hinted, Ids
  <1>12. Exists(1, active)'
    BY <1>1, <1>2, <1>5 DEF ServeInv, ActiveInv, Placed, Exists
  <1>13. HintsOfCopies'
    <2> SUFFICES ASSUME NEW u \in Tiers, NEW v \in Tiers, NEW id \in Ids,
                        u < v, Exists(u, id)', Hinted(v, id)'
                 PROVE  Exists(v, id)'
      BY Zenon DEF HintsOfCopies
    <2>1. Hinted(v, id)
      BY <1>1, Zenon DEF Hinted
    <2>2. CASE Exists(u, id)
      BY <2>1, <2>2, <1>2, <1>8, Zenon DEF DiskInv, HintsOfCopies
    <2>3. CASE u = t + 1 /\ id = vic
      <3>1. t \in Nat /\ u \in Nat /\ v \in Nat /\ t # 0
        BY <1>2 DEF Tiers
      <3>2. t < v /\ v # t + 1
        BY <2>3, <3>1
      <3> QED
        BY <2>1, <2>3, <3>1, <3>2, <1>2, Zenon DEF ServeInv, OneHint, t
    <2> QED
      BY <2>2, <2>3, <1>7, Zenon
  <1>14. DiskInv'
    BY <1>1, <1>2, <1>9, <1>10, <1>11, <1>12, <1>13, ActiveIsTop, Zenon DEF DiskInv, Exists, IdsBelow
  <1>15. \A id \in Ids : tierOf[id] # 0 =>
           tierOf[id] \in Tiers /\ file'[tierOf[id]][id] = file[tierOf[id]][id]
    <2> SUFFICES ASSUME NEW id \in Ids, tierOf[id] # 0
                 PROVE  tierOf[id] \in Tiers /\ file'[tierOf[id]][id] = file[tierOf[id]][id]
      BY Zenon
    <2>1. tierOf[id] \in Tiers
      BY <1>2, PackStoreAssumption DEF TypeInv, Tiers
    <2>2. id = vic => tierOf[id] # t + 1
      BY <1>2, Zenon DEF t
    <2> QED
      BY <2>1, <2>2, <1>5, Zenon
  <1>16. IndexPoints' /\ Placed' /\ SealedInv'
    <2>1. \A k \in Keys : index'[k] # NoLoc =>
            index'[k] = index[k] /\ tierOf'[index[k].pack] # 0
      BY <1>1, <1>2, Zenon DEF IndexPoints
    <2> QED
      BY <1>1, <1>2, <1>15, <2>1, PacksKept, Zenon DEF ServeInv
  <1>17. OnePlace'
    <2> SUFFICES ASSUME NEW u \in Tiers, NEW id \in Ids, Exists(u, id)'
                 PROVE  /\ tierOf[id] # 0
                        /\ \/ u = tierOf[id]
                           \/ /\ u = tierOf[id] + 1 /\ id # active
                              /\ file'[u][id] = file'[tierOf[id]][id]
      BY <1>1 DEF OnePlace
    <2>1. CASE u = t + 1 /\ id = vic
      <3>1. tierOf[vic] = t /\ t # 0
        BY <1>2 DEF t, Tiers
      <3> QED
        BY <2>1, <3>1, <1>2, <1>5, Zenon
    <2>2. CASE ~(u = t + 1 /\ id = vic)
      <3>1. Exists(u, id) /\ file'[u][id] = file[u][id]
        BY <2>2, <1>5, Zenon DEF Exists
      <3> QED
        BY <3>1, <1>2, <1>15, Zenon DEF ServeInv, OnePlace
    <2> QED
      BY <2>1, <2>2, Zenon
  <1>18. OneHint'
    BY <1>1, <1>2, Zenon DEF ServeInv, OneHint, Hinted
  <1>19. ActiveInv'
    BY <1>1, <1>2, <1>5, <1>11 DEF ServeInv, ActiveInv, Hinted
  <1>20. VictimInv'
    BY <1>1, <1>2, <1>5, Zenon DEF ServeInv, VictimInv, Exists, t
  <1> QED
    BY <1>1, <1>2, <1>6, <1>14, <1>16, <1>17, <1>18, <1>19, <1>20, Zenon DEF StoreInv, ServeInv, Loaded

\* So is its hint.
LEMMA CopyHintInv ==
  ASSUME StoreInv, CopyHint
  PROVE  StoreInv'
  <1> DEFINE t == tierOf[vic]
  <1>1. /\ Loaded /\ ServeInv /\ TypeInv /\ DiskInv /\ IndexPoints /\ Placed
        /\ vic \in Ids /\ active \in Ids /\ vic < active /\ vic # active /\ 1 \in Tiers
        /\ t \in Tiers /\ t + 1 \in Tiers /\ t # t + 1
        /\ Exists(t, vic) /\ Hinted(t, vic)
    BY VictimPlace, Zenon DEF CopyHint
  <1>2. /\ dpc = "hint" /\ dpc' = "switch"
        /\ hint' = [hint EXCEPT ![t + 1][vic] = IF @ = NoFile THEN hint[t][vic] ELSE @]
        /\ UNCHANGED <<file, index, tierOf, active, state, todo, last, closed, panic, vic, log,
                       atClose>>
    BY <1>1, Zenon DEF CopyHint, memVars, quietVars, loadVars, Hinted
  <1>3. hint[t + 1][vic] # NoFile => hint[t + 1][vic] = hint[t][vic]
    <2>1. t # 0 /\ t < t + 1
      BY <1>1 DEF Tiers
    <2> QED
      BY <1>1, <2>1, Zenon DEF ServeInv, OneHint, Hinted
  <1>4. /\ hint' = [hint EXCEPT ![t + 1][vic] = hint[t][vic]]
        /\ hint[t][vic] \in Hints \cup {NoFile}
    BY <1>1, <1>2, <1>3, Zenon DEF TypeInv
  <1>5. /\ hint' \in [Tiers -> [Ids -> Hints \cup {NoFile}]]
        /\ hint'[t + 1][vic] = hint[t][vic]
        /\ \A u \in Tiers, j \in Ids : u # t + 1 \/ j # vic => hint'[u][j] = hint[u][j]
    <2> HIDE DEF t
    <2> QED
      BY <1>1, <1>4, Stored DEF TypeInv
  <1>6. Exists(t + 1, vic)
    BY <1>1, <1>2, Zenon DEF ServeInv, VictimInv
  <1>7. tierOf[vic] = t
    BY Zenon
  <1> HIDE DEF t
  <1>8. TypeInv'
    BY <1>1, <1>2, <1>5, Zenon DEF TypeInv
  <1>9. \A u \in Tiers, id \in Ids :
          Hinted(u, id)' => Hinted(u, id) \/ (u = t + 1 /\ id = vic)
    BY <1>5, Zenon DEF Hinted
  <1>10. RecordsWritten' /\ CopiesAgree' /\ HintsAgree'
    <2>1. \A u \in Tiers, id \in Ids, i \in Nat : HasRec(u, id, i)' =>
            \E v \in Tiers : HasRec(v, id, i) /\ file'[u][id][i] = file[v][id][i]
      BY <1>2, Zenon DEF HasRec, Exists
    <2>2. \A u \in Tiers, id \in Ids, k \in Keys :
            Hinted(u, id)' /\ k \in DOMAIN hint'[u][id] =>
              /\ hint'[u][id][k] \in Nat
              /\ \E v \in Tiers : /\ Hinted(v, id) /\ k \in DOMAIN hint[v][id]
                                  /\ hint[v][id][k] = hint'[u][id][k]
      <3> SUFFICES ASSUME NEW u \in Tiers, NEW id \in Ids, NEW k \in Keys,
                          Hinted(u, id)', k \in DOMAIN hint'[u][id]
                   PROVE  /\ hint'[u][id][k] \in Nat
                          /\ \E v \in Tiers : /\ Hinted(v, id) /\ k \in DOMAIN hint[v][id]
                                              /\ hint[v][id][k] = hint'[u][id][k]
        BY Zenon
      <3>1. PICK v \in Tiers : Hinted(v, id) /\ hint[v][id] = hint'[u][id]
        BY <1>1, <1>5, Zenon DEF Hinted
      <3> QED
        BY <1>1, <3>1, HintsKept, Zenon
    <2>3. \A u \in Tiers, id \in Ids, k \in Keys :
            Hinted(u, id)' /\ k \in DOMAIN hint'[u][id] =>
              /\ hint'[u][id][k] \in Nat
              /\ \/ \E v \in Tiers : /\ Hinted(v, id) /\ k \in DOMAIN hint[v][id]
                                     /\ hint[v][id][k] = hint'[u][id][k]
                 \/ \E v \in Tiers : /\ HasRec(v, id, hint'[u][id][k])
                                     /\ file[v][id][hint'[u][id][k]].key = k
      BY <2>2, Zenon
    <2>4. RecordsWritten /\ CopiesAgree /\ HintsAgree /\ log' = log
      BY <1>1, <1>2, Zenon DEF DiskInv
    <2> QED
      BY <2>1, <2>3, <2>4, NothingNew, Zenon
  <1>11. TornLast'
    BY <1>1, <1>2, Zenon DEF DiskInv, TornLast, Exists
  <1>12. IdsBelow(active)'
    BY <1>1, <1>2, <1>9, Zenon DEF ServeInv, ActiveInv, IdsBelow, Exists, Ids
  <1>13. Exists(1, active)'
    BY <1>1, <1>2 DEF ServeInv, ActiveInv, Placed, Exists
  <1>14. HintsOfCopies'
    BY <1>1, <1>2, <1>6, <1>9, Zenon DEF DiskInv, HintsOfCopies, Exists
  <1>15. DiskInv'
    BY <1>1, <1>2, <1>10, <1>11, <1>12, <1>13, <1>14, ActiveIsTop, Zenon DEF DiskInv, Exists, IdsBelow
  <1>16. \A id \in Ids : tierOf[id] # 0 =>
           tierOf[id] \in Tiers /\ hint'[tierOf[id]][id] = hint[tierOf[id]][id]
    <2> SUFFICES ASSUME NEW id \in Ids, tierOf[id] # 0
                 PROVE  tierOf[id] \in Tiers /\ hint'[tierOf[id]][id] = hint[tierOf[id]][id]
      BY Zenon
    <2>1. tierOf[id] \in Tiers
      BY <1>1, PackStoreAssumption DEF TypeInv, Tiers
    <2> QED
      BY <2>1, <1>1, <1>5, <1>7, Zenon
  <1>17. IndexPoints' /\ Placed' /\ SealedInv'
    <2>1. \A k \in Keys : index'[k] # NoLoc =>
            index'[k] = index[k] /\ tierOf'[index[k].pack] # 0
      BY <1>1, <1>2, Zenon DEF IndexPoints
    <2> QED
      BY <1>1, <1>2, <1>16, <2>1, PacksKept, Zenon DEF ServeInv
  <1>18. OnePlace'
    BY <1>1, <1>2 DEF ServeInv, OnePlace, Exists
  <1>19. OneHint'
    <2> SUFFICES ASSUME NEW u \in Tiers, NEW id \in Ids,
                        tierOf[id] # 0, tierOf[id] < u, Hinted(u, id)'
                 PROVE  /\ u = tierOf[id] + 1
                        /\ id # active
                        /\ hint'[u][id] = hint'[tierOf[id]][id]
      BY <1>2 DEF OneHint
    <2>1. CASE u = t + 1 /\ id = vic
      BY <2>1, <1>1, <1>5, <1>7, Zenon
    <2>2. CASE ~(u = t + 1 /\ id = vic)
      <3>1. Hinted(u, id) /\ hint'[u][id] = hint[u][id]
        BY <2>2, <1>5, Zenon DEF Hinted
      <3> QED
        BY <3>1, <1>1, <1>16, Zenon DEF ServeInv, OneHint
    <2> QED
      BY <2>1, <2>2, Zenon
  <1>20. ActiveInv'
    BY <1>1, <1>2, <1>5, <1>12 DEF ServeInv, ActiveInv, Hinted
  <1>21. VictimInv'
    BY <1>1, <1>2, <1>5, <1>6, <1>7, Zenon DEF ServeInv, VictimInv, Exists, Hinted
  <1> QED
    BY <1>1, <1>2, <1>8, <1>15, <1>17, <1>18, <1>19, <1>20, <1>21, Zenon DEF StoreInv, ServeInv, Loaded

\* The pack is in the next tier now.
LEMMA SwitchInv ==
  ASSUME StoreInv, Switch
  PROVE  StoreInv'
  <1> DEFINE t == tierOf[vic]
  <1>1. /\ Loaded /\ ServeInv /\ TypeInv /\ DiskInv /\ IndexPoints /\ Placed
        /\ vic \in Ids /\ active \in Ids /\ vic < active /\ vic # active /\ 1 \in Tiers
        /\ t \in Tiers /\ t + 1 \in Tiers /\ t # t + 1
        /\ Exists(t, vic) /\ Hinted(t, vic)
    BY VictimPlace, Zenon DEF Switch
  <1>2. /\ dpc = "switch" /\ dpc' = "unlink"
        /\ file' = [file EXCEPT ![t][vic] = NoFile]
        /\ tierOf' = [tierOf EXCEPT ![vic] = t + 1]
        /\ UNCHANGED <<hint, index, active, state, todo, last, closed, panic, vic, log, atClose>>
    BY Zenon DEF Switch, quietVars, loadVars
  <1>3. file[t + 1][vic] = file[t][vic] /\ Exists(t + 1, vic)
    <2>1. Exists(t + 1, vic)
      BY <1>1, <1>2, Zenon DEF ServeInv, VictimInv
    <2> QED
      BY <1>1, <2>1, Zenon DEF ServeInv, OnePlace
  <1>4. hint[t + 1][vic] = hint[t][vic]
    <2>1. t # 0 /\ t < t + 1 /\ Hinted(t + 1, vic)
      BY <1>1, <1>2 DEF Tiers, ServeInv, VictimInv
    <2> QED
      BY <1>1, <2>1, Zenon DEF ServeInv, OneHint
  <1>5. /\ file' \in [Tiers -> [Ids -> PackFiles \cup {NoFile}]]
        /\ file'[t][vic] = NoFile
        /\ \A u \in Tiers, j \in Ids : u # t \/ j # vic => file'[u][j] = file[u][j]
    <2> HIDE DEF t
    <2> QED
      BY <1>1, <1>2, Stored DEF TypeInv
  <1>6. /\ tierOf' \in [Ids -> 0..NTiers] /\ tierOf'[vic] = t + 1
        /\ \A j \in Ids : j # vic => tierOf'[j] = tierOf[j]
    <2>1. t + 1 \in 0..NTiers
      BY <1>1, PackStoreAssumption DEF Tiers
    <2> QED
      BY <1>1, <1>2, <2>1, Zenon DEF TypeInv
  <1>7. t \in Nat /\ t # 0 /\ t + 1 \in Nat /\ t + 1 # 0 /\ t + 1 # 1
    BY <1>1 DEF Tiers
  <1>8. tierOf[vic] = t
    BY Zenon
  <1>9. \A u \in Tiers : file'[u][vic] # NoFile => u = t + 1
    BY <1>1, <1>5 DEF ServeInv, OnePlace, Exists
  <1>10. \A u \in Tiers : t < u /\ Hinted(u, vic) => u = t + 1
    BY <1>1, <1>7, Zenon DEF ServeInv, OneHint
  <1> HIDE DEF t
  <1>11. TypeInv'
    BY <1>1, <1>2, <1>5, <1>6, Zenon DEF TypeInv
  <1>12. \A u \in Tiers, id \in Ids :
           Exists(u, id)' => Exists(u, id) /\ file'[u][id] = file[u][id]
    BY <1>5, Zenon DEF Exists
  <1>13. RecordsWritten' /\ CopiesAgree' /\ HintsAgree'
    <2>1. \A u \in Tiers, id \in Ids, i \in Nat : HasRec(u, id, i)' =>
            HasRec(u, id, i) /\ file'[u][id][i] = file[u][id][i]
      BY <1>12, Zenon DEF HasRec
    <2>2. \A u \in Tiers, id \in Ids, k \in Keys :
            Hinted(u, id)' /\ k \in DOMAIN hint'[u][id] =>
              /\ hint'[u][id][k] \in Nat
              /\ Hinted(u, id) /\ k \in DOMAIN hint[u][id] /\ hint[u][id][k] = hint'[u][id][k]
      BY <1>1, <1>2, HintsKept, Zenon DEF Hinted
    <2> QED
      BY <1>1, <1>2, <2>1, <2>2, NothingNew DEF DiskInv
  <1>14. TornLast'
    BY <1>1, <1>12 DEF DiskInv, TornLast
  <1>15. IdsBelow(active)'
    BY <1>1, <1>2, <1>12, Zenon DEF ServeInv, ActiveInv, IdsBelow, Hinted
  <1>16. Exists(1, active)'
    BY <1>1, <1>2, <1>5 DEF ServeInv, ActiveInv, Placed, Exists
  <1>17. HintsOfCopies'
    <2> SUFFICES ASSUME NEW u \in Tiers, NEW v \in Tiers, NEW id \in Ids,
                        u < v, Exists(u, id)', Hinted(v, id)'
                 PROVE  Exists(v, id)'
      BY Zenon DEF HintsOfCopies
    <2>1. Hinted(v, id) /\ Exists(u, id)
      BY <1>2, <1>12, Zenon DEF Hinted
    <2>2. CASE id = vic
      <3>1. u = t + 1
        BY <2>2, <1>9, Zenon DEF Exists
      <3>2. v \in Nat /\ t < v
        BY <3>1, <1>7 DEF Tiers
      <3> QED
        BY <2>1, <2>2, <3>1, <3>2, <1>10, <1>7, Zenon
    <2>3. CASE id # vic
      <3>1. Exists(v, id)
        BY <2>1, <1>1, Zenon DEF DiskInv, HintsOfCopies
      <3> QED
        BY <2>3, <3>1, <1>5, Zenon DEF Exists
    <2> QED
      BY <2>2, <2>3, Zenon
  <1>18. DiskInv'
    BY <1>1, <1>2, <1>13, <1>14, <1>15, <1>16, <1>17, ActiveIsTop, Zenon DEF DiskInv, Exists, IdsBelow
  <1>19. \A id \in Ids : tierOf'[id] # 0 =>
           /\ tierOf[id] # 0 /\ tierOf'[id] \in Tiers
           /\ file'[tierOf'[id]][id] = file[tierOf[id]][id]
           /\ hint'[tierOf'[id]][id] = hint[tierOf[id]][id]
    <2> SUFFICES ASSUME NEW id \in Ids, tierOf'[id] # 0
                 PROVE  /\ tierOf[id] # 0 /\ tierOf'[id] \in Tiers
                        /\ file'[tierOf'[id]][id] = file[tierOf[id]][id]
                        /\ hint'[tierOf'[id]][id] = hint[tierOf[id]][id]
      BY Zenon
    <2>1. CASE id = vic
      BY <2>1, <1>1, <1>2, <1>3, <1>4, <1>5, <1>6, <1>7, <1>8, Zenon
    <2>2. CASE id # vic
      <3>1. tierOf'[id] = tierOf[id] /\ tierOf[id] \in Tiers
        BY <2>2, <1>1, <1>6, PackStoreAssumption DEF TypeInv, Tiers
      <3> QED
        BY <2>2, <3>1, <1>2, <1>5, Zenon
    <2> QED
      BY <2>1, <2>2, Zenon
  <1>20. IndexPoints' /\ Placed' /\ SealedInv'
    <2>1. \A k \in Keys : index'[k] # NoLoc =>
            index'[k] = index[k] /\ tierOf'[index[k].pack] # 0
      BY <1>1, <1>2, <1>6, <1>7, Zenon DEF IndexPoints, TypeInv
    <2> QED
      BY <1>1, <1>2, <1>19, <2>1, PacksKept, Zenon DEF ServeInv
  <1>21. OnePlace'
    <2> SUFFICES ASSUME NEW u \in Tiers, NEW id \in Ids, Exists(u, id)'
                 PROVE  /\ tierOf'[id] # 0
                        /\ \/ u = tierOf'[id]
                           \/ /\ u = tierOf'[id] + 1 /\ id # active
                              /\ file'[u][id] = file'[tierOf'[id]][id]
      BY <1>2, Zenon DEF OnePlace
    <2>1. CASE id = vic
      BY <2>1, <1>6, <1>7, <1>9, Zenon DEF Exists
    <2>2. CASE id # vic
      <3>1. tierOf'[id] = tierOf[id] /\ tierOf[id] # 0 /\ tierOf'[id] # 0
        BY <2>2, <1>1, <1>6, <1>12 DEF ServeInv, OnePlace
      <3> QED
        BY <2>2, <3>1, <1>1, <1>12, <1>19 DEF ServeInv, OnePlace
    <2> QED
      BY <2>1, <2>2, Zenon
  <1>22. OneHint'
    <2> SUFFICES ASSUME NEW u \in Tiers, NEW id \in Ids,
                        tierOf'[id] # 0, tierOf'[id] < u, Hinted(u, id)
                 PROVE  /\ u = tierOf'[id] + 1
                        /\ id # active
                        /\ hint[u][id] = hint[tierOf'[id]][id]
      BY <1>2, Zenon DEF OneHint, Hinted
    <2>1. CASE id = vic
      <3>1. u \in Nat /\ t < u /\ u # t + 1
        BY <2>1, <1>6, <1>7 DEF Tiers
      <3> QED
        BY <2>1, <3>1, <1>10, Zenon
    <2>2. CASE id # vic
      BY <2>2, <1>1, <1>6 DEF ServeInv, OneHint
    <2> QED
      BY <2>1, <2>2, Zenon
  <1>23. ActiveInv'
    BY <1>1, <1>2, <1>5, <1>6, <1>15 DEF ServeInv, ActiveInv, Hinted
  <1>24. VictimInv'
    BY <1>1, <1>2, <1>6, <1>7, Zenon DEF VictimInv
  <1> QED
    BY <1>1, <1>2, <1>11, <1>18, <1>20, <1>21, <1>22, <1>23, <1>24, Zenon DEF StoreInv, ServeInv, Loaded

\* The hint of a pack that was moved or deleted goes last.
LEMMA UnlinkInv ==
  ASSUME StoreInv, Unlink
  PROVE  StoreInv'
  <1> DEFINE from == IF tierOf[vic] = 0 THEN NTiers ELSE tierOf[vic] - 1
  <1>1. /\ dpc = "unlink" /\ dpc' = "pick"
        /\ hint' = [hint EXCEPT ![from][vic] = NoFile]
        /\ UNCHANGED <<file, index, tierOf, active, state, todo, last, closed, panic, vic, log,
                       atClose>>
    BY Zenon DEF Unlink, memVars, quietVars, loadVars
  <1>2. Loaded /\ ServeInv /\ TypeInv /\ DiskInv /\ IndexPoints /\ Placed
    BY <1>1, Zenon DEF StoreInv, Loaded
  <1>3. /\ vic \in Ids /\ active \in Ids /\ vic < active /\ vic # active /\ 1 \in Tiers
        /\ tierOf[vic] \in 0..NTiers /\ tierOf[vic] # 1
    BY <1>1, <1>2, PackStoreAssumption DEF ServeInv, VictimInv, ActiveInv, TypeInv, Ids, Tiers
  <1>4. from \in Tiers /\ (tierOf[vic] # 0 => from # tierOf[vic] /\ ~(tierOf[vic] < from))
    BY <1>3, PackStoreAssumption DEF Tiers
  <1> HIDE DEF from
  <1>5. /\ hint' \in [Tiers -> [Ids -> Hints \cup {NoFile}]]
        /\ hint'[from][vic] = NoFile
        /\ \A u \in Tiers, j \in Ids : u # from \/ j # vic => hint'[u][j] = hint[u][j]
    BY <1>1, <1>2, <1>3, <1>4, Stored DEF TypeInv
  <1>6. TypeInv'
    BY <1>1, <1>2, <1>5, Zenon DEF TypeInv
  <1>7. \A u \in Tiers, id \in Ids :
          Hinted(u, id)' => Hinted(u, id) /\ hint'[u][id] = hint[u][id]
    BY <1>5, Zenon DEF Hinted
  <1>8. RecordsWritten' /\ CopiesAgree' /\ HintsAgree'
    <2>1. \A u \in Tiers, id \in Ids, i \in Nat : HasRec(u, id, i)' =>
            HasRec(u, id, i) /\ file'[u][id][i] = file[u][id][i]
      BY <1>1, Zenon DEF HasRec, Exists
    <2>2. \A u \in Tiers, id \in Ids, k \in Keys :
            Hinted(u, id)' /\ k \in DOMAIN hint'[u][id] =>
              /\ hint'[u][id][k] \in Nat
              /\ Hinted(u, id) /\ k \in DOMAIN hint[u][id] /\ hint[u][id][k] = hint'[u][id][k]
      BY <1>2, <1>7, HintsKept, Zenon
    <2> QED
      BY <1>1, <1>2, <2>1, <2>2, NothingNew DEF DiskInv
  <1>9. TornLast'
    BY <1>1, <1>2, Zenon DEF DiskInv, TornLast, Exists
  <1>10. IdsBelow(active)'
    BY <1>1, <1>2, <1>7, Zenon DEF ServeInv, ActiveInv, IdsBelow, Exists
  <1>11. Exists(1, active)'
    BY <1>1, <1>2 DEF ServeInv, ActiveInv, Placed, Exists
  <1>12. HintsOfCopies'
    BY <1>1, <1>2, <1>7, Zenon DEF DiskInv, HintsOfCopies, Exists
  <1>13. DiskInv'
    BY <1>1, <1>3, <1>8, <1>9, <1>10, <1>11, <1>12, ActiveIsTop, Zenon DEF DiskInv, Exists, IdsBelow
  <1>14. \A id \in Ids : tierOf[id] # 0 =>
           tierOf[id] \in Tiers /\ hint'[tierOf[id]][id] = hint[tierOf[id]][id]
    <2> SUFFICES ASSUME NEW id \in Ids, tierOf[id] # 0
                 PROVE  tierOf[id] \in Tiers /\ hint'[tierOf[id]][id] = hint[tierOf[id]][id]
      BY Zenon
    <2>1. tierOf[id] \in Tiers
      BY <1>2, PackStoreAssumption DEF TypeInv, Tiers
    <2> QED
      BY <2>1, <1>4, <1>5, Zenon
  <1>15. IndexPoints' /\ Placed' /\ SealedInv'
    <2>1. \A k \in Keys : index'[k] # NoLoc =>
            index'[k] = index[k] /\ tierOf'[index[k].pack] # 0
      BY <1>1, <1>2, Zenon DEF IndexPoints
    <2> QED
      BY <1>1, <1>2, <1>14, <2>1, PacksKept, Zenon DEF ServeInv
  <1>16. OnePlace'
    BY <1>1, <1>2, Zenon DEF ServeInv, OnePlace, Exists
  <1>17. OneHint'
    BY <1>1, <1>2, <1>7, <1>14 DEF ServeInv, OneHint
  <1>18. ActiveInv'
    BY <1>1, <1>2, <1>3, <1>5, <1>10, Zenon DEF ServeInv, ActiveInv, Hinted
  <1>19. VictimInv'
    BY <1>1, Zenon DEF VictimInv
  <1> QED
    BY <1>1, <1>2, <1>6, <1>13, <1>15, <1>16, <1>17, <1>18, <1>19, Zenon DEF StoreInv, ServeInv, Loaded

----------------------------------------------------------------------------
(* Puts *)

\* What seal writes: the keys the index finds in the pack, and where.
LEMMA SealedIs ==
  ASSUME NEW idx \in [Keys -> [pack : Ids, at : Nat \ {0}] \cup {NoLoc}], NEW id \in Ids,
         NEW h, h = SealedHint(id, idx)
  PROVE  /\ h \in Hints
         /\ \A k \in DOMAIN h : k \in Keys /\ idx[k] # NoLoc /\ idx[k].pack = id /\ h[k] = idx[k].at
         /\ \A k \in Keys : idx[k] # NoLoc /\ idx[k].pack = id => k \in DOMAIN h /\ h[k] = idx[k].at
  <1> DEFINE K == {x \in Keys : idx[x] # NoLoc /\ idx[x].pack = id}
  <1>1. h = [k \in K |-> idx[k].at]
    BY Zenon DEF SealedHint
  <1>2. \A k \in K : idx[k].at \in Nat \ {0}
    BY Zenon
  <1>3. h \in [K -> Nat \ {0}] /\ K \in SUBSET Keys
    BY <1>1, <1>2, Zenon
  <1> QED
    BY <1>1, <1>3, Zenon DEF Hints

\* A position of the index is that of a whole record of the key.
LEMMA IndexRecord ==
  ASSUME TypeInv, IndexPoints, NEW k \in Keys, index[k] # NoLoc
  PROVE  /\ index[k].pack \in Ids /\ index[k].at \in Nat \ {0}
         /\ tierOf[index[k].pack] \in Tiers
         /\ HasRec(tierOf[index[k].pack], index[k].pack, index[k].at)
         /\ file[tierOf[index[k].pack]][index[k].pack][index[k].at].key = k
  <1>1. index[k].pack \in Ids /\ index[k].at \in Nat \ {0}
    BY Zenon DEF TypeInv
  <1>2. tierOf[index[k].pack] \in Tiers
    BY <1>1, PackStoreAssumption DEF IndexPoints, TypeInv, Tiers
  <1>3. file[tierOf[index[k].pack]][index[k].pack] \in PackFiles
    BY <1>1, <1>2 DEF IndexPoints, TypeInv
  <1>4. Len(file[tierOf[index[k].pack]][index[k].pack]) \in Nat
    BY <1>3 DEF PackFiles
  <1> QED
    BY <1>1, <1>2, <1>4 DEF IndexPoints, HasRec, Exists

\* The active pack is in the first tier only, and so is its hint.
LEMMA ActiveAlone ==
  ASSUME StoreInv, Loaded
  PROVE  /\ TypeInv /\ DiskInv /\ IndexPoints /\ Placed /\ ServeInv
         /\ 1 \in Tiers /\ active \in Ids /\ tierOf[active] = 1
         /\ Exists(1, active) /\ file[1][active] \in PackFiles
         /\ \A t \in Tiers : Exists(t, active) => t = 1
         /\ \A t \in Tiers : Hinted(t, active) => t = 1
         /\ IdsBelow(active)
  <1>1. TypeInv /\ DiskInv /\ IndexPoints /\ Placed /\ ServeInv
    BY Zenon DEF StoreInv
  <1>2. 1 \in Tiers /\ active \in Ids /\ tierOf[active] = 1 /\ IdsBelow(active)
    BY <1>1, PackStoreAssumption DEF ServeInv, ActiveInv, Tiers
  <1>3. Exists(1, active) /\ file[1][active] \in PackFiles
    BY <1>1, <1>2 DEF Placed, Exists, TypeInv
  <1>4. \A t \in Tiers : Exists(t, active) => t = 1
    BY <1>1, <1>2, Zenon DEF ServeInv, OnePlace
  <1>5. \A t \in Tiers : Hinted(t, active) => t = 1
    <2> SUFFICES ASSUME NEW t \in Tiers, t # 1, Hinted(t, active) PROVE FALSE
      BY Zenon
    <2>1. 1 < t
      BY DEF Tiers
    <2> QED
      BY <1>1, <1>2, <2>1 DEF ServeInv, OneHint
  <1> QED
    BY <1>1, <1>2, <1>3, <1>4, <1>5, Zenon

\* seal of the active pack.
LEMMA SealDisk ==
  ASSUME StoreInv, Loaded, UNCHANGED <<file, log>>,
         hint' = [hint EXCEPT ![1][active] = SealedHint(active, index)]
  PROVE  /\ hint' \in [Tiers -> [Ids -> Hints \cup {NoFile}]]
         /\ hint'[1][active] = SealedHint(active, index)
         /\ \A u \in Tiers, j \in Ids : u # 1 \/ j # active => hint'[u][j] = hint[u][j]
         /\ DiskInv'
  <1>1. /\ TypeInv /\ DiskInv /\ IndexPoints /\ Placed /\ ServeInv
        /\ 1 \in Tiers /\ active \in Ids /\ tierOf[active] = 1 /\ Exists(1, active)
        /\ IdsBelow(active)
    BY ActiveAlone, Zenon
  <1>2. PICK h : h = SealedHint(active, index)
    BY Zenon
  <1>3. /\ h \in Hints
        /\ \A k \in DOMAIN h : k \in Keys /\ index[k] # NoLoc /\ index[k].pack = active
                               /\ h[k] = index[k].at
    BY <1>1, <1>2, SealedIs DEF TypeInv
  <1>4. /\ hint' \in [Tiers -> [Ids -> Hints \cup {NoFile}]]
        /\ hint'[1][active] = h
        /\ \A u \in Tiers, j \in Ids : u # 1 \/ j # active => hint'[u][j] = hint[u][j]
    BY <1>1, <1>2, <1>3, Stored DEF TypeInv
  <1>5. RecordsWritten' /\ CopiesAgree' /\ HintsAgree'
    <2>1. \A u \in Tiers, id \in Ids, i \in Nat : HasRec(u, id, i)' =>
            \E v \in Tiers : HasRec(v, id, i) /\ file'[u][id][i] = file[v][id][i]
      BY Zenon DEF HasRec, Exists
    <2>2. \A u \in Tiers, id \in Ids, k \in Keys :
            Hinted(u, id)' /\ k \in DOMAIN hint'[u][id] =>
              /\ hint'[u][id][k] \in Nat
              /\ \/ \E v \in Tiers : /\ Hinted(v, id) /\ k \in DOMAIN hint[v][id]
                                     /\ hint[v][id][k] = hint'[u][id][k]
                 \/ \E v \in Tiers : /\ HasRec(v, id, hint'[u][id][k])
                                     /\ file[v][id][hint'[u][id][k]].key = k
      <3> SUFFICES ASSUME NEW u \in Tiers, NEW id \in Ids, NEW k \in Keys,
                          Hinted(u, id)', k \in DOMAIN hint'[u][id]
                   PROVE  /\ hint'[u][id][k] \in Nat
                          /\ \/ \E v \in Tiers : /\ Hinted(v, id) /\ k \in DOMAIN hint[v][id]
                                                 /\ hint[v][id][k] = hint'[u][id][k]
                             \/ \E v \in Tiers : /\ HasRec(v, id, hint'[u][id][k])
                                                 /\ file[v][id][hint'[u][id][k]].key = k
        OBVIOUS
      <3>1. CASE u = 1 /\ id = active
        <4>1. k \in DOMAIN h /\ hint'[u][id][k] = index[k].at /\ index[k] # NoLoc
              /\ index[k].pack = active
          BY <3>1, <1>3, <1>4, Zenon
        <4>2. index[k].at \in Nat /\ HasRec(1, active, index[k].at)
              /\ file[1][active][index[k].at].key = k
          BY <4>1, <1>1, IndexRecord, Zenon
        <4> QED
          BY <3>1, <4>1, <4>2, <1>1, Zenon
      <3>2. CASE ~(u = 1 /\ id = active)
        <4>1. hint'[u][id] = hint[u][id]
          BY <3>2, <1>4, Zenon
        <4>2. Hinted(u, id) /\ k \in DOMAIN hint[u][id] /\ hint[u][id][k] = hint'[u][id][k]
          BY <4>1, Zenon DEF Hinted
        <4>3. hint[u][id][k] \in Nat
          BY <4>2, <1>1, HintsKept, Zenon
        <4> QED
          BY <4>2, <4>3, Zenon
      <3> QED
        BY <3>1, <3>2, Zenon
    <2>3. RecordsWritten /\ CopiesAgree /\ HintsAgree /\ log' = log
      BY <1>1, Zenon DEF DiskInv
    <2> QED
      BY <2>1, <2>2, <2>3, NothingNew, Zenon
  <1>6. TornLast'
    BY <1>1, Zenon DEF DiskInv, TornLast, Exists
  <1>7. \A u \in Tiers, id \in Ids :
          Hinted(u, id)' => Hinted(u, id) \/ (u = 1 /\ id = active)
    BY <1>4, Zenon DEF Hinted
  <1>8. PICK a \in Ids : a = active
    BY <1>1, Zenon
  <1>9. IdsBelow(a)' /\ Exists(1, a)'
    BY <1>1, <1>7, <1>8, Zenon DEF IdsBelow, Exists, Ids
  <1>10. HintsOfCopies'
    BY <1>1, <1>7, Zenon DEF DiskInv, HintsOfCopies, Exists
  <1>11. DiskInv'
    BY <1>5, <1>6, <1>9, <1>10, ActiveIsTop, Zenon DEF DiskInv
  <1> QED
    BY <1>2, <1>4, <1>11, Zenon

\* A rotation that fails leaves the active pack sealed or not.
LEMMA RotateFailsInv ==
  ASSUME StoreInv, NEW k \in Keys, RotateFails(k)
  PROVE  StoreInv'
  <1>1. /\ state = "up"
        /\ \/ UNCHANGED hint
           \/ hint' = [hint EXCEPT ![1][active] = SealedHint(active, index)]
        /\ UNCHANGED <<file, index, tierOf, active, state, todo, last, closed, panic, dpc, vic,
                       log, atClose>>
    BY Zenon DEF RotateFails, memVars, loadVars, chanVars, demoterVars
  <1>2. Loaded /\ Loaded'
    BY <1>1, Zenon DEF Loaded
  <1>3. /\ TypeInv /\ DiskInv /\ IndexPoints /\ Placed /\ ServeInv
        /\ 1 \in Tiers /\ active \in Ids /\ tierOf[active] = 1 /\ Exists(1, active)
        /\ IdsBelow(active)
    BY <1>2, ActiveAlone, Zenon
  <1>4. IndexPoints' /\ Placed'
    BY <1>1, <1>3, SameMemory, Zenon
  <1>5. CASE UNCHANGED hint
    <2>1. TypeInv' /\ DiskInv'
      BY <1>1, <1>3, <1>5, SameDisk, Zenon DEF TypeInv
    <2>2. OnePlace' /\ OneHint' /\ ActiveInv' /\ SealedInv'
      BY <1>1, <1>3, <1>5, SameService, Zenon
    <2>3. VictimInv'
      BY <1>1, <1>3, <1>5, Zenon DEF ServeInv, VictimInv, Exists, Hinted
    <2> QED
      BY <1>1, <1>2, <1>4, <2>1, <2>2, <2>3, Zenon DEF StoreInv, ServeInv, Loaded
  <1>6. CASE hint' = [hint EXCEPT ![1][active] = SealedHint(active, index)]
    <2>1. PICK h : h = SealedHint(active, index)
      BY Zenon
    <2>2. /\ hint' \in [Tiers -> [Ids -> Hints \cup {NoFile}]]
          /\ hint'[1][active] = h
          /\ \A u \in Tiers, j \in Ids : u # 1 \/ j # active => hint'[u][j] = hint[u][j]
          /\ DiskInv'
      BY <1>1, <1>2, <1>6, <2>1, SealDisk, Zenon
    <2>3. TypeInv'
      BY <1>1, <1>3, <2>2, Zenon DEF TypeInv
    <2>4. OnePlace'
      BY <1>1, <1>3, Zenon DEF ServeInv, OnePlace, Exists
    <2>5. \A id \in Ids : id # active => \A t \in Tiers : hint'[t][id] = hint[t][id]
      BY <2>2, Zenon
    <2>6. OneHint'
      <3> SUFFICES ASSUME NEW u \in Tiers, NEW id \in Ids,
                          tierOf[id] # 0, tierOf[id] < u, Hinted(u, id)'
                   PROVE  /\ u = tierOf[id] + 1
                          /\ id # active
                          /\ hint'[u][id] = hint'[tierOf[id]][id]
        BY <1>1, Zenon DEF OneHint
      <3>1. u # 1 \/ id # active
        BY <1>3
      <3>2. hint'[u][id] = hint[u][id] /\ Hinted(u, id)
        BY <2>2, <3>1, Zenon DEF Hinted
      <3>3. u = tierOf[id] + 1 /\ id # active /\ hint[u][id] = hint[tierOf[id]][id]
        BY <1>3, <3>2, Zenon DEF ServeInv, OneHint
      <3>4. tierOf[id] \in Tiers
        BY <1>3, PackStoreAssumption DEF TypeInv, Tiers
      <3> QED
        BY <3>2, <3>3, <3>4, <2>5, Zenon
    <2>7. ActiveInv'
      <3>1. \A x \in DOMAIN h : x \in Keys /\ index[x] # NoLoc /\ index[x].pack = active
                                /\ h[x] = index[x].at
        BY <1>3, <2>1, SealedIs DEF TypeInv
      <3>2. \A x \in DOMAIN h : h[x] <= Len(file[1][active])
        BY <1>3, <3>1, Zenon DEF IndexPoints
      <3>3. IdsBelow(active)'
        BY <1>1, <1>3, <2>2, Zenon DEF IdsBelow, Exists, Hinted, Ids
      <3> QED
        BY <1>1, <1>3, <2>2, <3>2, <3>3, Zenon DEF ServeInv, ActiveInv
    <2>8. SealedInv'
      <3>1. \A id \in Ids : tierOf[id] # 0 => tierOf[id] \in Tiers
        BY <1>3, PackStoreAssumption DEF TypeInv, Tiers
      <3>2. \A id \in Ids : tierOf'[id] # 0 /\ id # active' => (Hinted(tierOf[id], id))'
        BY <1>1, <1>3, <2>5, <3>1, Zenon DEF ServeInv, SealedInv, Hinted
      <3>3. \A x \in Keys : index'[x] # NoLoc /\ index'[x].pack # active' => IndexHinted(x)'
        <4> SUFFICES ASSUME NEW x \in Keys, index[x] # NoLoc, index[x].pack # active
                     PROVE  IndexHinted(x)'
          BY <1>1, Zenon
        <4>1. IndexHinted(x) /\ index[x].pack \in Ids /\ tierOf[index[x].pack] \in Tiers
          BY <1>3, IndexRecord, Zenon DEF ServeInv, SealedInv
        <4> QED
          BY <1>1, <4>1, <2>5, Zenon DEF IndexHinted, Hinted
      <3>4. \A x \in Keys, q \in Ids :
              (index'[x] # NoLoc /\ index'[x].pack < q /\ tierOf'[q] # 0 /\ q # active')
                 => ~Entry(q, x)'
        BY <1>1, <1>3, <2>5, <3>1 DEF ServeInv, SealedInv, Entry, HasRec, Exists, Hinted
      <3> QED
        BY <3>2, <3>3, <3>4, Zenon DEF SealedInv
    <2>9. VictimInv'
      <3>1. dpc \in {"pack", "hint", "switch"} => tierOf[vic] + 1 \in Tiers /\ vic # active
            /\ vic \in Ids
        BY <1>3, PackStoreAssumption DEF ServeInv, VictimInv, Tiers, Ids
      <3> QED
        BY <1>1, <1>3, <2>5, <3>1, Zenon DEF ServeInv, VictimInv, Exists, Hinted
    <2> QED
      BY <1>1, <1>2, <1>4, <2>2, <2>3, <2>4, <2>6, <2>7, <2>8, <2>9, Zenon DEF StoreInv, ServeInv, Loaded
  <1> QED
    BY <1>1, <1>5, <1>6, Zenon

\* A Put is recorded.
LEMMA LogGrows ==
  ASSUME log \in Seq(Keys), NEW k \in Keys, log' = Append(log, k)
  PROVE  /\ log' \in Seq(Keys) /\ Len(log') = Len(log) + 1
         /\ Len(log) + 1 \in 1..Len(log') /\ log'[Len(log) + 1] = k
         /\ \A v \in 1..Len(log) : v \in 1..Len(log') /\ log'[v] = log[v]
         /\ [key |-> k, ver |-> Len(log) + 1] \in Records
  <1>1. Len(log) \in Nat
    OBVIOUS
  <1> QED
    BY <1>1 DEF Records

\* A Put into the active pack.
LEMMA AppendInv ==
  ASSUME StoreInv, NEW k \in Keys, Put(k), ~Full(k)
  PROVE  StoreInv'
  <1> DEFINE r == [key |-> k, ver |-> Len(log) + 1]
             recs == file[1][active]
  <1>1. /\ state = "up"
        /\ file' = [file EXCEPT ![1][active] = Append(@, r)]
        /\ tierOf' = [tierOf EXCEPT ![active] = 1]
        /\ index' = [index EXCEPT ![k] = [pack |-> active, at |-> Len(file'[1][active])]]
        /\ active' = active
        /\ log' = Append(log, k)
        /\ panic' = (panic \/ ((Budget[1] > 0 /\ total'[1] > Budget[1]) /\ closed))
        /\ UNCHANGED <<hint, state, todo, last, closed, dpc, vic, atClose>>
    BY Zenon DEF Put, AppendRecord, NewIndex, Kick, loadVars, demoterVars
  <1>2. Loaded /\ Loaded' /\ ~panic' /\ ~closed'
    BY <1>1, Zenon DEF StoreInv, Loaded
  <1>3. /\ TypeInv /\ DiskInv /\ IndexPoints /\ Placed /\ ServeInv
        /\ 1 \in Tiers /\ active \in Ids /\ tierOf[active] = 1
        /\ Exists(1, active) /\ recs \in PackFiles
        /\ \A t \in Tiers : Exists(t, active) => t = 1
        /\ \A t \in Tiers : Hinted(t, active) => t = 1
        /\ IdsBelow(active)
    BY <1>2, ActiveAlone, Zenon
  <1>4. /\ log' \in Seq(Keys) /\ Len(log') = Len(log) + 1
        /\ Len(log) + 1 \in 1..Len(log') /\ log'[Len(log) + 1] = k
        /\ \A v \in 1..Len(log) : v \in 1..Len(log') /\ log'[v] = log[v]
        /\ r \in Records
    BY <1>1, <1>3, LogGrows, Zenon DEF TypeInv
  <1>5. r.key = k /\ r.ver = Len(log) + 1
    BY Zenon
  <1> HIDE DEF r
  <1>6. /\ Append(recs, r) \in PackFiles
        /\ Len(recs) \in Nat /\ Len(Append(recs, r)) = Len(recs) + 1
        /\ Append(recs, r)[Len(recs) + 1] = r
        /\ \A i \in 1..Len(recs) : Append(recs, r)[i] = recs[i]
    BY <1>3, <1>4 DEF PackFiles
  <1>7. file' = [file EXCEPT ![1][active] = Append(recs, r)]
    BY <1>1, Zenon
  <1> HIDE DEF recs
  <1>8. /\ file' \in [Tiers -> [Ids -> PackFiles \cup {NoFile}]]
        /\ file'[1][active] = Append(recs, r)
        /\ \A u \in Tiers, j \in Ids : u # 1 \/ j # active => file'[u][j] = file[u][j]
    BY <1>3, <1>6, <1>7, Stored DEF TypeInv
  <1>9. tierOf' = tierOf
    BY <1>1, <1>3, Zenon DEF TypeInv
  <1>10. r # Torn
    BY <1>4, Sentinels, Zenon
  <1>11. \A i \in 1..Len(recs) : recs[i] # Torn
    BY <1>3, Zenon DEF ServeInv, ActiveInv, recs
  <1>12. /\ index'[k] = [pack |-> active, at |-> Len(recs) + 1]
         /\ index' \in [Keys -> [pack : Ids, at : Nat \ {0}] \cup {NoLoc}]
         /\ \A x \in Keys : x # k => index'[x] = index[x]
    <2>1. Len(file'[1][active]) = Len(recs) + 1 /\ Len(recs) + 1 \in Nat \ {0}
      BY <1>6, <1>8
    <2> QED
      BY <1>1, <1>3, <2>1, Zenon DEF TypeInv
  <1>13. TypeInv'
    BY <1>1, <1>3, <1>4, <1>8, <1>9, <1>12, Zenon DEF TypeInv
  <1>14. \A u \in Tiers, j \in Ids : Exists(u, j)' <=> Exists(u, j)
    BY <1>3, <1>6, <1>8, Sentinels, Zenon DEF Exists
  <1>15. ASSUME NEW u \in Tiers, NEW j \in Ids, NEW i \in Nat, HasRec(u, j, i)'
         PROVE  \/ HasRec(u, j, i) /\ file'[u][j][i] = file[u][j][i]
                \/ u = 1 /\ j = active /\ i = Len(recs) + 1 /\ file'[u][j][i] = r
    <2>1. CASE u = 1 /\ j = active
      <3>1. i \in 1..Len(recs) + 1
        BY <2>1, <1>15, <1>6, <1>8, Zenon DEF HasRec
      <3>2. CASE i \in 1..Len(recs)
        BY <2>1, <3>2, <1>3, <1>6, <1>8, <1>11, Zenon DEF HasRec, recs
      <3>3. CASE i = Len(recs) + 1
        BY <2>1, <3>3, <1>6, <1>8, Zenon
      <3> QED
        BY <3>1, <3>2, <3>3, <1>6
    <2>2. CASE ~(u = 1 /\ j = active)
      BY <2>2, <1>15, <1>8, Zenon DEF HasRec, Exists
    <2> QED
      BY <2>1, <2>2, Zenon
  <1>16. RecordsWritten'
    <2> SUFFICES ASSUME NEW u \in Tiers, NEW j \in Ids, NEW i \in Nat, HasRec(u, j, i)'
                 PROVE  /\ file'[u][j][i] \in Records
                        /\ file'[u][j][i].ver \in 1..Len(log')
                        /\ log'[file'[u][j][i].ver] = file'[u][j][i].key
      BY Zenon DEF RecordsWritten
    <2>1. CASE HasRec(u, j, i) /\ file'[u][j][i] = file[u][j][i]
      BY <2>1, <1>3, <1>4 DEF DiskInv, RecordsWritten
    <2>2. CASE file'[u][j][i] = r
      BY <2>2, <1>4, <1>5, Zenon
    <2> QED
      BY <2>1, <2>2, <1>15, Zenon
  <1>17. CopiesAgree'
    <2> SUFFICES ASSUME NEW t \in Tiers, NEW u \in Tiers, NEW j \in Ids, NEW i \in Nat,
                        HasRec(t, j, i)', HasRec(u, j, i)'
                 PROVE  file'[t][j][i] = file'[u][j][i]
      BY DEF CopiesAgree
    <2>1. CASE j = active
      <3>1. t = 1 /\ u = 1
        BY <2>1, <1>3, <1>14, Zenon DEF HasRec
      <3> QED
        BY <3>1, Zenon
    <2>2. CASE j # active
      BY <2>2, <1>3, <1>15 DEF DiskInv, CopiesAgree
    <2> QED
      BY <2>1, <2>2, Zenon
  <1>18. HintsAgree'
    <2> SUFFICES ASSUME NEW t \in Tiers, NEW u \in Tiers, NEW j \in Ids, NEW x \in Keys,
                        Hinted(t, j)', x \in DOMAIN hint'[t][j], NEW n,
                        hint'[t][j][x] = n, HasRec(u, j, n)'
                 PROVE  file'[u][j][n].key = x
      BY HintsAgreeNext, Zenon
    <2>1. Hinted(t, j) /\ x \in DOMAIN hint[t][j] /\ hint[t][j][x] = n /\ n \in Nat
      BY <1>1, <1>3, HintsKept, Zenon DEF Hinted
    <2>2. CASE HasRec(u, j, n) /\ file'[u][j][n] = file[u][j][n]
      BY <2>1, <2>2, <1>3 DEF DiskInv, HintsAgree
    <2>3. CASE u = 1 /\ j = active /\ n = Len(recs) + 1
      <3>1. t = 1
        BY <2>1, <2>3, <1>3, Zenon
      <3>2. n <= Len(recs)
        BY <2>1, <2>3, <3>1, <1>3, Zenon DEF ServeInv, ActiveInv, recs
      <3> QED
        BY <2>3, <3>2, <1>6
    <2> QED
      BY <2>1, <2>2, <2>3, <1>15, Zenon
  <1>19. TornLast'
    <2> SUFFICES ASSUME NEW u \in Tiers, NEW j \in Ids, Exists(u, j)',
                        NEW i \in 1..Len(file'[u][j]), i < Len(file'[u][j])
                 PROVE  file'[u][j][i] # Torn
      BY Zenon DEF TornLast
    <2>1. CASE u = 1 /\ j = active
      <3>1. i \in 1..Len(recs)
        BY <2>1, <1>6, <1>8
      <3> QED
        BY <2>1, <3>1, <1>6, <1>8, <1>11, Zenon
    <2>2. CASE ~(u = 1 /\ j = active)
      BY <2>2, <1>3, <1>8, <1>14 DEF DiskInv, TornLast
    <2> QED
      BY <2>1, <2>2, Zenon
  <1>20. TopExists' /\ HintsOfCopies' /\ IdsBelow(active)'
    BY <1>1, <1>3, <1>14, Zenon DEF DiskInv, TopExists, IdsBelow, HintsOfCopies, Hinted
  <1>21. DiskInv'
    BY <1>16, <1>17, <1>18, <1>19, <1>20, Zenon DEF DiskInv
  <1>22. IndexPoints'
    <2> SUFFICES ASSUME NEW x \in Keys, index'[x] # NoLoc
                 PROVE  LET rs == file'[tierOf[index'[x].pack]][index'[x].pack]
                        IN  /\ tierOf[index'[x].pack] # 0
                            /\ rs # NoFile
                            /\ index'[x].at <= Len(rs)
                            /\ rs[index'[x].at] # Torn
                            /\ rs[index'[x].at].key = x
      BY <1>9, Zenon DEF IndexPoints
    <2>1. CASE x = k
      <3>1. index'[x].pack = active /\ index'[x].at = Len(recs) + 1
        BY <2>1, <1>12
      <3>2. file'[1][active] # NoFile
        BY <1>6, <1>8, Sentinels, Zenon
      <3> QED
        BY <2>1, <3>1, <3>2, <1>3, <1>5, <1>6, <1>8, <1>10
    <2>2. CASE x # k
      <3>1. index'[x] = index[x] /\ index[x] # NoLoc
        BY <2>2, <1>12, Zenon
      <3>2. /\ index[x].pack \in Ids /\ index[x].at \in Nat \ {0}
            /\ tierOf[index[x].pack] \in Tiers
            /\ HasRec(tierOf[index[x].pack], index[x].pack, index[x].at)
            /\ file[tierOf[index[x].pack]][index[x].pack][index[x].at].key = x
        BY <3>1, <1>3, IndexRecord, Zenon
      <3>3. CASE index[x].pack = active
        <4>1. tierOf[index[x].pack] = 1 /\ index[x].at \in 1..Len(recs)
          BY <3>2, <3>3, <1>3, Zenon DEF HasRec, recs
        <4>2. file'[1][active] # NoFile
          BY <1>6, <1>8, Sentinels, Zenon
        <4>3. /\ index[x].at <= Len(file'[1][active])
              /\ file'[1][active][index[x].at] = recs[index[x].at]
          BY <4>1, <1>6, <1>8
        <4> QED
          BY <3>1, <3>2, <3>3, <4>1, <4>2, <4>3, <1>3, <1>11 DEF recs
      <3>4. CASE index[x].pack # active
        <4>1. file'[tierOf[index[x].pack]][index[x].pack] = file[tierOf[index[x].pack]][index[x].pack]
          BY <3>2, <3>4, <1>8, Zenon
        <4> QED
          BY <3>1, <4>1, <1>3, Zenon DEF IndexPoints
      <3> QED
        BY <3>3, <3>4, Zenon
    <2> QED
      BY <2>1, <2>2, Zenon
  <1>23. \A id \in Ids : tierOf[id] # 0 => tierOf[id] \in Tiers
    BY <1>3, PackStoreAssumption DEF TypeInv, Tiers
  <1>24. Placed'
    BY <1>3, <1>9, <1>14, <1>23, Zenon DEF Placed, Exists
  <1>25. OnePlace'
    <2> SUFFICES ASSUME NEW t \in Tiers, NEW id \in Ids, Exists(t, id)
                 PROVE  /\ tierOf[id] # 0
                        /\ \/ t = tierOf[id]
                           \/ /\ t = tierOf[id] + 1 /\ id # active
                              /\ file'[t][id] = file'[tierOf[id]][id]
      BY <1>1, <1>9, <1>14 DEF OnePlace
    <2>1. CASE id = active
      BY <2>1, <1>3
    <2>2. CASE id # active
      <3>1. /\ tierOf[id] # 0
            /\ \/ t = tierOf[id]
               \/ t = tierOf[id] + 1 /\ file[t][id] = file[tierOf[id]][id]
        BY <1>3, Zenon DEF ServeInv, OnePlace
      <3> QED
        BY <2>2, <3>1, <1>8, <1>23, Zenon
    <2> QED
      BY <2>1, <2>2, Zenon
  <1>26. OneHint'
    BY <1>1, <1>3, <1>9, Zenon DEF ServeInv, OneHint, Hinted
  <1>27. ActiveInv'
    <2>1. \A i \in 1..Len(file'[1][active]) : file'[1][active][i] # Torn
      <3> SUFFICES ASSUME NEW i \in 1..Len(recs) + 1 PROVE Append(recs, r)[i] # Torn
        BY <1>6, <1>8, Zenon
      <3>1. i \in 1..Len(recs) \/ i = Len(recs) + 1
        BY <1>6
      <3> QED
        BY <3>1, <1>6, <1>10, <1>11, Zenon
    <2>2. Hinted(1, active) => \A x \in DOMAIN hint[1][active] :
                                 hint[1][active][x] <= Len(file'[1][active])
      <3> SUFFICES ASSUME Hinted(1, active), NEW x \in DOMAIN hint[1][active]
                   PROVE  hint[1][active][x] <= Len(recs) + 1
        BY <1>6, <1>8, Zenon
      <3>1. hint[1][active][x] <= Len(recs)
        BY <1>3, Zenon DEF ServeInv, ActiveInv, recs
      <3>2. x \in Keys
        BY <1>3 DEF Hinted, TypeInv, Hints
      <3>3. hint[1][active][x] \in Nat
        BY <1>3, <3>2, HintsKept, Zenon
      <3> QED
        BY <3>1, <3>3, <1>6
    <2> QED
      BY <1>1, <1>3, <1>9, <1>20, <2>1, <2>2, Zenon DEF ActiveInv, Hinted
  <1>28. SealedInv'
    <2>1. \A id \in Ids : tierOf'[id] # 0 /\ id # active' => (Hinted(tierOf[id], id))'
      BY <1>1, <1>3, <1>9, Zenon DEF ServeInv, SealedInv, Hinted
    <2>2. \A x \in Keys : index'[x] # NoLoc /\ index'[x].pack # active' => IndexHinted(x)'
      BY <1>1, <1>3, <1>9, <1>12, Zenon DEF ServeInv, SealedInv, IndexHinted, Hinted
    <2>3. \A x \in Keys, q \in Ids :
            (index'[x] # NoLoc /\ index'[x].pack < q /\ tierOf'[q] # 0 /\ q # active')
               => ~Entry(q, x)'
      <3> SUFFICES ASSUME NEW x \in Keys, NEW q \in Ids,
                          index'[x] # NoLoc, index'[x].pack < q, tierOf[q] # 0, q # active
                   PROVE  ~Entry(q, x)'
        BY <1>1, <1>9, Zenon
      <3>1. tierOf[q] \in Tiers /\ Exists(tierOf[q], q)
        BY <1>3, <1>23, Zenon DEF Placed
      <3>2. q <= active
        BY <1>3, <3>1, Zenon DEF IdsBelow
      <3>3. x # k
        BY <3>2, <1>3, <1>12 DEF Ids
      <3>4. ~Entry(q, x)
        BY <3>3, <1>3, <1>12, Zenon DEF ServeInv, SealedInv
      <3>5. file'[tierOf[q]][q] = file[tierOf[q]][q]
        BY <3>1, <1>8, Zenon
      <3> QED
        BY <3>4, <3>5, <1>1, <1>9, Zenon DEF Entry, HasRec, Exists, Hinted
    <2> QED
      BY <2>1, <2>2, <2>3, Zenon DEF SealedInv
  <1>29. VictimInv'
    <2>1. dpc \in {"hint", "switch"} => tierOf[vic] + 1 \in Tiers /\ vic \in Ids
      BY <1>3, PackStoreAssumption DEF ServeInv, VictimInv, Tiers
    <2> QED
      BY <1>1, <1>3, <1>9, <1>14, <2>1 DEF ServeInv, VictimInv, Hinted, Exists
  <1> QED
    BY <1>1, <1>2, <1>13, <1>21, <1>22, <1>24, <1>25, <1>26, <1>27, <1>28, <1>29, Zenon
       DEF StoreInv, ServeInv, Loaded

\* A rotation: the active pack is sealed and the next one has the records recs.
RotatedTo(recs) ==
  /\ state = "up"
  /\ NextFree
  /\ hint' = [hint EXCEPT ![1][active] = SealedHint(active, index)]
  /\ file' = [file EXCEPT ![1][active + 1] = recs]
  /\ tierOf' = [tierOf EXCEPT ![active + 1] = 1]
  /\ active' = active + 1
  /\ ~panic'
  /\ UNCHANGED <<state, todo, last, closed, dpc, vic>>

\* Its records are those of Puts, and the index may point at them.
RotationFilled(recs) ==
  /\ \A i \in 1..Len(recs) : /\ recs[i] \in Records
                             /\ recs[i].ver \in 1..Len(log')
                             /\ log'[recs[i].ver] = recs[i].key
  /\ log' \in Seq(Keys)
  /\ \A v \in 1..Len(log) : v \in 1..Len(log') /\ log'[v] = log[v]
  /\ index' \in [Keys -> [pack : Ids, at : Nat \ {0}] \cup {NoLoc}]
  /\ \A x \in Keys : index'[x] # NoLoc =>
       \/ index'[x] = index[x]
       \/ /\ index'[x].pack = active + 1
          /\ index'[x].at \in 1..Len(recs)
          /\ recs[index'[x].at].key = x

\* The new active pack is the newest and the only copy; the old one is sealed like
\* any other.
LEMMA RotatedInv ==
  ASSUME StoreInv, NEW recs \in PackFiles, RotatedTo(recs), RotationFilled(recs)
  PROVE  StoreInv'
  <1>1. Loaded /\ Loaded' /\ ~closed'
    BY Zenon DEF StoreInv, Loaded, RotatedTo
  <1>2. /\ TypeInv /\ DiskInv /\ IndexPoints /\ Placed /\ ServeInv
        /\ 1 \in Tiers /\ active \in Ids /\ tierOf[active] = 1
        /\ Exists(1, active) /\ file[1][active] \in PackFiles
        /\ \A t \in Tiers : Exists(t, active) => t = 1
        /\ \A t \in Tiers : Hinted(t, active) => t = 1
        /\ IdsBelow(active)
    BY <1>1, ActiveAlone, Zenon
  <1>3. PICK a \in Ids : /\ a = active + 1 /\ active' = a /\ a \in 0..MaxId
                         /\ a # active /\ active < a /\ ~(a <= active)
    BY <1>2, PackStoreAssumption DEF RotatedTo, NextFree, Ids
  <1>4. PICK h : h = SealedHint(active, index)
    BY Zenon
  <1>5. /\ h \in Hints
        /\ \A k \in DOMAIN h : k \in Keys /\ index[k] # NoLoc /\ index[k].pack = active
                               /\ h[k] = index[k].at
        /\ \A k \in Keys : index[k] # NoLoc /\ index[k].pack = active
                              => k \in DOMAIN h /\ h[k] = index[k].at
    <2>1. index \in [Keys -> [pack : Ids, at : Nat \ {0}] \cup {NoLoc}]
      BY <1>2, Zenon DEF TypeInv
    <2> QED
      BY <1>2, <1>4, <2>1, SealedIs
  <1>6. /\ hint' \in [Tiers -> [Ids -> Hints \cup {NoFile}]]
        /\ hint'[1][active] = h
        /\ \A u \in Tiers, j \in Ids : u # 1 \/ j # active => hint'[u][j] = hint[u][j]
    BY <1>2, <1>4, <1>5, Stored DEF TypeInv, RotatedTo
  <1>7. /\ file' \in [Tiers -> [Ids -> PackFiles \cup {NoFile}]]
        /\ file'[1][a] = recs
        /\ \A u \in Tiers, j \in Ids : u # 1 \/ j # a => file'[u][j] = file[u][j]
    BY <1>2, <1>3, Stored DEF TypeInv, RotatedTo
  <1>8. /\ tierOf' \in [Ids -> 0..NTiers] /\ tierOf'[a] = 1
        /\ \A j \in Ids : j # a => tierOf'[j] = tierOf[j]
    BY <1>2, <1>3, PackStoreAssumption, Zenon DEF TypeInv, RotatedTo
  <1>9. TypeInv'
    BY <1>2, <1>3, <1>6, <1>7, <1>8, Zenon DEF TypeInv, RotatedTo, RotationFilled
  <1>10. \A t \in Tiers : ~Exists(t, a) /\ ~Hinted(t, a)
    BY <1>2, <1>3, Zenon DEF IdsBelow
  <1>11. tierOf[a] = 0
    <2> SUFFICES ASSUME tierOf[a] # 0 PROVE FALSE
      BY Zenon
    <2>1. tierOf[a] \in Tiers
      BY <1>2, <1>3, PackStoreAssumption DEF TypeInv, Tiers
    <2> QED
      BY <1>2, <1>3, <1>10, <2>1, Zenon DEF Placed
  <1>12. \A id \in Ids : tierOf[id] # 0 => tierOf[id] \in Tiers
    BY <1>2, PackStoreAssumption DEF TypeInv, Tiers
  <1>13. recs # NoFile /\ \A i \in 1..Len(recs) : recs[i] # Torn
    BY Sentinels, Zenon DEF RotationFilled
  <1>14. \A u \in Tiers, j \in Ids : Exists(u, j)' <=> Exists(u, j) \/ (u = 1 /\ j = a)
    BY <1>7, <1>10, <1>13, Zenon DEF Exists
  <1>15. \A u \in Tiers, j \in Ids : Hinted(u, j)' <=> Hinted(u, j) \/ (u = 1 /\ j = active)
    BY <1>5, <1>6, Sentinels, Zenon DEF Hinted
  <1>16. \A u \in Tiers, j \in Ids, i \in Nat : j # a =>
           (HasRec(u, j, i)' <=> HasRec(u, j, i)) /\ file'[u][j] = file[u][j]
    BY <1>7, Zenon DEF HasRec, Exists
  <1>17. \A u \in Tiers, i \in Nat : file'[u][a] # NoFile /\ i \in 1..Len(file'[u][a])
           => u = 1 /\ i \in 1..Len(recs) /\ file'[u][a][i] = recs[i]
    BY <1>3, <1>7, <1>10, Zenon DEF Exists
  <1>18. RecordsWritten'
    <2> SUFFICES ASSUME NEW u \in Tiers, NEW j \in Ids, NEW i \in Nat, HasRec(u, j, i)'
                 PROVE  /\ file'[u][j][i] \in Records
                        /\ file'[u][j][i].ver \in 1..Len(log')
                        /\ log'[file'[u][j][i].ver] = file'[u][j][i].key
      BY Zenon DEF RecordsWritten
    <2>1. CASE j = a
      <3>1. i \in 1..Len(recs) /\ file'[u][j][i] = recs[i]
        BY <2>1, <1>17, Zenon DEF HasRec, Exists
      <3> QED
        BY <3>1, Zenon DEF RotationFilled
    <2>2. CASE j # a
      <3>1. HasRec(u, j, i) /\ file'[u][j] = file[u][j]
        BY <2>2, <1>16, Zenon
      <3> QED
        BY <3>1, <1>2 DEF DiskInv, RecordsWritten, RotationFilled
    <2> QED
      BY <2>1, <2>2, Zenon
  <1>19. CopiesAgree'
    <2> SUFFICES ASSUME NEW t \in Tiers, NEW u \in Tiers, NEW j \in Ids, NEW i \in Nat,
                        HasRec(t, j, i)', HasRec(u, j, i)'
                 PROVE  file'[t][j][i] = file'[u][j][i]
      BY DEF CopiesAgree
    <2>1. CASE j = a
      <3>1. t = 1 /\ u = 1
        BY <2>1, <1>17, Zenon DEF HasRec, Exists
      <3> QED
        BY <3>1, Zenon
    <2>2. CASE j # a
      BY <2>2, <1>2, <1>16 DEF DiskInv, CopiesAgree
    <2> QED
      BY <2>1, <2>2, Zenon
  <1>20. HintsAgree'
    <2> SUFFICES ASSUME NEW t \in Tiers, NEW u \in Tiers, NEW j \in Ids, NEW x \in Keys,
                        Hinted(t, j)', x \in DOMAIN hint'[t][j], NEW n,
                        hint'[t][j][x] = n, HasRec(u, j, n)'
                 PROVE  file'[u][j][n].key = x
      BY HintsAgreeNext, Zenon
    <2>1. j # a
      BY <1>3, <1>10, <1>15, Zenon
    <2>2. CASE t = 1 /\ j = active
      <3>1. n = index[x].at /\ index[x] # NoLoc /\ index[x].pack = active
        BY <2>2, <1>5, <1>6, Zenon
      <3>2. n \in Nat /\ file[1][active][n].key = x
        BY <3>1, <1>2, IndexRecord, Zenon
      <3>3. HasRec(u, j, n) /\ file'[u][j] = file[u][j]
        BY <2>1, <3>2, <1>16, Zenon
      <3>4. u = 1
        BY <2>2, <3>3, <1>2, Zenon DEF HasRec
      <3> QED
        BY <2>2, <3>2, <3>3, <3>4, Zenon
    <2>3. CASE ~(t = 1 /\ j = active)
      <3>1. Hinted(t, j) /\ hint'[t][j] = hint[t][j]
        BY <2>3, <1>6, <1>15, Zenon
      <3>2. n \in Nat
        BY <3>1, <1>2, HintsKept, Zenon
      <3>3. HasRec(u, j, n) /\ file'[u][j] = file[u][j]
        BY <2>1, <3>2, <1>16, Zenon
      <3> QED
        BY <3>1, <3>3, <1>2, Zenon DEF DiskInv, HintsAgree
    <2> QED
      BY <2>2, <2>3, Zenon
  <1>21. TornLast'
    <2> SUFFICES ASSUME NEW u \in Tiers, NEW j \in Ids, Exists(u, j)',
                        NEW i \in 1..Len(file'[u][j]), i < Len(file'[u][j])
                 PROVE  file'[u][j][i] # Torn
      BY Zenon DEF TornLast
    <2>1. CASE j = a
      BY <2>1, <1>13, <1>17 DEF Exists
    <2>2. CASE j # a
      BY <2>2, <1>2, <1>7, <1>14 DEF DiskInv, TornLast
    <2> QED
      BY <2>1, <2>2, Zenon
  <1>22. IdsBelow(a)'
    <2>1. \A t \in Tiers, id \in Ids : Exists(t, id)' \/ Hinted(t, id)' => id <= a
      BY <1>2, <1>3, <1>14, <1>15 DEF IdsBelow, Ids
    <2> QED
      BY <2>1, Zenon DEF IdsBelow
  <1>23. Exists(1, a)'
    BY <1>7, <1>13, Zenon DEF Exists
  <1>24. HintsOfCopies'
    <2> SUFFICES ASSUME NEW u \in Tiers, NEW v \in Tiers, NEW id \in Ids,
                        u < v, Exists(u, id)', Hinted(v, id)'
                 PROVE  Exists(v, id)'
      BY Zenon DEF HintsOfCopies
    <2>1. v # 1
      BY DEF Tiers
    <2>2. Hinted(v, id) /\ id # a
      BY <2>1, <1>10, <1>15, Zenon
    <2>3. Exists(u, id)
      BY <2>2, <1>14, Zenon
    <2> QED
      BY <2>2, <2>3, <1>2, <1>14, Zenon DEF DiskInv, HintsOfCopies
  <1>25. DiskInv'
    BY <1>18, <1>19, <1>20, <1>21, <1>22, <1>23, <1>24, ActiveIsTop, Zenon DEF DiskInv
  <1>26. ASSUME NEW x \in Keys, index'[x] # NoLoc, index'[x].pack # a
         PROVE  /\ index'[x] = index[x]
                /\ index[x].pack \in Ids /\ index[x].at \in Nat \ {0}
                /\ tierOf[index[x].pack] \in Tiers
                /\ tierOf'[index[x].pack] = tierOf[index[x].pack]
                /\ file'[tierOf[index[x].pack]][index[x].pack]
                     = file[tierOf[index[x].pack]][index[x].pack]
    <2>1. index'[x] = index[x]
      BY <1>3, <1>26, Zenon DEF RotationFilled
    <2>2. index[x].pack \in Ids /\ index[x].at \in Nat \ {0} /\ tierOf[index[x].pack] \in Tiers
      BY <2>1, <1>26, <1>2, IndexRecord, Zenon
    <2> QED
      BY <2>1, <2>2, <1>26, <1>7, <1>8, Zenon
  <1>27. \A x \in Keys : index[x] # NoLoc => index[x].pack \in Ids /\ index[x].pack # a
    BY <1>2, <1>11 DEF IndexPoints, TypeInv
  <1>28. IndexPoints'
    <2> SUFFICES ASSUME NEW x \in Keys, index'[x] # NoLoc
                 PROVE  LET rs == file'[tierOf'[index'[x].pack]][index'[x].pack]
                        IN  /\ tierOf'[index'[x].pack] # 0
                            /\ rs # NoFile
                            /\ index'[x].at <= Len(rs)
                            /\ rs[index'[x].at] # Torn
                            /\ rs[index'[x].at].key = x
      BY Zenon DEF IndexPoints
    <2>0. index'[x].pack \in Ids
      BY Zenon DEF RotationFilled
    <2>1. CASE index'[x].pack = a
      <3>1. /\ index'[x].at \in 1..Len(recs) /\ recs[index'[x].at].key = x
        BY <2>1, <1>3, <1>27, Zenon DEF RotationFilled
      <3>2. index'[x].at <= Len(recs)
        BY <3>1 DEF PackFiles
      <3> QED
        BY <2>1, <3>1, <3>2, <1>7, <1>8, <1>13
    <2>2. CASE index'[x].pack # a
      <3>1. PICK p \in Ids : index'[x].pack = p
        BY <2>0, Zenon
      <3>2. /\ index'[x] = index[x] /\ index[x] # NoLoc /\ index[x].pack = p
            /\ tierOf'[p] = tierOf[p] /\ file'[tierOf[p]][p] = file[tierOf[p]][p]
        BY <2>2, <3>1, <1>26, Zenon
      <3>3. /\ tierOf[p] # 0 /\ file[tierOf[p]][p] # NoFile
            /\ index[x].at <= Len(file[tierOf[p]][p])
            /\ file[tierOf[p]][p][index[x].at] # Torn
            /\ file[tierOf[p]][p][index[x].at].key = x
        BY <3>2, <1>2, Zenon DEF IndexPoints
      <3> QED
        BY <3>1, <3>2, <3>3, Zenon
    <2> QED
      BY <2>1, <2>2, Zenon
  <1>29. \A id \in Ids : tierOf'[id] # 0 => tierOf'[id] \in Tiers
    BY <1>8, PackStoreAssumption DEF Tiers
  <1>30. Placed'
    <2> SUFFICES ASSUME NEW id \in Ids, tierOf'[id] # 0
                 PROVE  file'[tierOf'[id]][id] # NoFile
      BY Zenon DEF Placed, Exists
    <2>1. CASE id = a
      BY <2>1, <1>7, <1>8, <1>13, Zenon
    <2>2. CASE id # a
      BY <2>2, <1>2, <1>7, <1>8, <1>12 DEF Placed, Exists
    <2> QED
      BY <2>1, <2>2, Zenon
  <1>31. OnePlace'
    <2> SUFFICES ASSUME NEW t \in Tiers, NEW id \in Ids, Exists(t, id)'
                 PROVE  /\ tierOf'[id] # 0
                        /\ \/ t = tierOf'[id]
                           \/ /\ t = tierOf'[id] + 1 /\ id # a
                              /\ file'[t][id] = file'[tierOf'[id]][id]
      BY <1>3, Zenon DEF OnePlace
    <2>1. CASE id = a
      BY <2>1, <1>8, <1>10, <1>14
    <2>2. CASE id # a
      <3>1. Exists(t, id) /\ tierOf'[id] = tierOf[id]
        BY <2>2, <1>8, <1>14, Zenon
      <3>2. /\ tierOf[id] # 0
            /\ t = tierOf[id] \/ (t = tierOf[id] + 1 /\ file[t][id] = file[tierOf[id]][id])
        BY <3>1, <1>2, Zenon DEF ServeInv, OnePlace
      <3>3. file'[t][id] = file[t][id] /\ file'[tierOf[id]][id] = file[tierOf[id]][id]
        BY <2>2, <3>2, <1>7, <1>12, Zenon
      <3> QED
        BY <2>2, <3>1, <3>2, <3>3, Zenon
    <2> QED
      BY <2>1, <2>2, Zenon
  <1>32. OneHint'
    <2> SUFFICES ASSUME NEW u \in Tiers, NEW id \in Ids,
                        tierOf'[id] # 0, tierOf'[id] < u, Hinted(u, id)'
                 PROVE  /\ u = tierOf'[id] + 1
                        /\ id # a
                        /\ hint'[u][id] = hint'[tierOf'[id]][id]
      BY <1>3, Zenon DEF OneHint
    <2>1. tierOf'[id] \in Tiers
      BY <1>29, Zenon
    <2>2. u # 1
      BY <2>1 DEF Tiers
    <2>3. Hinted(u, id) /\ id # a /\ id # active
      BY <2>2, <1>2, <1>10, <1>15, Zenon
    <2>4. tierOf'[id] = tierOf[id]
      BY <2>3, <1>8, Zenon
    <2>5. hint'[u][id] = hint[u][id] /\ hint'[tierOf[id]][id] = hint[tierOf[id]][id]
      BY <2>1, <2>3, <2>4, <1>6, Zenon
    <2> QED
      BY <2>3, <2>4, <2>5, <1>2, Zenon DEF ServeInv, OneHint
  <1>33. ActiveInv'
    <2>1. hint'[1][a] = NoFile
      BY <1>2, <1>3, <1>6, <1>10, Zenon DEF Hinted
    <2> QED
      BY <1>3, <1>7, <1>8, <1>13, <1>22, <2>1, Zenon DEF ActiveInv, Hinted, IdsBelow, Exists
  <1>34. SealedInv'
    <2>1. \A id \in Ids : tierOf'[id] # 0 /\ id # active' => (Hinted(tierOf[id], id))'
      <3> SUFFICES ASSUME NEW id \in Ids, tierOf'[id] # 0, id # a
                   PROVE  hint'[tierOf'[id]][id] # NoFile
        BY <1>3, Zenon DEF Hinted
      <3>1. tierOf'[id] = tierOf[id] /\ tierOf[id] \in Tiers
        BY <1>8, <1>12, Zenon
      <3>2. id # active => Hinted(tierOf[id], id)
        BY <3>1, <1>2, Zenon DEF ServeInv, SealedInv
      <3> QED
        BY <3>1, <3>2, <1>2, <1>5, <1>6, Sentinels DEF Hinted
    <2>2. \A x \in Keys : index'[x] # NoLoc /\ index'[x].pack # active' => IndexHinted(x)'
      <3> SUFFICES ASSUME NEW x \in Keys, index'[x] # NoLoc, index'[x].pack # a
                   PROVE  IndexHinted(x)'
        BY <1>3, Zenon
      <3>1. PICK p \in Ids : /\ index'[x].pack = p /\ index[x].pack = p /\ index'[x] = index[x]
                             /\ tierOf'[p] = tierOf[p] /\ tierOf[p] \in Tiers
        BY <1>26, Zenon
      <3>2. CASE p = active
        <4>1. x \in DOMAIN h /\ h[x] = index[x].at
          BY <3>1, <3>2, <1>5, Zenon
        <4>2. hint'[tierOf'[p]][p] = h /\ h # NoFile
          BY <3>1, <3>2, <1>2, <1>5, <1>6, Sentinels, Zenon
        <4> QED
          BY <3>1, <4>1, <4>2, Zenon DEF IndexHinted, Hinted
      <3>3. CASE p # active
        <4>1. IndexHinted(x)
          BY <3>1, <3>3, <1>2, Zenon DEF ServeInv, SealedInv
        <4>2. hint'[tierOf'[p]][p] = hint[tierOf[p]][p]
          BY <3>1, <3>3, <1>6, Zenon
        <4> QED
          BY <3>1, <4>1, <4>2, Zenon DEF IndexHinted, Hinted
      <3> QED
        BY <3>2, <3>3, Zenon
    <2>3. \A x \in Keys, q \in Ids :
            (index'[x] # NoLoc /\ index'[x].pack < q /\ tierOf'[q] # 0 /\ q # active')
               => ~Entry(q, x)'
      <3> SUFFICES ASSUME NEW x \in Keys, NEW q \in Ids,
                          index'[x] # NoLoc, index'[x].pack < q, tierOf'[q] # 0, q # a
                   PROVE  ~Entry(q, x)'
        BY <1>3, Zenon
      <3>1. tierOf'[q] = tierOf[q] /\ tierOf[q] \in Tiers /\ tierOf[q] # 0 /\ Exists(tierOf[q], q)
        BY <1>2, <1>8, <1>12, Zenon DEF Placed
      <3>2. q <= active
        BY <3>1, <1>2, Zenon DEF IdsBelow
      <3>3. index'[x].pack # a
        BY <3>2, <1>2, <1>3 DEF Ids
      <3>4. index'[x] = index[x] /\ index[x].pack \in Ids
        BY <3>3, <1>26, Zenon
      <3>5. CASE q = active
        <4>1. index[x].pack # active
          BY <3>4, <3>5 DEF Ids
        <4>2. hint'[tierOf'[q]][q] = h /\ x \notin DOMAIN h
          BY <3>1, <3>5, <4>1, <1>2, <1>5, <1>6, Zenon
        <4> QED
          BY <4>2, Zenon DEF Entry
      <3>6. CASE q # active
        <4>1. ~Entry(q, x)
          BY <3>1, <3>4, <3>6, <1>2, Zenon DEF ServeInv, SealedInv
        <4>2. /\ hint'[tierOf'[q]][q] = hint[tierOf[q]][q]
              /\ file'[tierOf'[q]][q] = file[tierOf[q]][q]
          BY <3>1, <3>6, <1>6, <1>7
        <4> QED
          BY <4>1, <4>2, Zenon DEF Entry, Hinted, HasRec, Exists
      <3> QED
        BY <3>5, <3>6, Zenon
    <2> QED
      BY <2>1, <2>2, <2>3, Zenon DEF SealedInv
  <1>35. VictimInv'
    <2>1. dpc' = dpc /\ vic' = vic
      BY Zenon DEF RotatedTo
    <2>2. CASE dpc \in {"pack", "hint", "switch", "evict", "unlink"}
      <3>0. vic \in Ids /\ vic < active
        BY <2>2, <1>2, Zenon DEF ServeInv, VictimInv
      <3>1. vic # active /\ vic # a /\ vic < a
        BY <3>0, <1>2, <1>3 DEF Ids
      <3>2. tierOf'[vic] = tierOf[vic]
        BY <3>0, <3>1, <1>8, Zenon
      <3>3. ASSUME dpc \in {"pack", "hint", "switch"}
            PROVE  tierOf[vic] + 1 \in Tiers
        <4>1. tierOf[vic] \in 1..NTiers - 1
          BY <3>3, <1>2, Zenon DEF ServeInv, VictimInv
        <4> QED
          BY <4>1, PackStoreAssumption DEF Tiers
      <3>4. dpc \in {"pack", "hint", "switch"} =>
               /\ file'[tierOf[vic] + 1][vic] = file[tierOf[vic] + 1][vic]
               /\ hint'[tierOf[vic] + 1][vic] = hint[tierOf[vic] + 1][vic]
        BY <3>0, <3>1, <3>3, <1>6, <1>7, Zenon
      <3> QED
        BY <2>1, <3>0, <3>1, <3>2, <3>4, <1>2, <1>3, Zenon DEF ServeInv, VictimInv, Exists, Hinted
    <2>3. CASE dpc \notin {"pack", "hint", "switch", "evict", "unlink"}
      BY <2>1, <2>3, Zenon DEF VictimInv
    <2> QED
      BY <2>2, <2>3, Zenon
  <1>36. ~panic' /\ todo' = {} /\ dpc' # "none" /\ state' = "up"
    BY <1>1, Zenon DEF StoreInv, RotatedTo
  <1> QED
    BY <1>1, <1>9, <1>25, <1>28, <1>30, <1>31, <1>32, <1>33, <1>34, <1>35, <1>36, Zenon
       DEF StoreInv, ServeInv

\* Put and its failing after the rotation.
LEMMA WriteInv ==
  ASSUME StoreInv, NEW k \in Keys, Write(k)
  PROVE  StoreInv'
  <1>1. CASE Put(k) /\ ~Full(k)
    BY <1>1, AppendInv, Zenon
  <1>2. CASE RotateFails(k)
    BY <1>2, RotateFailsInv, Zenon
  <1>3. CASE Put(k) /\ Full(k)
    <2> DEFINE r == [key |-> k, ver |-> Len(log) + 1]
    <2>1. /\ state = "up" /\ NextFree
          /\ hint' = [hint EXCEPT ![1][active] = SealedHint(active, index)]
          /\ file' = [file EXCEPT ![1][active + 1] = Append(<<>>, r)]
          /\ tierOf' = [tierOf EXCEPT ![active + 1] = 1]
          /\ index' = [index EXCEPT ![k] = [pack |-> active + 1, at |-> Len(file'[1][active + 1])]]
          /\ active' = active + 1
          /\ log' = Append(log, k)
          /\ panic' = (panic \/ ((Budget[1] > 0 /\ total'[1] > Budget[1]) /\ closed))
          /\ UNCHANGED <<state, todo, last, closed, dpc, vic>>
      BY <1>3, Zenon DEF Put, AppendRecord, NewIndex, Kick, loadVars, demoterVars
    <2>2. TypeInv /\ Loaded /\ ~panic'
      BY <2>1, Zenon DEF StoreInv, Loaded
    <2>3. /\ log' \in Seq(Keys) /\ Len(log') = Len(log) + 1
          /\ Len(log) + 1 \in 1..Len(log') /\ log'[Len(log) + 1] = k
          /\ \A v \in 1..Len(log) : v \in 1..Len(log') /\ log'[v] = log[v]
          /\ r \in Records
      BY <2>1, <2>2, LogGrows, Zenon DEF TypeInv
    <2>4. r.key = k /\ r.ver = Len(log) + 1
      BY Zenon
    <2> HIDE DEF r
    <2>5. PICK recs : recs = Append(<<>>, r)
      BY Zenon
    <2>6. recs \in PackFiles /\ Len(recs) = 1 /\ recs[1] = r
      BY <2>3, <2>5 DEF PackFiles
    <2>7. RotatedTo(recs)
      BY <2>1, <2>2, <2>5, Zenon DEF RotatedTo
    <2>8. active + 1 \in Ids /\ 1 \in Tiers
      BY <2>1, <2>2, ActiveAlone, PackStoreAssumption DEF NextFree, Ids, Tiers
    <2>9. file'[1][active + 1] = recs
      BY <2>1, <2>2, <2>5, <2>8, Zenon DEF TypeInv
    <2>10. /\ index'[k] = [pack |-> active + 1, at |-> 1]
           /\ \A x \in Keys : x # k => index'[x] = index[x]
           /\ index' \in [Keys -> [pack : Ids, at : Nat \ {0}] \cup {NoLoc}]
      BY <2>1, <2>2, <2>6, <2>8, <2>9 DEF TypeInv
    <2>11. RotationFilled(recs)
      <3>1. \A i \in 1..Len(recs) : i = 1
        BY <2>6
      <3>2. \A x \in Keys : index'[x] # NoLoc =>
              \/ index'[x] = index[x]
              \/ /\ index'[x].pack = active + 1
                 /\ index'[x].at \in 1..Len(recs)
                 /\ recs[index'[x].at].key = x
        BY <2>4, <2>6, <2>10
      <3> QED
        BY <2>3, <2>4, <2>6, <2>10, <3>1, <3>2 DEF RotationFilled
    <2> QED
      BY <2>6, <2>7, <2>11, RotatedInv, Zenon
  <1>4. CASE WriteFails(k)
    <2>1. <<>> \in PackFiles /\ Len(<<>>) = 0
      BY DEF PackFiles
    <2>2. RotatedTo(<<>>) /\ UNCHANGED <<index, log>>
      BY <1>4, Zenon DEF WriteFails, RotatedTo, loadVars, chanVars, demoterVars, StoreInv
    <2>3. RotationFilled(<<>>)
      BY <2>1, <2>2 DEF RotationFilled, StoreInv, TypeInv
    <2> QED
      BY <2>1, <2>2, <2>3, RotatedInv, Zenon
  <1> QED
    BY <1>1, <1>2, <1>3, <1>4, Zenon DEF Write


----------------------------------------------------------------------------
(* OpenStore *)

\* The first records of a pack.
LEMMA Prefix ==
  ASSUME NEW S, NEW s \in Seq(S), NEW n \in 0..Len(s), NEW w, w = SubSeq(s, 1, n)
  PROVE  w \in Seq(S) /\ Len(w) = n /\ \A i \in 1..n : w[i] = s[i]
  OBVIOUS

\* What Truncate leaves are the whole records.
LEMMA WholeIs ==
  ASSUME NEW recs \in PackFiles, NEW w, w = Whole(recs),
         \A i \in 1..Len(recs) : i < Len(recs) => recs[i] # Torn
  PROVE  /\ w \in PackFiles
         /\ \A i \in 1..Len(w) : i \in 1..Len(recs) /\ w[i] = recs[i] /\ w[i] # Torn
         /\ \A i \in 1..Len(recs) : recs[i] # Torn => i \in 1..Len(w) /\ w[i] = recs[i]
  <1>1. CASE recs # <<>> /\ recs[Len(recs)] = Torn
    <2>1. Len(recs) \in Nat \ {0}
      BY <1>1 DEF PackFiles
    <2>2. w = SubSeq(recs, 1, Len(recs) - 1)
      BY <1>1, Zenon DEF Whole
    <2>3. w \in PackFiles /\ Len(w) = Len(recs) - 1
          /\ \A i \in 1..Len(recs) - 1 : w[i] = recs[i]
      <3>1. PICK n \in 0..Len(recs) : n = Len(recs) - 1
        <4>1. Len(recs) - 1 \in 0..Len(recs)
          BY <2>1
        <4> QED
          BY <4>1, Zenon
      <3>2. w = SubSeq(recs, 1, n)
        BY <2>2, <3>1, Zenon
      <3>3. w \in PackFiles /\ Len(w) = n /\ \A i \in 1..n : w[i] = recs[i]
        BY <3>2, Prefix DEF PackFiles
      <3> QED
        BY <3>1, <3>3, Zenon
    <2> QED
      BY <1>1, <2>1, <2>3
  <1>2. CASE recs = <<>>
    BY <1>2 DEF Whole
  <1>3. CASE recs # <<>> /\ recs[Len(recs)] # Torn
    <2>1. Len(recs) \in Nat \ {0} /\ w = recs
      BY <1>3 DEF PackFiles, Whole
    <2>2. \A i \in 1..Len(recs) : recs[i] # Torn
      BY <1>3, <2>1
    <2> QED
      BY <2>1, <2>2, Zenon
  <1> QED
    BY <1>1, <1>2, <1>3, Zenon

\* A scan finds whole records of its keys.
LEMMA ScanIs ==
  ASSUME NEW recs \in PackFiles, NEW e, e = ScanEntries(recs)
  PROVE  /\ DOMAIN e \in SUBSET Keys
         /\ \A k \in DOMAIN e : /\ e[k] \in 1..Len(recs)
                                /\ recs[e[k]] # Torn /\ recs[e[k]].key = k
  <1> DEFINE K == {recs[n].key : n \in LastOf(recs)}
             At(k) == CHOOSE n \in LastOf(recs) : recs[n].key = k
  <1>1. e = [k \in K |-> At(k)]
    BY Zenon DEF ScanEntries
  <1>2. \A n \in LastOf(recs) : n \in 1..Len(recs) /\ recs[n] # Torn /\ recs[n].key \in Keys
    BY DEF LastOf, PackFiles, Records
  <1>3. ASSUME NEW k \in K PROVE At(k) \in LastOf(recs) /\ recs[At(k)].key = k
    <2>1. \E n \in LastOf(recs) : recs[n].key = k
      BY Zenon
    <2> QED
      BY <2>1, Zenon
  <1>4. K \in SUBSET Keys
    BY <1>2, Zenon
  <1> HIDE DEF K, At
  <1> QED
    BY <1>1, <1>2, <1>3, <1>4

\* A hint lists entries whose records are there.
LEMMA HintIs ==
  ASSUME TypeInv, NEW t \in Tiers, NEW id \in Ids, Exists(t, id), Hinted(t, id),
         NEW e, e = HintEntries(t, id)
  PROVE  /\ DOMAIN e \in SUBSET Keys
         /\ \A k \in DOMAIN e : /\ k \in DOMAIN hint[t][id] /\ e[k] = hint[t][id][k]
                                /\ e[k] \in Nat \ {0} /\ HasRec(t, id, e[k])
         /\ \A k \in DOMAIN hint[t][id] : HasRec(t, id, hint[t][id][k]) => k \in DOMAIN e
  <1>1. hint[t][id] \in Hints /\ file[t][id] \in PackFiles
    BY DEF TypeInv, Hinted, Exists
  <1>2. DOMAIN hint[t][id] \in SUBSET Keys
    BY <1>1, Zenon DEF Hints
  <1>3. \A k \in DOMAIN hint[t][id] : hint[t][id][k] \in Nat \ {0}
    BY <1>1, Zenon DEF Hints
  <1>4. Len(file[t][id]) \in Nat
    BY <1>1 DEF PackFiles
  <1> DEFINE K == {k \in DOMAIN hint[t][id] : /\ hint[t][id][k] <= Len(file[t][id])
                                              /\ file[t][id][hint[t][id][k]] # Torn}
  <1>5. e = [k \in K |-> hint[t][id][k]]
    BY Zenon DEF HintEntries
  <1>6. \A k \in DOMAIN hint[t][id] : k \in K <=> HasRec(t, id, hint[t][id][k])
    BY <1>3, <1>4 DEF HasRec
  <1>7. K \subseteq DOMAIN hint[t][id]
    BY Zenon
  <1> HIDE DEF K
  <1> QED
    BY <1>2, <1>3, <1>5, <1>6, <1>7, Zenon

\* add, for all entries of a pack.
LEMMA AddedIs ==
  ASSUME index \in [Keys -> [pack : Ids, at : Nat \ {0}] \cup {NoLoc}], NEW id \in Ids,
         NEW e, DOMAIN e \in SUBSET Keys, \A k \in DOMAIN e : e[k] \in Nat \ {0},
         NEW g, g = AddedIndex(id, e)
  PROVE  /\ g \in [Keys -> [pack : Ids, at : Nat \ {0}] \cup {NoLoc}]
         /\ \A k \in Keys :
              \/ /\ k \in DOMAIN e /\ (index[k] = NoLoc \/ index[k].pack <= id)
                 /\ g[k] = [pack |-> id, at |-> e[k]]
              \/ /\ g[k] = index[k]
                 /\ k \in DOMAIN e => index[k] # NoLoc /\ index[k].pack > id
  <1>1. \A k \in Keys : g[k] = IF k \in Adds(id, e) THEN [pack |-> id, at |-> e[k]] ELSE index[k]
    BY Zenon DEF AddedIndex
  <1>2. \A k \in Keys : k \in Adds(id, e) <=>
          k \in DOMAIN e /\ (index[k] = NoLoc \/ index[k].pack <= id)
    BY Zenon DEF Adds
  <1>3. g \in [Keys -> [pack : Ids, at : Nat \ {0}] \cup {NoLoc}]
    BY <1>2, Zenon DEF AddedIndex
  <1>4. \A k \in Keys : index[k] # NoLoc /\ ~(index[k].pack <= id) => index[k].pack > id
    BY DEF Ids
  <1> QED
    BY <1>1, <1>2, <1>3, <1>4, Zenon

\* The pack that is loaded next.
LEMMA LoadingNext ==
  ASSUME StoreInv, NEW t \in Tiers, NEW id \in Ids, IsNext(t, id)
  PROVE  /\ state = "loading" /\ ~Loaded /\ active = 0 /\ dpc = "none" /\ ~closed /\ ~panic
         /\ TypeInv /\ DiskInv /\ IndexPoints /\ Placed /\ LoadInv /\ CloseInv
         /\ <<t, id>> \in todo /\ Exists(t, id) /\ file[t][id] \in PackFiles
         /\ \A u \in Tiers : u # t /\ <<u, id>> \in todo => t < u
         /\ tierOf[id] = 0 => FirstCopy(t, id)
  <1>1. state = "loading" /\ <<t, id>> \in todo
    BY Zenon DEF StoreInv, IsNext
  <1>2. /\ ~Loaded /\ active = 0 /\ dpc = "none" /\ ~closed /\ ~panic
        /\ TypeInv /\ DiskInv /\ IndexPoints /\ Placed /\ LoadInv /\ CloseInv
    BY <1>1, Zenon DEF StoreInv, Loaded
  <1>3. Exists(t, id)
    BY <1>1, <1>2, Zenon DEF LoadInv
  <1>4. file[t][id] \in PackFiles
    BY <1>2, <1>3 DEF TypeInv, Exists
  <1>5. \A u \in Tiers : u # t /\ <<u, id>> \in todo => t < u
    BY Zenon DEF IsNext
  <1>6. tierOf[id] = 0 => FirstCopy(t, id)
    <2> SUFFICES ASSUME tierOf[id] = 0, NEW u \in Tiers, u < t, Exists(u, id) PROVE FALSE
      BY <1>3, Zenon DEF FirstCopy
    <2>1. u # 0 /\ u # t /\ ~(t < u)
      BY DEF Tiers
    <2>2. <<u, id>> \in todo
      BY <2>1, <1>2, Zenon DEF LoadInv
    <2> QED
      BY <2>1, <2>2, <1>5, Zenon
  <1> QED
    BY <1>1, <1>2, <1>3, <1>4, <1>5, <1>6, Zenon

\* A pack in two tiers keeps the fast copy.
LEMMA RemoveDupInv ==
  ASSUME StoreInv, NEW t \in Tiers, NEW id \in Ids, RemoveDup(t, id)
  PROVE  StoreInv'
  <1>1. /\ IsNext(t, id) /\ tierOf[id] # 0
        /\ file' = [file EXCEPT ![t][id] = NoFile]
        /\ hint' = [hint EXCEPT ![t][id] = NoFile]
        /\ todo' = todo \ {<<t, id>>}
        /\ UNCHANGED <<index, tierOf, active, state, last, closed, panic, dpc, vic, log, atClose>>
    BY Zenon DEF RemoveDup, memVars, chanVars, demoterVars
  <1>2. /\ state = "loading" /\ ~Loaded /\ active = 0 /\ dpc = "none" /\ ~closed /\ ~panic
        /\ TypeInv /\ DiskInv /\ IndexPoints /\ Placed /\ LoadInv /\ CloseInv
        /\ <<t, id>> \in todo /\ Exists(t, id)
    BY <1>1, LoadingNext, Zenon
  <1>3. /\ tierOf[id] < t /\ tierOf[id] # t /\ tierOf[id] \in Tiers /\ Exists(tierOf[id], id)
    BY <1>1, <1>2, PackStoreAssumption DEF LoadInv, Placed, TypeInv, Tiers
  <1>4. /\ file' \in [Tiers -> [Ids -> PackFiles \cup {NoFile}]]
        /\ file'[t][id] = NoFile
        /\ \A u \in Tiers, j \in Ids : u # t \/ j # id => file'[u][j] = file[u][j]
    BY <1>1, <1>2, Stored DEF TypeInv
  <1>5. /\ hint' \in [Tiers -> [Ids -> Hints \cup {NoFile}]]
        /\ hint'[t][id] = NoFile
        /\ \A u \in Tiers, j \in Ids : u # t \/ j # id => hint'[u][j] = hint[u][j]
    BY <1>1, <1>2, Stored DEF TypeInv
  <1>6. TypeInv'
    BY <1>1, <1>2, <1>4, <1>5, Zenon DEF TypeInv
  <1>7. \A u \in Tiers, j \in Ids : Exists(u, j)' =>
          Exists(u, j) /\ file'[u][j] = file[u][j] /\ (u # t \/ j # id)
    BY <1>4, Zenon DEF Exists
  <1>8. \A u \in Tiers, j \in Ids : Hinted(u, j)' =>
          Hinted(u, j) /\ hint'[u][j] = hint[u][j] /\ (u # t \/ j # id)
    BY <1>5, Zenon DEF Hinted
  <1>9. RecordsWritten' /\ CopiesAgree' /\ HintsAgree'
    <2>1. \A u \in Tiers, j \in Ids, i \in Nat : HasRec(u, j, i)' =>
            HasRec(u, j, i) /\ file'[u][j][i] = file[u][j][i]
      BY <1>7, Zenon DEF HasRec
    <2>2. \A u \in Tiers, j \in Ids, k \in Keys :
            Hinted(u, j)' /\ k \in DOMAIN hint'[u][j] =>
              /\ hint'[u][j][k] \in Nat
              /\ Hinted(u, j) /\ k \in DOMAIN hint[u][j] /\ hint[u][j][k] = hint'[u][j][k]
      BY <1>2, <1>8, HintsKept, Zenon
    <2> QED
      BY <1>1, <1>2, <2>1, <2>2, NothingNew, Zenon DEF DiskInv
  <1>10. TornLast'
    BY <1>2, <1>7 DEF DiskInv, TornLast
  <1>11. TopExists'
    <2> SUFFICES ASSUME NEW u \in Tiers, NEW j \in Ids, Exists(u, j)' \/ Hinted(u, j)'
                 PROVE  \E v \in Tiers, top \in Ids : Exists(v, top)' /\ IdsBelow(top)'
      BY Zenon DEF TopExists
    <2>1. PICK v \in Tiers, top \in Ids : Exists(v, top) /\ IdsBelow(top)
      BY <1>2, <1>7, <1>8, Zenon DEF DiskInv, TopExists
    <2>2. IdsBelow(top)'
      BY <2>1, <1>7, <1>8, Zenon DEF IdsBelow
    <2>3. CASE v = t /\ top = id
      <3>1. Exists(tierOf[id], id)'
        BY <1>1, <1>3, <1>4, Zenon DEF Exists
      <3> QED
        BY <2>2, <2>3, <3>1, <1>1, <1>3, Zenon DEF Exists
    <2>4. CASE ~(v = t /\ top = id)
      BY <2>1, <2>2, <2>4, <1>4, Zenon DEF Exists
    <2> QED
      BY <2>3, <2>4, Zenon
  <1>12. HintsOfCopies'
    <2> SUFFICES ASSUME NEW u \in Tiers, NEW v \in Tiers, NEW j \in Ids,
                        u < v, Exists(u, j)', Hinted(v, j)'
                 PROVE  Exists(v, j)'
      BY Zenon DEF HintsOfCopies
    <2>1. Exists(v, j) /\ (v # t \/ j # id)
      BY <1>2, <1>7, <1>8, Zenon DEF DiskInv, HintsOfCopies
    <2> QED
      BY <2>1, <1>4, Zenon DEF Exists
  <1>13. DiskInv'
    BY <1>9, <1>10, <1>11, <1>12, Zenon DEF DiskInv
  <1>14. ASSUME NEW j \in Ids, tierOf[j] # 0
         PROVE  /\ tierOf[j] \in Tiers
                /\ file'[tierOf[j]][j] = file[tierOf[j]][j]
                /\ hint'[tierOf[j]][j] = hint[tierOf[j]][j]
    <2>1. tierOf[j] \in Tiers
      BY <1>2, <1>14, PackStoreAssumption DEF TypeInv, Tiers
    <2> QED
      BY <2>1, <1>3, <1>4, <1>5
  <1>15. \A x \in Keys : index[x] # NoLoc => index[x].pack \in Ids /\ tierOf[index[x].pack] # 0
    BY <1>2 DEF IndexPoints, TypeInv
  <1>16. \A x \in Keys : index'[x] # NoLoc =>
           index'[x] = index[x] /\ tierOf'[index[x].pack] # 0
    BY <1>1, <1>15, Zenon
  <1>17. IndexPoints' /\ Placed'
    BY <1>1, <1>2, <1>14, <1>16, IndexKept, Zenon
  <1>18. LoadInv'
    <2>1. \A u \in Tiers, j \in Ids :
            /\ <<u, j>> \in todo' => Exists(u, j)' /\ (tierOf[j] # 0 => tierOf[j] < u)
            /\ Exists(u, j)' => tierOf[j] = u \/ <<u, j>> \in todo'
      <3> SUFFICES ASSUME NEW u \in Tiers, NEW j \in Ids
                   PROVE  /\ <<u, j>> \in todo' => Exists(u, j)' /\ (tierOf[j] # 0 => tierOf[j] < u)
                          /\ Exists(u, j)' => tierOf[j] = u \/ <<u, j>> \in todo'
        BY Zenon
      <3>1. <<u, j>> \in todo' <=> <<u, j>> \in todo /\ (u # t \/ j # id)
        BY <1>1, Zenon
      <3>2. u # t \/ j # id => (Exists(u, j)' <=> Exists(u, j))
        BY <1>4, Zenon DEF Exists
      <3> QED
        BY <3>1, <3>2, <1>2, <1>7, Zenon DEF LoadInv
    <2>2. \A j \in Ids : tierOf[j] # 0 => j <= last /\ hint'[tierOf[j]][j] # NoFile
      BY <1>2, <1>14, Zenon DEF LoadInv, Hinted
    <2>3. \A x \in Keys : index[x] # NoLoc => IndexHinted(x)'
      BY <1>1, <1>2, <1>14, <1>15 DEF LoadInv, IndexHinted, Hinted
    <2>4. \A x \in Keys, q \in Ids :
            tierOf[q] # 0 /\ Entry(q, x)' => index[x] # NoLoc /\ index[x].pack >= q
      <3> SUFFICES ASSUME NEW x \in Keys, NEW q \in Ids, tierOf[q] # 0, Entry(q, x)'
                   PROVE  Entry(q, x)
        BY <1>2, Zenon DEF LoadInv
      <3>1. tierOf'[q] = tierOf[q]
        BY <1>1, Zenon
      <3> QED
        BY <3>1, <1>14, Zenon DEF Entry, Hinted, HasRec, Exists
    <2> QED
      BY <1>1, <2>1, <2>2, <2>3, <2>4, Zenon DEF LoadInv, Hinted
  <1>19. CloseInv'
    <2>1. \A u \in Tiers, j \in Ids : FirstCopy(u, j)' =>
            /\ FirstCopy(u, j) /\ (u # t \/ j # id)
            /\ file'[u][j] = file[u][j] /\ hint'[u][j] = hint[u][j]
      <3> SUFFICES ASSUME NEW u \in Tiers, NEW j \in Ids, FirstCopy(u, j)'
                   PROVE  /\ FirstCopy(u, j) /\ (u # t \/ j # id)
                          /\ file'[u][j] = file[u][j] /\ hint'[u][j] = hint[u][j]
        BY Zenon
      <3>1. /\ Exists(u, j) /\ (u # t \/ j # id)
            /\ file'[u][j] = file[u][j] /\ hint'[u][j] = hint[u][j]
        BY <1>5, <1>7, Zenon DEF FirstCopy
      <3>2. ASSUME NEW v \in Tiers, v < u, Exists(v, j) PROVE FALSE
        <4>1. ~Exists(v, j)'
          BY <3>2, Zenon DEF FirstCopy
        <4>2. v = t /\ j = id
          BY <3>2, <4>1, <1>4, Zenon DEF Exists
        <4>3. tierOf[id] < u
          BY <3>2, <4>2, <1>3 DEF Tiers
        <4>4. file'[tierOf[id]][id] # NoFile
          BY <1>3, <1>4, Zenon DEF Exists
        <4> QED
          BY <4>2, <4>3, <4>4, <1>3, Zenon DEF FirstCopy, Exists
      <3> QED
        BY <3>1, <3>2, Zenon DEF FirstCopy
    <2>2. \A u \in Tiers, j \in Ids : FirstCopy(u, j) =>
            FirstCopy(u, j)' /\ file'[u][j] = file[u][j] /\ hint'[u][j] = hint[u][j]
      <3> SUFFICES ASSUME NEW u \in Tiers, NEW j \in Ids, FirstCopy(u, j)
                   PROVE  FirstCopy(u, j)' /\ file'[u][j] = file[u][j] /\ hint'[u][j] = hint[u][j]
        BY Zenon
      <3>1. u # t \/ j # id
        BY <1>3, Zenon DEF FirstCopy
      <3>2. file'[u][j] = file[u][j] /\ hint'[u][j] = hint[u][j] /\ Exists(u, j)'
        BY <3>1, <1>4, <1>5, Zenon DEF FirstCopy, Exists
      <3> QED
        BY <3>2, <1>7, Zenon DEF FirstCopy
    <2>3. ASSUME NEW k \in Keys, NEW u \in Tiers, NEW p \in Ids, NEW n \in Nat,
                 FoundAt(k, u, p, n)
          PROVE  FoundAt(k, u, p, n)' /\ file'[u][p] = file[u][p]
      <3>1. FirstCopy(u, p)' /\ file'[u][p] = file[u][p] /\ hint'[u][p] = hint[u][p]
        BY <2>2, <2>3, Zenon DEF FoundAt
      <3> QED
        BY <2>1, <2>3, <3>1, FoundKept, Zenon
    <2> SUFFICES ASSUME NEW k \in Keys, atClose'[k] # 0
                 PROVE  \E u \in Tiers, p \in Ids, n \in Nat \ {0} :
                          /\ FoundAt(k, u, p, n)'
                          /\ file'[u][p][n].ver = atClose'[k]
                          /\ tierOf'[p] # 0 => index'[k] = [pack |-> p, at |-> n]
                          /\ tierOf'[p] = 0 => index'[k] = NoLoc \/ index'[k].pack < p
      BY Zenon DEF CloseInv
    <2>4. PICK u \in Tiers, p \in Ids, n \in Nat \ {0} :
            /\ FoundAt(k, u, p, n)
            /\ file[u][p][n].ver = atClose[k]
            /\ tierOf[p] # 0 => index[k] = [pack |-> p, at |-> n]
            /\ tierOf[p] = 0 => index[k] = NoLoc \/ index[k].pack < p
      BY <1>1, <1>2, Zenon DEF CloseInv
    <2>5. FoundAt(k, u, p, n)' /\ file'[u][p] = file[u][p]
      BY <2>3, <2>4, Zenon
    <2>6. tierOf' = tierOf /\ index' = index /\ atClose' = atClose
      BY <1>1, Zenon
    <2> QED
      BY <2>4, <2>5, <2>6, Zenon
  <1> QED
    BY <1>1, <1>2, <1>6, <1>13, <1>17, <1>18, <1>19, Zenon DEF StoreInv, Loaded

\* A pack is loaded: e is added to the index, w and h are its files now.
LoadedAs(t, id, e, w, h) ==
  /\ IsNext(t, id)
  /\ tierOf[id] = 0
  /\ file' \in [Tiers -> [Ids -> PackFiles \cup {NoFile}]]
  /\ hint' \in [Tiers -> [Ids -> Hints \cup {NoFile}]]
  /\ file'[t][id] = w
  /\ hint'[t][id] = h
  /\ \A u \in Tiers, j \in Ids : u # t \/ j # id =>
       file'[u][j] = file[u][j] /\ hint'[u][j] = hint[u][j]
  /\ index' = AddedIndex(id, e)
  /\ tierOf' = [tierOf EXCEPT ![id] = t]
  /\ todo' = todo \ {<<t, id>>}
  /\ last' = IF id > last THEN id ELSE last
  /\ UNCHANGED <<active, state, closed, panic, dpc, vic, log, atClose>>

\* The entries are those of its records, and the hint has the ones that are added.
EntriesMatch(id, e, w, h) ==
  /\ DOMAIN e \in SUBSET Keys
  /\ \A k \in DOMAIN e : /\ e[k] \in Nat \ {0}
                         /\ e[k] <= Len(w) /\ w[e[k]] # Torn /\ w[e[k]].key = k
  /\ \A k \in DOMAIN e : index'[k] = [pack |-> id, at |-> e[k]] => k \in DOMAIN h /\ h[k] = e[k]
  /\ \A k \in DOMAIN h : h[k] \in 1..Len(w) /\ w[h[k]] # Torn => k \in DOMAIN e

\* What loading a pack makes of the index and of the tiers' lists.
LEMMA LoadedPack ==
  ASSUME StoreInv, NEW t \in Tiers, NEW id \in Ids, NEW e, NEW w \in PackFiles, NEW h \in Hints,
         LoadedAs(t, id, e, w, h), EntriesMatch(id, e, w, h)
  PROVE  /\ TypeInv' /\ IndexPoints' /\ Placed' /\ LoadInv'
         /\ tierOf' \in [Ids -> 0..NTiers] /\ tierOf'[id] = t
         /\ \A j \in Ids : j # id => tierOf'[j] = tierOf[j]
         /\ \A k \in Keys :
              \/ /\ k \in DOMAIN e /\ (index[k] = NoLoc \/ index[k].pack <= id)
                 /\ index'[k] = [pack |-> id, at |-> e[k]]
              \/ /\ index'[k] = index[k]
                 /\ k \in DOMAIN e => index[k] # NoLoc /\ index[k].pack > id
         /\ \A k \in Keys : index[k] # NoLoc => index[k].pack \in Ids /\ index[k].pack # id
  <1>1. IsNext(t, id) /\ tierOf[id] = 0
    BY Zenon DEF LoadedAs
  <1>2. /\ state = "loading" /\ ~Loaded /\ active = 0 /\ dpc = "none" /\ ~closed /\ ~panic
        /\ TypeInv /\ DiskInv /\ IndexPoints /\ Placed /\ LoadInv /\ CloseInv
        /\ <<t, id>> \in todo /\ Exists(t, id)
        /\ \A u \in Tiers : u # t /\ <<u, id>> \in todo => t < u
    BY <1>1, LoadingNext, Zenon
  <1>3. /\ index' \in [Keys -> [pack : Ids, at : Nat \ {0}] \cup {NoLoc}]
        /\ \A k \in Keys :
              \/ /\ k \in DOMAIN e /\ (index[k] = NoLoc \/ index[k].pack <= id)
                 /\ index'[k] = [pack |-> id, at |-> e[k]]
              \/ /\ index'[k] = index[k]
                 /\ k \in DOMAIN e => index[k] # NoLoc /\ index[k].pack > id
    <2>1. index \in [Keys -> [pack : Ids, at : Nat \ {0}] \cup {NoLoc}]
      BY <1>2, Zenon DEF TypeInv
    <2>2. DOMAIN e \in SUBSET Keys /\ (\A k \in DOMAIN e : e[k] \in Nat \ {0})
      BY Zenon DEF EntriesMatch
    <2>3. PICK g : g = AddedIndex(id, e) /\ index' = g
      BY Zenon DEF LoadedAs
    <2>4. /\ g \in [Keys -> [pack : Ids, at : Nat \ {0}] \cup {NoLoc}]
          /\ \A k \in Keys :
                \/ /\ k \in DOMAIN e /\ (index[k] = NoLoc \/ index[k].pack <= id)
                   /\ g[k] = [pack |-> id, at |-> e[k]]
                \/ /\ g[k] = index[k]
                   /\ k \in DOMAIN e => index[k] # NoLoc /\ index[k].pack > id
      BY <2>1, <2>2, <2>3, AddedIs
    <2> QED
      BY <2>3, <2>4, Zenon
  <1>4. /\ tierOf' \in [Ids -> 0..NTiers] /\ tierOf'[id] = t
        /\ \A j \in Ids : j # id => tierOf'[j] = tierOf[j]
    BY <1>2, PackStoreAssumption DEF LoadedAs, TypeInv, Tiers
  <1>5. \A k \in Keys : index[k] # NoLoc => index[k].pack \in Ids /\ index[k].pack # id
    BY <1>1, <1>2 DEF IndexPoints, TypeInv
  <1>6. TypeInv'
    <2>1. /\ file' \in [Tiers -> [Ids -> PackFiles \cup {NoFile}]]
          /\ hint' \in [Tiers -> [Ids -> Hints \cup {NoFile}]]
          /\ todo' \subseteq todo
          /\ last' = id \/ last' = last
          /\ UNCHANGED <<active, state, closed, panic, dpc, vic, log, atClose>>
      BY Zenon DEF LoadedAs
    <2>2. last' \in 0..MaxId
      BY <2>1, <1>2 DEF TypeInv, Ids
    <2> QED
      BY <2>1, <2>2, <1>2, <1>3, <1>4, Zenon DEF TypeInv
  <1>7. \A j \in Ids : tierOf[j] # 0 => j # id /\ tierOf[j] \in Tiers
    BY <1>1, <1>2, PackStoreAssumption DEF TypeInv, Tiers
  <1>8. \A j \in Ids : tierOf'[j] # 0 /\ j # id =>
          /\ tierOf'[j] = tierOf[j] /\ tierOf[j] # 0
          /\ file'[tierOf[j]][j] = file[tierOf[j]][j]
          /\ hint'[tierOf[j]][j] = hint[tierOf[j]][j]
    BY <1>4, <1>7 DEF LoadedAs
  <1>9. w # NoFile /\ h # NoFile /\ t # 0 /\ file'[t][id] = w /\ hint'[t][id] = h
    BY Sentinels DEF Tiers, LoadedAs
  <1>10. IndexPoints'
    <2> SUFFICES ASSUME NEW k \in Keys, index'[k] # NoLoc
                 PROVE  LET recs == file'[tierOf'[index'[k].pack]][index'[k].pack]
                        IN  /\ tierOf'[index'[k].pack] # 0
                            /\ recs # NoFile
                            /\ index'[k].at <= Len(recs)
                            /\ recs[index'[k].at] # Torn
                            /\ recs[index'[k].at].key = k
      BY Zenon DEF IndexPoints
    <2>1. CASE k \in DOMAIN e /\ index'[k] = [pack |-> id, at |-> e[k]]
      <3>1. index'[k].pack = id /\ index'[k].at = e[k]
        BY <2>1
      <3> QED
        BY <2>1, <3>1, <1>4, <1>9 DEF EntriesMatch
    <2>2. CASE index'[k] = index[k]
      <3>1. PICK p \in Ids : index[k].pack = p /\ index'[k].pack = p /\ p # id /\ index[k] # NoLoc
        BY <2>2, <1>5, Zenon
      <3>2. tierOf[p] # 0
        BY <3>1, <1>2, Zenon DEF IndexPoints
      <3>3. tierOf'[p] = tierOf[p] /\ file'[tierOf[p]][p] = file[tierOf[p]][p]
        BY <3>1, <3>2, <1>4, <1>8, Zenon
      <3>4. PICK recs : recs = file[tierOf[p]][p] /\ recs = file'[tierOf'[p]][p]
        BY <3>3, Zenon
      <3>5. /\ recs # NoFile /\ index[k].at <= Len(recs)
            /\ recs[index[k].at] # Torn /\ recs[index[k].at].key = k
        BY <3>1, <3>4, <1>2, Zenon DEF IndexPoints
      <3> QED
        BY <2>2, <3>1, <3>2, <3>3, <3>4, <3>5, Zenon
    <2> QED
      BY <2>1, <2>2, <1>3, Zenon
  <1>11. Placed'
    BY <1>2, <1>4, <1>8, <1>9, Zenon DEF Placed, Exists
  <1>12. LoadInv'
    <2>1. ASSUME NEW u \in Tiers, NEW j \in Ids
          PROVE  /\ <<u, j>> \in todo' => Exists(u, j)' /\ (tierOf'[j] # 0 => tierOf'[j] < u)
                 /\ Exists(u, j)' => tierOf'[j] = u \/ <<u, j>> \in todo'
      <3>1. <<u, j>> \in todo' <=> <<u, j>> \in todo /\ (u # t \/ j # id)
        BY Zenon DEF LoadedAs
      <3>2. u # t \/ j # id => (Exists(u, j)' <=> Exists(u, j))
        BY Zenon DEF Exists, LoadedAs
      <3>3. CASE u = t /\ j = id
        BY <3>1, <3>3, <1>4, Zenon
      <3>4. CASE u # t /\ j = id
        <4>1. tierOf'[j] = t /\ t # u /\ tierOf[j] = 0
          BY <3>4, <1>1, <1>4, Zenon
        <4>2. <<u, j>> \in todo => Exists(u, j) /\ t < u
          BY <3>4, <1>2, Zenon DEF LoadInv
        <4>3. u # 0
          BY DEF Tiers
        <4>4. Exists(u, j) => <<u, j>> \in todo
          BY <4>1, <4>3, <1>2, Zenon DEF LoadInv
        <4> QED
          BY <3>1, <3>2, <3>4, <4>1, <4>2, <4>4, Zenon
      <3>5. CASE j # id
        BY <3>1, <3>2, <3>5, <1>2, <1>4, Zenon DEF LoadInv
      <3> QED
        BY <3>3, <3>4, <3>5, Zenon
    <2>2. ASSUME NEW j \in Ids, tierOf'[j] # 0
          PROVE  j <= last' /\ hint'[tierOf'[j]][j] # NoFile
      <3>1. last \in Nat /\ id \in Nat /\ j \in Nat
        BY <1>2 DEF TypeInv, Ids
      <3>2. PICK m \in Nat : last' = m /\ id <= m /\ last <= m
        BY <3>1 DEF LoadedAs
      <3>3. CASE j = id
        BY <3>2, <3>3, <1>4, <1>9, Zenon
      <3>4. CASE j # id
        <4>1. tierOf[j] # 0 /\ j <= last /\ hint[tierOf[j]][j] # NoFile
          BY <2>2, <3>4, <1>2, <1>8, Zenon DEF LoadInv, Hinted
        <4> QED
          BY <2>2, <3>1, <3>2, <3>4, <4>1, <1>8
      <3> QED
        BY <3>3, <3>4, Zenon
    <2>3. ASSUME NEW k \in Keys, index'[k] # NoLoc
          PROVE  IndexHinted(k)'
      <3>1. CASE k \in DOMAIN e /\ index'[k] = [pack |-> id, at |-> e[k]]
        <4>1. index'[k].pack = id /\ index'[k].at = e[k] /\ k \in DOMAIN h /\ h[k] = e[k]
          BY <3>1 DEF EntriesMatch
        <4> QED
          BY <4>1, <1>4, <1>9, Zenon DEF IndexHinted, Hinted
      <3>2. CASE index'[k] = index[k]
        <4>1. PICK p \in Ids : index[k].pack = p /\ index'[k].pack = p /\ p # id /\ index[k] # NoLoc
          BY <2>3, <3>2, <1>5, Zenon
        <4>2. tierOf[p] # 0
          BY <4>1, <1>2, Zenon DEF IndexPoints
        <4>3. tierOf'[p] = tierOf[p] /\ hint'[tierOf[p]][p] = hint[tierOf[p]][p]
          BY <4>1, <4>2, <1>4, <1>8, Zenon
        <4>4. IndexHinted(k)
          BY <4>1, <1>2, Zenon DEF LoadInv
        <4> QED
          BY <3>2, <4>1, <4>3, <4>4, Zenon DEF IndexHinted, Hinted
      <3> QED
        BY <3>1, <3>2, <1>3, Zenon
    <2>4. ASSUME NEW k \in Keys, NEW q \in Ids, tierOf'[q] # 0, Entry(q, k)'
          PROVE  index'[k] # NoLoc /\ index'[k].pack >= q
      <3>1. CASE q = id
        <4>1. k \in DOMAIN e
          BY <2>4, <3>1, <1>4, <1>9, Zenon DEF EntriesMatch, Entry, HasRec
        <4>2. CASE index'[k] = [pack |-> id, at |-> e[k]]
          <5>1. index'[k].pack = id /\ index'[k] # NoLoc
            <6>1. [pack |-> id, at |-> e[k]] \in [pack : Ids, at : Nat \ {0}]
              BY <4>1, Zenon DEF EntriesMatch
            <6> QED
              BY <4>2, <6>1, Sentinels
          <5> QED
            BY <3>1, <5>1 DEF Ids
        <4>3. CASE index'[k] = index[k] /\ index[k] # NoLoc /\ index[k].pack > id
          BY <3>1, <4>3, <1>5 DEF Ids
        <4> QED
          BY <4>1, <4>2, <4>3, <1>3, Zenon
      <3>2. CASE q # id
        <4>1. tierOf'[q] = tierOf[q] /\ tierOf[q] # 0
              /\ file'[tierOf[q]][q] = file[tierOf[q]][q]
              /\ hint'[tierOf[q]][q] = hint[tierOf[q]][q]
          BY <2>4, <3>2, <1>8, Zenon
        <4>2. Entry(q, k)
          BY <2>4, <4>1, Zenon DEF Entry, Hinted, HasRec, Exists
        <4>3. index[k] # NoLoc /\ index[k].pack >= q /\ index[k].pack \in Ids
          BY <4>1, <4>2, <1>2, <1>5, Zenon DEF LoadInv
        <4>4. CASE k \in DOMAIN e /\ index[k].pack <= id /\ index'[k] = [pack |-> id, at |-> e[k]]
          <5>1. index'[k].pack = id /\ index'[k] # NoLoc
            <6>1. [pack |-> id, at |-> e[k]] \in [pack : Ids, at : Nat \ {0}]
              BY <4>4, Zenon DEF EntriesMatch
            <6> QED
              BY <4>4, <6>1, Sentinels
          <5> QED
            BY <4>3, <4>4, <5>1 DEF Ids
        <4>5. CASE index'[k] = index[k]
          BY <4>3, <4>5, Zenon
        <4> QED
          BY <4>3, <4>4, <4>5, <1>3, Zenon
      <3> QED
        BY <3>1, <3>2, Zenon
    <2> QED
      BY <2>1, <2>2, <2>3, <2>4, Zenon DEF LoadInv, Hinted
  <1> QED
    BY <1>3, <1>4, <1>5, <1>6, <1>10, <1>11, <1>12, Zenon

\* A pack with a hint is loaded.
LEMMA LoadHintedInv ==
  ASSUME StoreInv, NEW t \in Tiers, NEW id \in Ids, LoadHinted(t, id)
  PROVE  StoreInv'
  <1> DEFINE e == HintEntries(t, id)
             w == file[t][id]
             h == hint[t][id]
  <1>1. IsNext(t, id) /\ tierOf[id] = 0 /\ Hinted(t, id) /\ UNCHANGED <<file, hint>>
    BY Zenon DEF LoadHinted, Hinted, diskVars
  <1>2. /\ state = "loading" /\ ~Loaded /\ active = 0 /\ dpc = "none" /\ ~closed /\ ~panic
        /\ TypeInv /\ DiskInv /\ IndexPoints /\ Placed /\ LoadInv /\ CloseInv
        /\ <<t, id>> \in todo /\ Exists(t, id) /\ w \in PackFiles
        /\ \A u \in Tiers : u # t /\ <<u, id>> \in todo => t < u
        /\ FirstCopy(t, id)
    BY <1>1, LoadingNext, Zenon
  <1>3. LoadedAs(t, id, e, w, h)
    BY <1>1, <1>2, Zenon
       DEF LoadHinted, LoadedAs, TypeInv, diskVars, chanVars, demoterVars
  <1>4. h \in Hints
    BY <1>1, <1>2 DEF TypeInv, Hinted
  <1>5. /\ DOMAIN e \in SUBSET Keys
        /\ \A k \in DOMAIN e : /\ k \in DOMAIN h /\ e[k] = h[k]
                               /\ e[k] \in Nat \ {0} /\ HasRec(t, id, e[k])
        /\ \A k \in DOMAIN h : HasRec(t, id, h[k]) => k \in DOMAIN e
    <2> HIDE DEF e
    <2>1. e = HintEntries(t, id)
      BY Zenon DEF e
    <2> QED
      BY <1>1, <1>2, <2>1, HintIs
  <1> HIDE DEF e
  <1>6. EntriesMatch(id, e, w, h)
    <2>1. \A k \in DOMAIN e : /\ e[k] <= Len(w) /\ w[e[k]] # Torn /\ w[e[k]].key = k
      <3> SUFFICES ASSUME NEW k \in DOMAIN e
                   PROVE  e[k] <= Len(w) /\ w[e[k]] # Torn /\ w[e[k]].key = k
        BY Zenon
      <3>1. k \in Keys /\ k \in DOMAIN h /\ e[k] = h[k] /\ HasRec(t, id, e[k])
        BY <1>5, Zenon
      <3>2. w[e[k]].key = k
        BY <3>1, <1>1, <1>2, Zenon DEF DiskInv, HintsAgree
      <3>3. Len(w) \in Nat
        BY <1>2 DEF PackFiles
      <3> QED
        BY <3>1, <3>2, <3>3 DEF HasRec
    <2>2. \A k \in DOMAIN h : h[k] \in 1..Len(w) /\ w[h[k]] # Torn => k \in DOMAIN e
      BY <1>2, <1>5, Zenon DEF HasRec
    <2> QED
      BY <1>5, <2>1, <2>2, Zenon DEF EntriesMatch
  <1>7. /\ TypeInv' /\ IndexPoints' /\ Placed' /\ LoadInv'
        /\ tierOf'[id] = t
        /\ \A j \in Ids : j # id => tierOf'[j] = tierOf[j]
        /\ \A k \in Keys :
              \/ /\ k \in DOMAIN e /\ (index[k] = NoLoc \/ index[k].pack <= id)
                 /\ index'[k] = [pack |-> id, at |-> e[k]]
              \/ /\ index'[k] = index[k]
                 /\ k \in DOMAIN e => index[k] # NoLoc /\ index[k].pack > id
        /\ \A k \in Keys : index[k] # NoLoc => index[k].pack \in Ids /\ index[k].pack # id
    <2> HIDE DEF w, h
    <2> QED
      BY <1>2, <1>3, <1>4, <1>6, LoadedPack, Zenon
  <1>8. DiskInv'
    BY <1>1, <1>2, <1>3, SameDisk, Zenon DEF LoadedAs
  <1>9. CloseInv'
    <2> SUFFICES ASSUME NEW k \in Keys, atClose[k] # 0
                 PROVE  \E u \in Tiers, p \in Ids, n \in Nat \ {0} :
                          /\ FoundAt(k, u, p, n)'
                          /\ file'[u][p][n].ver = atClose[k]
                          /\ tierOf'[p] # 0 => index'[k] = [pack |-> p, at |-> n]
                          /\ tierOf'[p] = 0 => index'[k] = NoLoc \/ index'[k].pack < p
      BY <1>3, Zenon DEF CloseInv, LoadedAs
    <2>1. PICK u \in Tiers, p \in Ids, n \in Nat \ {0} :
            /\ FoundAt(k, u, p, n)
            /\ file[u][p][n].ver = atClose[k]
            /\ tierOf[p] # 0 => index[k] = [pack |-> p, at |-> n]
            /\ tierOf[p] = 0 => index[k] = NoLoc \/ index[k].pack < p
      BY <1>2, Zenon DEF CloseInv
    <2>2. FoundAt(k, u, p, n)' /\ file'[u][p][n].ver = atClose[k]
      BY <2>1, <1>1, SameFound, Zenon
    <2>3. k \in DOMAIN e => id <= p
      <3> SUFFICES ASSUME k \in DOMAIN e, p < id PROVE FALSE
        BY DEF Ids
      <3>1. k \in DOMAIN hint[t][id] /\ HasRec(t, id, hint[t][id][k])
        BY <1>5, Zenon
      <3> QED
        BY <3>1, <2>1, <1>2, Zenon DEF FoundAt
    <2>4. (tierOf'[p] # 0 => index'[k] = [pack |-> p, at |-> n])
          /\ (tierOf'[p] = 0 => index'[k] = NoLoc \/ index'[k].pack < p)
      <3>1. CASE p = id
        <4>1. u = t
          BY <3>1, <2>1, <1>2 DEF FoundAt, FirstCopy, Tiers
        <4>2. k \in DOMAIN e /\ e[k] = n
          BY <3>1, <4>1, <2>1, <1>5, Zenon DEF FoundAt
        <4>3. index[k] = NoLoc \/ index[k].pack < id
          BY <3>1, <2>1, <1>1, Zenon
        <4>4. ~(index[k] # NoLoc /\ index[k].pack > id)
          BY <4>3, <1>7 DEF Ids
        <4>5. index'[k] = [pack |-> p, at |-> n]
          BY <3>1, <4>2, <4>4, <1>7, Zenon
        <4>6. tierOf'[p] # 0
          BY <3>1, <1>7 DEF Tiers
        <4> QED
          BY <4>5, <4>6, Zenon
      <3>2. CASE p # id /\ tierOf[p] # 0
        <4>1. index[k] = [pack |-> p, at |-> n] /\ index[k] # NoLoc /\ index[k].pack = p
          <5>1. [pack |-> p, at |-> n] \in [pack : Ids, at : Nat \ {0}]
            BY Zenon
          <5> QED
            BY <2>1, <3>2, <5>1, Sentinels
        <4>2. k \in DOMAIN e => ~(index[k].pack <= id)
          BY <2>3, <3>2, <4>1 DEF Ids
        <4>3. index'[k] = index[k]
          BY <4>1, <4>2, <1>7, Zenon
        <4> QED
          BY <3>2, <4>1, <4>3, <1>7, Zenon
      <3>3. CASE p # id /\ tierOf[p] = 0
        <4>1. k \in DOMAIN e => id < p
          BY <2>3, <3>3 DEF Ids
        <4>2. tierOf'[p] = 0
          BY <3>3, <1>7, Zenon
        <4>3. CASE index'[k] = index[k]
          BY <2>1, <3>3, <4>2, <4>3, Zenon
        <4>4. CASE k \in DOMAIN e /\ index'[k] = [pack |-> id, at |-> e[k]]
          BY <4>1, <4>2, <4>4
        <4> QED
          BY <4>3, <4>4, <1>7, Zenon
      <3> QED
        BY <3>1, <3>2, <3>3, Zenon
    <2> QED
      BY <2>2, <2>4, Zenon
  <1> QED
    BY <1>2, <1>3, <1>7, <1>8, <1>9, Zenon DEF StoreInv, Loaded, LoadedAs

\* A pack without one is scanned and sealed.
LEMMA LoadScannedInv ==
  ASSUME StoreInv, NEW t \in Tiers, NEW id \in Ids, LoadScanned(t, id)
  PROVE  StoreInv'
  <1>1. /\ IsNext(t, id) /\ tierOf[id] = 0 /\ ~Hinted(t, id)
        /\ file' = [file EXCEPT ![t][id] = Whole(file[t][id])]
        /\ index' = AddedIndex(id, ScanEntries(file[t][id]))
        /\ tierOf' = [tierOf EXCEPT ![id] = t]
        /\ todo' = todo \ {<<t, id>>}
        /\ hint' = [hint EXCEPT ![t][id] = SealedHint(id, index')]
        /\ last' = IF id > last THEN id ELSE last
        /\ UNCHANGED <<active, state, closed, panic, dpc, vic, log, atClose>>
    BY Zenon DEF LoadScanned, Hinted, chanVars, demoterVars
  <1>2. /\ state = "loading" /\ ~Loaded /\ active = 0 /\ dpc = "none" /\ ~closed /\ ~panic
        /\ TypeInv /\ DiskInv /\ IndexPoints /\ Placed /\ LoadInv /\ CloseInv
        /\ <<t, id>> \in todo /\ Exists(t, id) /\ file[t][id] \in PackFiles
        /\ FirstCopy(t, id)
    BY <1>1, LoadingNext, Zenon
  <1>3. PICK e : e = ScanEntries(file[t][id])
    BY Zenon
  <1>4. PICK w : w = Whole(file[t][id])
    BY Zenon
  <1>5. PICK h : h = SealedHint(id, index')
    BY Zenon
  <1>6. /\ DOMAIN e \in SUBSET Keys
        /\ \A k \in DOMAIN e : /\ e[k] \in 1..Len(file[t][id])
                               /\ file[t][id][e[k]] # Torn /\ file[t][id][e[k]].key = k
    BY <1>2, <1>3, ScanIs
  <1>7. /\ w \in PackFiles
        /\ \A i \in 1..Len(w) : /\ i \in 1..Len(file[t][id]) /\ w[i] = file[t][id][i]
                                /\ w[i] # Torn
        /\ \A i \in 1..Len(file[t][id]) :
             file[t][id][i] # Torn => i \in 1..Len(w) /\ w[i] = file[t][id][i]
    <2>1. \A i \in 1..Len(file[t][id]) : i < Len(file[t][id]) => file[t][id][i] # Torn
      BY <1>2, Zenon DEF DiskInv, TornLast
    <2> QED
      BY <1>2, <1>4, <2>1, WholeIs
  <1>8. \A k \in DOMAIN e : /\ e[k] \in 1..Len(w) /\ e[k] \in Nat \ {0} /\ e[k] <= Len(w)
                            /\ w[e[k]] # Torn /\ w[e[k]].key = k
    <2>1. Len(w) \in Nat
      BY <1>7 DEF PackFiles
    <2> QED
      BY <1>6, <1>7, <2>1
  <1>9. /\ index' \in [Keys -> [pack : Ids, at : Nat \ {0}] \cup {NoLoc}]
        /\ \A k \in Keys :
              \/ /\ k \in DOMAIN e /\ (index[k] = NoLoc \/ index[k].pack <= id)
                 /\ index'[k] = [pack |-> id, at |-> e[k]]
              \/ /\ index'[k] = index[k]
                 /\ k \in DOMAIN e => index[k] # NoLoc /\ index[k].pack > id
    <2>1. index \in [Keys -> [pack : Ids, at : Nat \ {0}] \cup {NoLoc}]
      BY <1>2, Zenon DEF TypeInv
    <2>2. PICK g : g = AddedIndex(id, e) /\ index' = g
      BY <1>1, <1>3, Zenon
    <2> QED
      <3>1. DOMAIN e \in SUBSET Keys /\ (\A k \in DOMAIN e : e[k] \in Nat \ {0})
        BY <1>6, <1>8, Zenon
      <3> QED
        BY <2>1, <2>2, <3>1, AddedIs
  <1>10. \A k \in Keys : index[k] # NoLoc => index[k].pack \in Ids /\ index[k].pack # id
    BY <1>1, <1>2, Zenon DEF IndexPoints, TypeInv
  <1>11. /\ h \in Hints
         /\ \A k \in DOMAIN h : k \in Keys /\ index'[k] # NoLoc /\ index'[k].pack = id
                                /\ h[k] = index'[k].at
         /\ \A k \in Keys : index'[k] # NoLoc /\ index'[k].pack = id
                              => k \in DOMAIN h /\ h[k] = index'[k].at
    <2>1. PICK g \in [Keys -> [pack : Ids, at : Nat \ {0}] \cup {NoLoc}] : index' = g
      BY <1>9, Zenon
    <2>2. h = SealedHint(id, g)
      BY <1>5, <2>1, Zenon
    <2> QED
      BY <2>1, <2>2, SealedIs
  <1>12. \A k \in DOMAIN h : k \in DOMAIN e /\ h[k] = e[k]
    <2> SUFFICES ASSUME NEW k \in DOMAIN h PROVE k \in DOMAIN e /\ h[k] = e[k]
      BY Zenon
    <2>1. k \in Keys /\ index'[k] # NoLoc /\ index'[k].pack = id /\ h[k] = index'[k].at
      BY <1>11, Zenon
    <2>2. index'[k] # index[k]
      BY <2>1, <1>10, Zenon
    <2>3. k \in DOMAIN e /\ index'[k] = [pack |-> id, at |-> e[k]]
      BY <2>1, <2>2, <1>9, Zenon
    <2> QED
      BY <2>1, <2>3
  <1>13. /\ file' \in [Tiers -> [Ids -> PackFiles \cup {NoFile}]]
         /\ file'[t][id] = w
         /\ \A u \in Tiers, j \in Ids : u # t \/ j # id => file'[u][j] = file[u][j]
    BY <1>1, <1>2, <1>4, <1>7, Stored DEF TypeInv
  <1>14. /\ hint' \in [Tiers -> [Ids -> Hints \cup {NoFile}]]
         /\ hint'[t][id] = h
         /\ \A u \in Tiers, j \in Ids : u # t \/ j # id => hint'[u][j] = hint[u][j]
    BY <1>1, <1>2, <1>5, <1>11, Stored, Zenon DEF TypeInv
  <1>15. LoadedAs(t, id, e, w, h)
    BY <1>1, <1>3, <1>13, <1>14, Zenon DEF LoadedAs
  <1>16. EntriesMatch(id, e, w, h)
    <2>1. \A k \in DOMAIN e : index'[k] = [pack |-> id, at |-> e[k]] => k \in DOMAIN h /\ h[k] = e[k]
      <3> SUFFICES ASSUME NEW k \in DOMAIN e, index'[k] = [pack |-> id, at |-> e[k]]
                   PROVE  k \in DOMAIN h /\ h[k] = e[k]
        BY Zenon
      <3>1. e[k] \in Nat \ {0}
        BY <1>8, Zenon
      <3>2. k \in Keys /\ index'[k] # NoLoc /\ index'[k].pack = id /\ index'[k].at = e[k]
        <4>1. PICK loc : loc = index'[k]
          BY Zenon
        <4>2. loc # NoLoc /\ loc.pack = id /\ loc.at = e[k]
          BY <3>1, <4>1, Position
        <4> QED
          BY <4>1, <4>2, <1>6, Zenon
      <3> QED
        BY <3>2, <1>11, Zenon
    <2> QED
      BY <1>6, <1>8, <1>12, <2>1, Zenon DEF EntriesMatch
  <1>17. /\ TypeInv' /\ IndexPoints' /\ Placed' /\ LoadInv'
         /\ tierOf'[id] = t
         /\ \A j \in Ids : j # id => tierOf'[j] = tierOf[j]
    BY <1>7, <1>11, <1>15, <1>16, LoadedPack, Zenon
  <1>18. \A u \in Tiers, j \in Ids : Exists(u, j)' <=> Exists(u, j)
    BY <1>2, <1>7, <1>13, Sentinels, Zenon DEF Exists
  <1>19. \A u \in Tiers, j \in Ids : Hinted(u, j)' => Hinted(u, j) \/ (u = t /\ j = id)
    BY <1>14, Zenon DEF Hinted
  <1>20. DiskInv'
    <2>1. \A u \in Tiers, j \in Ids, i \in Nat : HasRec(u, j, i)' =>
            HasRec(u, j, i) /\ file'[u][j][i] = file[u][j][i]
      <3> SUFFICES ASSUME NEW u \in Tiers, NEW j \in Ids, NEW i \in Nat, HasRec(u, j, i)'
                   PROVE  HasRec(u, j, i) /\ file'[u][j][i] = file[u][j][i]
        BY Zenon
      <3>1. CASE u = t /\ j = id
        BY <3>1, <1>2, <1>7, <1>13, Zenon DEF HasRec
      <3>2. CASE ~(u = t /\ j = id)
        BY <3>2, <1>13, Zenon DEF HasRec, Exists
      <3> QED
        BY <3>1, <3>2, Zenon
    <2>2. \A u \in Tiers, j \in Ids, k \in Keys :
            Hinted(u, j)' /\ k \in DOMAIN hint'[u][j] =>
              /\ hint'[u][j][k] \in Nat
              /\ \/ \E v \in Tiers : /\ Hinted(v, j) /\ k \in DOMAIN hint[v][j]
                                     /\ hint[v][j][k] = hint'[u][j][k]
                 \/ \E v \in Tiers : /\ HasRec(v, j, hint'[u][j][k])
                                     /\ file[v][j][hint'[u][j][k]].key = k
      <3> SUFFICES ASSUME NEW u \in Tiers, NEW j \in Ids, NEW k \in Keys,
                          Hinted(u, j)', k \in DOMAIN hint'[u][j]
                   PROVE  /\ hint'[u][j][k] \in Nat
                          /\ \/ \E v \in Tiers : /\ Hinted(v, j) /\ k \in DOMAIN hint[v][j]
                                                 /\ hint[v][j][k] = hint'[u][j][k]
                             \/ \E v \in Tiers : /\ HasRec(v, j, hint'[u][j][k])
                                                 /\ file[v][j][hint'[u][j][k]].key = k
        BY Zenon
      <3>1. CASE u = t /\ j = id
        <4>1. k \in DOMAIN e /\ hint'[u][j][k] = e[k]
          BY <3>1, <1>12, <1>14, Zenon
        <4>2. e[k] \in Nat /\ HasRec(t, id, e[k]) /\ file[t][id][e[k]].key = k
          BY <4>1, <1>2, <1>6, <1>8, Zenon DEF HasRec
        <4> QED
          BY <3>1, <4>1, <4>2, Zenon
      <3>2. CASE ~(u = t /\ j = id)
        <4>1. hint'[u][j] = hint[u][j] /\ Hinted(u, j)
          BY <3>2, <1>14, <1>19, Zenon
        <4>2. Hinted(u, j) /\ k \in DOMAIN hint[u][j] /\ hint[u][j][k] = hint'[u][j][k]
          BY <4>1, Zenon
        <4>3. hint[u][j][k] \in Nat
          BY <4>2, <1>2, HintsKept, Zenon
        <4> QED
          BY <4>2, <4>3, Zenon
      <3> QED
        BY <3>1, <3>2, Zenon
    <2>3. RecordsWritten /\ CopiesAgree /\ HintsAgree /\ log' = log
      BY <1>1, <1>2, Zenon DEF DiskInv
    <2>4. RecordsWritten' /\ CopiesAgree' /\ HintsAgree'
      <3>1. \A u \in Tiers, j \in Ids, i \in Nat : HasRec(u, j, i)' =>
              \E v \in Tiers : HasRec(v, j, i) /\ file'[u][j][i] = file[v][j][i]
        BY <2>1, Zenon
      <3> QED
        BY <2>2, <2>3, <3>1, NothingNew, Zenon
    <2>5. TornLast'
      <3> SUFFICES ASSUME NEW u \in Tiers, NEW j \in Ids, Exists(u, j)',
                          NEW i \in 1..Len(file'[u][j]), i < Len(file'[u][j])
                   PROVE  file'[u][j][i] # Torn
        BY Zenon DEF TornLast
      <3>1. CASE u = t /\ j = id
        BY <3>1, <1>7, <1>13, Zenon
      <3>2. CASE u # t \/ j # id
        <4>1. PICK recs : recs = file[u][j] /\ recs = file'[u][j] /\ Exists(u, j)
          BY <3>2, <1>13, <1>18, Zenon
        <4>2. \A n \in 1..Len(recs) : n < Len(recs) => recs[n] # Torn
          BY <4>1, <1>2, Zenon DEF DiskInv, TornLast
        <4> QED
          BY <4>1, <4>2, Zenon
      <3> QED
        BY <3>1, <3>2, Zenon
    <2>6. TopExists'
      <3> SUFFICES ASSUME NEW u \in Tiers, NEW j \in Ids, Exists(u, j)' \/ Hinted(u, j)'
                   PROVE  \E v \in Tiers, top \in Ids : Exists(v, top)' /\ IdsBelow(top)'
        BY Zenon DEF TopExists
      <3>1. PICK v \in Tiers, top \in Ids : Exists(v, top) /\ IdsBelow(top)
        BY <1>2, Zenon DEF DiskInv, TopExists
      <3>2. IdsBelow(top)'
        BY <3>1, <1>2, <1>18, <1>19, Zenon DEF IdsBelow
      <3> QED
        BY <3>1, <3>2, <1>18, Zenon
    <2>7. HintsOfCopies'
      BY <1>2, <1>18, <1>19, Zenon DEF DiskInv, HintsOfCopies
    <2> QED
      BY <2>4, <2>5, <2>6, <2>7, Zenon DEF DiskInv
  <1>21. CloseInv'
    <2> SUFFICES ASSUME NEW k \in Keys, atClose[k] # 0
                 PROVE  \E u \in Tiers, p \in Ids, n \in Nat \ {0} :
                          /\ FoundAt(k, u, p, n)'
                          /\ file'[u][p][n].ver = atClose[k]
                          /\ tierOf'[p] # 0 => index'[k] = [pack |-> p, at |-> n]
                          /\ tierOf'[p] = 0 => index'[k] = NoLoc \/ index'[k].pack < p
      BY <1>1 DEF CloseInv
    <2>1. PICK u \in Tiers, p \in Ids, n \in Nat \ {0} :
            /\ FoundAt(k, u, p, n)
            /\ file[u][p][n].ver = atClose[k]
            /\ tierOf[p] # 0 => index[k] = [pack |-> p, at |-> n]
            /\ tierOf[p] = 0 => index[k] = NoLoc \/ index[k].pack < p
      BY <1>2, Zenon DEF CloseInv
    <2>2. id < p
      <3>1. p # id
        <4> SUFFICES ASSUME p = id PROVE FALSE
          BY Zenon
        <4>1. u = t
          BY <2>1, <1>2 DEF FoundAt, FirstCopy, Tiers
        <4> QED
          BY <4>1, <2>1, <1>1, Zenon DEF FoundAt
      <3>2. ~(p < id)
        BY <2>1, <1>1, <1>2, Zenon DEF FoundAt
      <3> QED
        BY <3>1, <3>2 DEF Ids
    <2>3. p # id /\ \A q \in Ids : p < q => q # id
      BY <2>2 DEF Ids
    <2>4. \A v \in Tiers, j \in Ids : FirstCopy(v, j)' <=> FirstCopy(v, j)
      BY <1>18, Zenon DEF FirstCopy
    <2>5. \A v \in Tiers, j \in Ids : j # id =>
            file'[v][j] = file[v][j] /\ hint'[v][j] = hint[v][j]
      BY <1>13, <1>14, Zenon
    <2>6. FoundAt(k, u, p, n)'
      <3>1. FirstCopy(u, p)' /\ file'[u][p] = file[u][p] /\ hint'[u][p] = hint[u][p]
        BY <2>1, <2>3, <2>4, <2>5, Zenon DEF FoundAt
      <3>2. \A v \in Tiers, q \in Ids : FirstCopy(v, q)' /\ p < q =>
              FirstCopy(v, q) /\ file'[v][q] = file[v][q] /\ hint'[v][q] = hint[v][q]
        BY <2>3, <2>4, <2>5, Zenon
      <3> QED
        BY <3>1, <3>2, <2>1, FoundKept, Zenon
    <2>7. file'[u][p][n].ver = atClose[k] /\ tierOf'[p] = tierOf[p]
      BY <2>1, <2>3, <2>5, <1>17, Zenon
    <2>8. CASE tierOf[p] # 0
      <3>1. index[k] = [pack |-> p, at |-> n] /\ index[k] # NoLoc /\ index[k].pack = p
        <4>1. PICK loc : loc = index[k]
          BY Zenon
        <4>2. loc = [pack |-> p, at |-> n]
          BY <2>1, <2>8, <4>1, Zenon
        <4>3. loc # NoLoc /\ loc.pack = p
          BY <4>2, Position
        <4> QED
          BY <4>1, <4>2, <4>3, Zenon
      <3>2. ~(index[k].pack <= id)
        BY <2>2, <3>1 DEF Ids
      <3>3. index'[k] = index[k]
        BY <3>1, <3>2, <1>9, Zenon
      <3> QED
        BY <2>6, <2>7, <2>8, <3>1, <3>3, Zenon
    <2>9. CASE tierOf[p] = 0
      <3>1. CASE index'[k] = index[k]
        BY <2>1, <2>6, <2>7, <2>9, <3>1, Zenon
      <3>2. CASE index'[k] = [pack |-> id, at |-> e[k]]
        BY <2>2, <2>6, <2>7, <2>9, <3>2
      <3> QED
        BY <3>1, <3>2, <1>9, Zenon
    <2> QED
      BY <2>8, <2>9, Zenon
  <1> QED
    BY <1>1, <1>2, <1>17, <1>20, <1>21, Zenon DEF StoreInv, Loaded

\* Everything is loaded: nothing on disk has the id of the first active pack.
LEMMA OpenedInv ==
  ASSUME StoreInv, Opened
  PROVE  StoreInv'
  <1>1. /\ state = "loading" /\ todo = {} /\ last < MaxId
        /\ UNCHANGED <<hint, index, todo, last, closed, panic, vic, log, atClose>>
    BY Zenon DEF Opened, loadVars, chanVars
  <1>2. /\ ~Loaded /\ active = 0 /\ dpc = "none" /\ ~closed /\ ~panic
        /\ TypeInv /\ DiskInv /\ IndexPoints /\ Placed /\ LoadInv /\ CloseInv
    BY <1>1, Zenon DEF StoreInv, Loaded
  <1>3. PICK a \in Ids : a = last + 1 /\ a \in 0..MaxId /\ last < a
    <2>1. last \in Nat /\ last + 1 \in Ids /\ last + 1 \in 0..MaxId /\ last < last + 1
      BY <1>1, <1>2, PackStoreAssumption DEF TypeInv, Ids
    <2> QED
      BY <2>1, Zenon
  <1>4. 1 \in Tiers /\ last \in Nat /\ ~(a <= last)
    BY <1>2, <1>3, PackStoreAssumption DEF Tiers, TypeInv, Ids
  <1>5. \A t \in Tiers, id \in Ids : Exists(t, id) => tierOf[id] = t /\ tierOf[id] # 0 /\ id <= last
    BY <1>1, <1>2 DEF LoadInv, Tiers
  <1>6. \A t \in Tiers, id \in Ids : Hinted(t, id) => id <= last
    <2> SUFFICES ASSUME NEW t \in Tiers, NEW id \in Ids, Hinted(t, id) PROVE id <= last
      BY Zenon
    <2>1. PICK u \in Tiers, top \in Ids : Exists(u, top) /\ IdsBelow(top)
      BY <1>2, Zenon DEF DiskInv, TopExists
    <2>2. top <= last /\ id <= top
      BY <2>1, <1>5, Zenon DEF IdsBelow
    <2> QED
      BY <2>2, <1>4 DEF Ids
  <1>7. \A t \in Tiers : ~Exists(t, a) /\ ~Hinted(t, a)
    BY <1>4, <1>5, <1>6, Zenon
  <1>8. tierOf[a] = 0
    BY <1>2, <1>4, Zenon DEF LoadInv
  <1>9. /\ file' = [file EXCEPT ![1][a] = <<>>]
        /\ tierOf' = [tierOf EXCEPT ![a] = 1]
        /\ active' = a /\ state' = "up" /\ dpc' = "range"
    BY <1>3, <1>4, <1>7, Zenon DEF Opened, Exists
  <1>10. <<>> \in PackFiles /\ Len(<<>>) = 0 /\ <<>> # NoFile
    <2>1. <<>> \in PackFiles
      BY DEF PackFiles
    <2> QED
      BY <2>1, Sentinels, Zenon
  <1>11. /\ file' \in [Tiers -> [Ids -> PackFiles \cup {NoFile}]]
         /\ file'[1][a] = <<>>
         /\ \A u \in Tiers, j \in Ids : u # 1 \/ j # a => file'[u][j] = file[u][j]
    BY <1>2, <1>4, <1>9, <1>10, Stored DEF TypeInv
  <1>12. /\ tierOf' \in [Ids -> 0..NTiers] /\ tierOf'[a] = 1
         /\ \A j \in Ids : j # a => tierOf'[j] = tierOf[j]
    BY <1>2, <1>9, PackStoreAssumption DEF TypeInv
  <1>13. TypeInv'
    BY <1>1, <1>2, <1>3, <1>9, <1>11, <1>12, Zenon DEF TypeInv
  <1>14. \A u \in Tiers, j \in Ids : Exists(u, j)' <=> Exists(u, j) \/ (u = 1 /\ j = a)
    BY <1>10, <1>11, Zenon DEF Exists
  <1>15. \A u \in Tiers, j \in Ids, i \in Nat : HasRec(u, j, i)' =>
           HasRec(u, j, i) /\ file'[u][j] = file[u][j] /\ (u # 1 \/ j # a)
    <2> SUFFICES ASSUME NEW u \in Tiers, NEW j \in Ids, NEW i \in Nat, HasRec(u, j, i)'
                 PROVE  HasRec(u, j, i) /\ file'[u][j] = file[u][j] /\ (u # 1 \/ j # a)
      BY Zenon
    <2>1. ~(u = 1 /\ j = a)
      BY <1>10, <1>11 DEF HasRec
    <2> QED
      BY <2>1, <1>11, Zenon DEF HasRec, Exists
  <1>16. RecordsWritten' /\ CopiesAgree' /\ HintsAgree'
    <2>1. \A u \in Tiers, j \in Ids, i \in Nat : HasRec(u, j, i)' =>
            HasRec(u, j, i) /\ file'[u][j][i] = file[u][j][i]
      BY <1>15, Zenon
    <2>2. \A u \in Tiers, j \in Ids, k \in Keys :
            Hinted(u, j)' /\ k \in DOMAIN hint'[u][j] =>
              /\ hint'[u][j][k] \in Nat
              /\ Hinted(u, j) /\ k \in DOMAIN hint[u][j] /\ hint[u][j][k] = hint'[u][j][k]
      BY <1>1, <1>2, HintsKept, Zenon DEF Hinted
    <2> QED
      BY <1>1, <1>2, <2>1, <2>2, NothingNew, Zenon DEF DiskInv
  <1>17. TornLast'
    <2> SUFFICES ASSUME NEW u \in Tiers, NEW j \in Ids, Exists(u, j)',
                        NEW i \in 1..Len(file'[u][j]), i < Len(file'[u][j])
                 PROVE  file'[u][j][i] # Torn
      BY Zenon DEF TornLast
    <2>1. ~(u = 1 /\ j = a)
      BY <1>10, <1>11
    <2> QED
      <3>1. PICK recs : recs = file[u][j] /\ recs = file'[u][j] /\ Exists(u, j)
        BY <2>1, <1>11, <1>14, Zenon
      <3>2. \A n \in 1..Len(recs) : n < Len(recs) => recs[n] # Torn
        BY <3>1, <1>2, Zenon DEF DiskInv, TornLast
      <3> QED
        BY <3>1, <3>2, Zenon
  <1>18. IdsBelow(a)'
    <2>1. \A t \in Tiers, id \in Ids : Exists(t, id)' \/ Hinted(t, id)' => id <= a
      BY <1>1, <1>3, <1>4, <1>5, <1>6, <1>14 DEF Hinted, Ids
    <2> QED
      BY <2>1, Zenon DEF IdsBelow
  <1>19. Exists(1, a)'
    BY <1>10, <1>11, Zenon DEF Exists
  <1>20. HintsOfCopies'
    BY <1>1, <1>2, <1>7, <1>14, Zenon DEF DiskInv, HintsOfCopies, Hinted
  <1>21. DiskInv'
    BY <1>16, <1>17, <1>18, <1>19, <1>20, ActiveIsTop, Zenon DEF DiskInv
  <1>22. \A j \in Ids : tierOf[j] # 0 =>
           /\ tierOf[j] \in Tiers /\ j # a /\ tierOf'[j] = tierOf[j]
           /\ file'[tierOf[j]][j] = file[tierOf[j]][j]
    BY <1>2, <1>8, <1>11, <1>12, PackStoreAssumption DEF TypeInv, Tiers
  <1>23. \A k \in Keys : index[k] # NoLoc => index[k].pack \in Ids /\ tierOf[index[k].pack] # 0
    BY <1>2 DEF IndexPoints, TypeInv
  <1>24. IndexPoints'
    <2> SUFFICES ASSUME NEW k \in Keys, index[k] # NoLoc
                 PROVE  LET recs == file'[tierOf'[index[k].pack]][index[k].pack]
                        IN  /\ tierOf'[index[k].pack] # 0
                            /\ recs # NoFile
                            /\ index[k].at <= Len(recs)
                            /\ recs[index[k].at] # Torn
                            /\ recs[index[k].at].key = k
      BY <1>1, Zenon DEF IndexPoints
    <2>1. PICK p \in Ids : index[k].pack = p /\ tierOf[p] # 0
      BY <1>23, Zenon
    <2>2. tierOf'[p] = tierOf[p] /\ file'[tierOf[p]][p] = file[tierOf[p]][p]
      BY <2>1, <1>22, Zenon
    <2>3. PICK recs : recs = file[tierOf[p]][p] /\ recs = file'[tierOf'[p]][p]
      BY <2>2, Zenon
    <2>4. /\ recs # NoFile /\ index[k].at <= Len(recs)
          /\ recs[index[k].at] # Torn /\ recs[index[k].at].key = k
      BY <2>1, <2>3, <1>2, Zenon DEF IndexPoints
    <2> QED
      BY <2>1, <2>2, <2>3, <2>4, Zenon
  <1>25. Placed'
    <2> SUFFICES ASSUME NEW j \in Ids, tierOf'[j] # 0 PROVE file'[tierOf'[j]][j] # NoFile
      BY Zenon DEF Placed, Exists
    <2>1. CASE j = a
      BY <2>1, <1>10, <1>11, <1>12, Zenon
    <2>2. CASE j # a
      BY <2>2, <1>2, <1>12, <1>22, Zenon DEF Placed, Exists
    <2> QED
      BY <2>1, <2>2, Zenon
  <1>26. OnePlace'
    <2> SUFFICES ASSUME NEW t \in Tiers, NEW id \in Ids, Exists(t, id)'
                 PROVE  tierOf'[id] # 0 /\ t = tierOf'[id]
      BY Zenon DEF OnePlace
    <2>1. CASE t = 1 /\ id = a
      BY <2>1, <1>12
    <2>2. CASE Exists(t, id)
      BY <2>2, <1>5, <1>22, Zenon
    <2> QED
      BY <2>1, <2>2, <1>14, Zenon
  <1>27. OneHint'
    <2> SUFFICES ASSUME NEW t \in Tiers, NEW id \in Ids,
                        tierOf'[id] # 0, tierOf'[id] < t, Hinted(t, id)
                 PROVE  FALSE
      BY <1>1, Zenon DEF OneHint, Hinted
    <2>1. id # a
      BY <1>7, Zenon
    <2>2. tierOf'[id] = tierOf[id] /\ tierOf[id] \in Tiers
      BY <2>1, <1>12, <1>22, Zenon
    <2>3. Exists(tierOf[id], id)
      BY <2>2, <1>2, Zenon DEF Placed
    <2>4. Exists(t, id)
      BY <2>2, <2>3, <1>2, Zenon DEF DiskInv, HintsOfCopies
    <2>5. tierOf[id] = t
      BY <2>4, <1>5, Zenon
    <2> QED
      BY <2>2, <2>5 DEF Tiers
  <1>28. ActiveInv'
    <2>1. hint'[1][a] = NoFile
      BY <1>1, <1>4, <1>7, Zenon DEF Hinted
    <2> QED
      BY <1>9, <1>10, <1>11, <1>12, <1>18, <2>1 DEF ActiveInv, Hinted, IdsBelow, Exists
  <1>29. SealedInv'
    <2>1. \A id \in Ids : tierOf'[id] # 0 /\ id # active' => (Hinted(tierOf[id], id))'
      BY <1>1, <1>2, <1>9, <1>12, Zenon DEF LoadInv, Hinted
    <2>2. \A k \in Keys : index'[k] # NoLoc => IndexHinted(k)'
      <3> SUFFICES ASSUME NEW k \in Keys, index[k] # NoLoc PROVE IndexHinted(k)'
        BY <1>1, Zenon
      <3>1. PICK p \in Ids : index[k].pack = p /\ tierOf[p] # 0
        BY <1>23, Zenon
      <3>2. tierOf'[p] = tierOf[p] /\ IndexHinted(k)
        BY <3>1, <1>2, <1>22, Zenon DEF LoadInv
      <3> QED
        BY <3>1, <3>2, <1>1, Zenon DEF IndexHinted, Hinted
    <2>3. \A k \in Keys, q \in Ids :
            (index'[k] # NoLoc /\ index'[k].pack < q /\ tierOf'[q] # 0 /\ q # active')
               => ~Entry(q, k)'
      <3> SUFFICES ASSUME NEW k \in Keys, NEW q \in Ids,
                          index[k] # NoLoc, index[k].pack < q, tierOf'[q] # 0, q # a
                   PROVE  ~Entry(q, k)'
        BY <1>1, <1>9, Zenon
      <3>1. /\ tierOf'[q] = tierOf[q] /\ tierOf[q] # 0
            /\ file'[tierOf[q]][q] = file[tierOf[q]][q]
        BY <1>12, <1>22, Zenon
      <3>2. index[k].pack \in Ids
        BY <1>23, Zenon
      <3>3. ~(index[k].pack >= q)
        BY <3>2 DEF Ids
      <3>4. ~Entry(q, k)
        BY <3>1, <3>3, <1>2, Zenon DEF LoadInv
      <3> QED
        BY <3>1, <3>4, <1>1, Zenon DEF Entry, Hinted, HasRec, Exists
    <2> QED
      BY <2>1, <2>2, <2>3, Zenon DEF SealedInv
  <1>30. VictimInv'
    BY <1>9, Zenon DEF VictimInv
  <1> QED
    BY <1>1, <1>2, <1>9, <1>13, <1>21, <1>24, <1>25, <1>26, <1>27, <1>28, <1>29, <1>30, Zenon
       DEF StoreInv, ServeInv, Loaded

----------------------------------------------------------------------------
(* The end of a process *)

\* Close has sealed the active pack: the next start finds what the index has.
LEMMA SealedFound ==
  ASSUME StoreInv, Loaded, UNCHANGED <<file, log>>,
         hint' = [hint EXCEPT ![1][active] = SealedHint(active, index)],
         NEW k \in Keys, index[k] # NoLoc,
         NEW p, p = index[k].pack, NEW t, t = tierOf[p], NEW n, n = index[k].at
  PROVE  /\ t \in Tiers /\ p \in Ids /\ n \in Nat \ {0}
         /\ FoundAt(k, t, p, n)'
         /\ file'[t][p][n].ver = Value(k)
  <1>1. /\ TypeInv /\ IndexPoints /\ Placed /\ ServeInv
        /\ 1 \in Tiers /\ active \in Ids /\ tierOf[active] = 1
    BY ActiveAlone, Zenon
  <1>2. PICK h : h = SealedHint(active, index)
    BY Zenon
  <1>3. /\ hint'[1][active] = h
        /\ \A u \in Tiers, j \in Ids : u # 1 \/ j # active => hint'[u][j] = hint[u][j]
    BY <1>2, SealDisk, Zenon
  <1>4. /\ h \in Hints
        /\ \A x \in DOMAIN h : x \in Keys /\ index[x] # NoLoc /\ index[x].pack = active
        /\ \A x \in Keys : index[x] # NoLoc /\ index[x].pack = active
                             => x \in DOMAIN h /\ h[x] = index[x].at
    BY <1>1, <1>2, SealedIs DEF TypeInv
  <1>5. t \in Tiers /\ p \in Ids /\ n \in Nat \ {0} /\ HasRec(t, p, n)
    BY <1>1, IndexRecord, Zenon
  <1>6. FirstCopy(t, p)'
    <2>1. \A u \in Tiers : u < t => ~Exists(u, p)
      BY <1>1, <1>5 DEF ServeInv, OnePlace, Tiers
    <2> QED
      BY <1>5, <2>1, Zenon DEF FirstCopy, HasRec, Exists
  <1>7. hint'[t][p] # NoFile /\ k \in DOMAIN hint'[t][p] /\ hint'[t][p][k] = n
    <2>1. CASE p = active
      <3>1. t = 1 /\ hint'[t][p] = h
        BY <2>1, <1>1, <1>3, Zenon
      <3>2. k \in DOMAIN h /\ h[k] = n
        BY <2>1, <1>4, Zenon
      <3> QED
        BY <3>1, <3>2, <1>4, Sentinels, Zenon
    <2>2. CASE p # active
      <3>1. IndexHinted(k)
        BY <2>2, <1>1, Zenon DEF ServeInv, SealedInv
      <3>2. hint'[t][p] = hint[t][p]
        BY <2>2, <1>3, <1>5, Zenon
      <3> QED
        BY <3>1, <3>2, Zenon DEF IndexHinted, Hinted
    <2> QED
      BY <2>1, <2>2, Zenon
  <1>8. ASSUME NEW u \in Tiers, NEW q \in Ids, FirstCopy(u, q)', p < q
        PROVE  hint'[u][q] # NoFile /\ ~(k \in DOMAIN hint'[u][q] /\ HasRec(u, q, hint[u][q][k])')
    <2>1. Exists(u, q) /\ \A v \in Tiers : v < u => ~Exists(v, q)
      BY <1>8, Zenon DEF FirstCopy, Exists
    <2>2. tierOf[q] # 0 /\ tierOf[q] \in Tiers /\ (u = tierOf[q] \/ u = tierOf[q] + 1)
      BY <2>1, <1>1, PackStoreAssumption DEF ServeInv, OnePlace, TypeInv, Tiers
    <2>3. Exists(tierOf[q], q)
      BY <2>2, <1>1, Zenon DEF Placed
    <2>4. u = tierOf[q]
      <3>1. u = tierOf[q] + 1 => tierOf[q] < u
        BY <2>2 DEF Tiers
      <3> QED
        BY <2>1, <2>2, <2>3, <3>1, Zenon
    <2>5. CASE q = active
      <3>1. hint'[u][q] = h
        BY <2>4, <2>5, <1>1, <1>3, Zenon
      <3>2. k \notin DOMAIN h
        BY <2>5, <1>4, <1>5, <1>8 DEF Ids
      <3> QED
        BY <3>1, <3>2, <1>4, Sentinels, Zenon
    <2>6. CASE q # active
      <3>1. hint'[u][q] = hint[u][q]
        BY <2>6, <1>3, Zenon
      <3>2. Hinted(u, q) /\ ~Entry(q, k)
        BY <2>2, <2>4, <2>6, <1>1, <1>8, Zenon DEF ServeInv, SealedInv
      <3> QED
        BY <2>4, <3>1, <3>2, Zenon DEF Entry, Hinted, HasRec, Exists
    <2> QED
      BY <2>5, <2>6, Zenon
  <1>9. FoundAt(k, t, p, n)'
    BY <1>5, <1>6, <1>7, <1>8, Zenon DEF FoundAt, Hinted, HasRec, Exists
  <1>10. file'[t][p][n].ver = Value(k)
    BY Zenon DEF Value
  <1> QED
    BY <1>5, <1>9, <1>10, Zenon

\* A process that does not close the store leaves no promise behind.
LEMMA NoPromise ==
  ASSUME atClose' = [k \in Keys |-> 0]
  PROVE  CloseInv'
  BY Zenon DEF CloseInv

\* Close seals the active pack, or fails to.
LEMMA ClosedInv ==
  ASSUME StoreInv, Closed
  PROVE  StoreInv'
  <1>1. /\ Loaded /\ state' = "down" /\ Forgotten /\ UNCHANGED <<file, log>>
    BY Zenon DEF Closed, Loaded
  <1>2. TypeInv /\ DiskInv /\ active \in Ids
    BY <1>1, ActiveAlone, Zenon
  <1>3. CASE UNCHANGED hint /\ atClose' = [k \in Keys |-> 0]
    <2>1. TypeInv'
      BY <1>1, <1>2, <1>3, ForgottenType, Zenon DEF TypeInv
    <2>2. DiskInv'
      BY <1>1, <1>2, <1>3, SameDisk, Zenon
    <2> QED
      BY <1>1, <1>3, <2>1, <2>2, NoPromise, ForgottenInv, Zenon
  <1>4. CASE /\ hint' = [hint EXCEPT ![1][active] = SealedHint(active, index)]
             /\ atClose' = [k \in Keys |-> Value(k)]
    <2>1. hint' \in [Tiers -> [Ids -> Hints \cup {NoFile}]] /\ DiskInv'
      BY <1>1, <1>4, SealDisk, Zenon
    <2>2. TypeInv'
      BY <1>1, <1>2, <2>1, ForgottenType, Zenon DEF TypeInv
    <2>3. CloseInv'
      <3> SUFFICES ASSUME NEW k \in Keys, Value(k) # 0
                   PROVE  \E t \in Tiers, p \in Ids, n \in Nat \ {0} :
                            /\ FoundAt(k, t, p, n)'
                            /\ file'[t][p][n].ver = Value(k)
                            /\ tierOf'[p] # 0 => index'[k] = [pack |-> p, at |-> n]
                            /\ tierOf'[p] = 0 => index'[k] = NoLoc \/ index'[k].pack < p
        BY <1>4, Zenon DEF CloseInv
      <3>1. index[k] # NoLoc
        BY Zenon DEF Value
      <3>2. PICK p : p = index[k].pack
        BY Zenon
      <3>3. PICK t : t = tierOf[p]
        BY Zenon
      <3>4. PICK n : n = index[k].at
        BY Zenon
      <3>5. /\ t \in Tiers /\ p \in Ids /\ n \in Nat \ {0}
            /\ FoundAt(k, t, p, n)'
            /\ file'[t][p][n].ver = Value(k)
        BY <1>1, <1>4, <3>1, <3>2, <3>3, <3>4, SealedFound
      <3>6. index'[k] = NoLoc /\ tierOf'[p] = 0
        BY <1>1, <3>5, Zenon DEF Forgotten
      <3> QED
        BY <3>5, <3>6, Zenon
    <2> QED
      BY <1>1, <2>1, <2>2, <2>3, ForgottenInv, Zenon
  <1> QED
    BY <1>3, <1>4, Zenon DEF Closed

\* A crash while a Put writes tears the record it appends.
LEMMA CrashInv ==
  ASSUME StoreInv, Crash
  PROVE  StoreInv'
  <1>1. /\ state' = "down" /\ Forgotten /\ UNCHANGED <<hint, log>>
        /\ atClose' = [k \in Keys |-> 0]
        /\ \/ UNCHANGED file
           \/ state = "up" /\ file' = [file EXCEPT ![1][active] = Append(@, Torn)]
    BY Zenon DEF Crash, Crashed
  <1>2. CloseInv' /\ TypeInv /\ DiskInv
    BY <1>1, NoPromise, Zenon DEF StoreInv
  <1>3. CASE UNCHANGED file
    <2>1. TypeInv'
      BY <1>1, <1>2, <1>3, ForgottenType, Zenon DEF TypeInv
    <2>2. DiskInv'
      BY <1>1, <1>2, <1>3, SameDisk, Zenon
    <2> QED
      BY <1>1, <1>2, <2>1, <2>2, ForgottenInv, Zenon
  <1>4. CASE state = "up" /\ file' = [file EXCEPT ![1][active] = Append(@, Torn)]
    <2>1. Loaded
      BY <1>4, Zenon DEF Loaded
    <2>2. /\ 1 \in Tiers /\ active \in Ids /\ Exists(1, active) /\ file[1][active] \in PackFiles
          /\ ServeInv
      BY <2>1, ActiveAlone, Zenon
    <2>3. PICK f : f = Append(file[1][active], Torn)
      BY Zenon
    <2>4. /\ f \in PackFiles /\ Len(f) = Len(file[1][active]) + 1
          /\ Len(file[1][active]) \in Nat
          /\ \A i \in 1..Len(file[1][active]) : f[i] = file[1][active][i]
          /\ f[Len(f)] = Torn
      BY <2>2, <2>3 DEF PackFiles
    <2>5. /\ file' \in [Tiers -> [Ids -> PackFiles \cup {NoFile}]]
          /\ file'[1][active] = f
          /\ \A u \in Tiers, j \in Ids : u # 1 \/ j # active => file'[u][j] = file[u][j]
      BY <1>2, <1>4, <2>2, <2>3, <2>4, Stored DEF TypeInv
    <2>6. TypeInv'
      BY <1>1, <1>2, <2>5, ForgottenType, Zenon DEF TypeInv
    <2>7. \A u \in Tiers, j \in Ids : Exists(u, j)' <=> Exists(u, j)
      BY <2>2, <2>4, <2>5, Sentinels DEF Exists
    <2>8. \A u \in Tiers, j \in Ids, i \in Nat : HasRec(u, j, i)' =>
            HasRec(u, j, i) /\ file'[u][j][i] = file[u][j][i]
      <3> SUFFICES ASSUME NEW u \in Tiers, NEW j \in Ids, NEW i \in Nat, HasRec(u, j, i)'
                   PROVE  HasRec(u, j, i) /\ file'[u][j][i] = file[u][j][i]
        BY Zenon
      <3>1. CASE u = 1 /\ j = active
        <4>1. i \in 1..Len(f) /\ f[i] # Torn
          BY <3>1, <2>5, Zenon DEF HasRec
        <4>2. i \in 1..Len(file[1][active])
          BY <4>1, <2>4
        <4> QED
          BY <3>1, <4>1, <4>2, <2>2, <2>4, <2>5, Zenon DEF HasRec
      <3>2. CASE ~(u = 1 /\ j = active)
        BY <3>2, <2>5, Zenon DEF HasRec, Exists
      <3> QED
        BY <3>1, <3>2, Zenon
    <2>9. RecordsWritten' /\ CopiesAgree' /\ HintsAgree'
      <3>1. \A u \in Tiers, j \in Ids, k \in Keys :
              Hinted(u, j)' /\ k \in DOMAIN hint'[u][j] =>
                /\ hint'[u][j][k] \in Nat
                /\ Hinted(u, j) /\ k \in DOMAIN hint[u][j] /\ hint[u][j][k] = hint'[u][j][k]
        BY <1>1, <1>2, HintsKept, Zenon DEF Hinted
      <3> QED
        BY <1>1, <1>2, <2>8, <3>1, NothingNew DEF DiskInv
    <2>10. TornLast'
      <3> SUFFICES ASSUME NEW u \in Tiers, NEW j \in Ids, Exists(u, j)',
                          NEW i \in 1..Len(file'[u][j]), i < Len(file'[u][j])
                   PROVE  file'[u][j][i] # Torn
        BY Zenon DEF TornLast
      <3>1. CASE u = 1 /\ j = active
        <4>1. i \in 1..Len(file[1][active]) /\ file'[u][j][i] = file[1][active][i]
          BY <3>1, <2>4, <2>5
        <4> QED
          BY <4>1, <2>2, Zenon DEF ServeInv, ActiveInv
      <3>2. CASE ~(u = 1 /\ j = active)
        BY <3>2, <1>2, <2>5 DEF DiskInv, TornLast, Exists
      <3> QED
        BY <3>1, <3>2, Zenon
    <2>11. TopExists' /\ HintsOfCopies'
      BY <1>1, <1>2, <2>7, Zenon DEF DiskInv, TopExists, IdsBelow, HintsOfCopies, Hinted
    <2>12. DiskInv'
      BY <2>9, <2>10, <2>11, Zenon DEF DiskInv
    <2> QED
      BY <1>1, <1>2, <2>6, <2>12, ForgottenInv, Zenon
  <1> QED
    BY <1>1, <1>3, <1>4, Zenon

\* A pack of which n records and perhaps a part of the next are left.
Cut(recs, n) ==
  IF n < Len(recs) THEN Append(SubSeq(recs, 1, n), Torn) ELSE SubSeq(recs, 1, n)

\* A pack that has lost its tail has a prefix of its records, the last one torn.
LEMMA TailLost ==
  ASSUME NEW recs \in PackFiles, NEW n \in 0..Len(recs), NEW f, f = Cut(recs, n)
  PROVE  /\ f \in PackFiles
         /\ \A i \in 1..Len(f) : i < Len(f) \/ f[i] # Torn => i \in 1..Len(recs) /\ f[i] = recs[i]
         /\ Len(f) <= Len(recs)
  <1>1. PICK w : w = SubSeq(recs, 1, n)
    BY Zenon
  <1>2. w \in PackFiles /\ Len(w) = n /\ \A i \in 1..n : w[i] = recs[i]
    BY <1>1, Prefix DEF PackFiles
  <1>3. n \in Nat /\ Len(recs) \in Nat
    BY DEF PackFiles
  <1>4. CASE n < Len(recs)
    <2>1. f = Append(w, Torn)
      BY <1>1, <1>4, Zenon DEF Cut
    <2>2. /\ f \in PackFiles /\ Len(f) = n + 1 /\ f[n + 1] = Torn
          /\ \A i \in 1..n : f[i] = w[i]
      BY <2>1, <1>2, <1>3 DEF PackFiles
    <2>3. ASSUME NEW i \in 1..Len(f), i < Len(f) \/ f[i] # Torn
          PROVE  i \in 1..Len(recs) /\ f[i] = recs[i]
      <3>1. i \in 1..n
        BY <2>2, <2>3, <1>3
      <3> QED
        BY <3>1, <2>2, <1>2, <1>3, <1>4
    <2>4. Len(f) <= Len(recs)
      BY <2>2, <1>3, <1>4
    <2> QED
      BY <2>2, <2>3, <2>4, Zenon
  <1>5. CASE ~(n < Len(recs))
    <2>1. f = w /\ n = Len(recs)
      BY <1>1, <1>3, <1>5 DEF Cut
    <2>2. f \in PackFiles /\ Len(f) = Len(recs) /\ \A i \in 1..Len(recs) : f[i] = recs[i]
      BY <2>1, <1>2, Zenon
    <2> QED
      BY <2>2, <1>3
  <1> QED
    BY <1>4, <1>5, Zenon

\* A power loss takes the tail of a pack, or part of a hint: the record or entry that
\* is left was there before.
LEMMA PowerLossInv ==
  ASSUME StoreInv, PowerLoss
  PROVE  StoreInv'
  <1>1. /\ state' = "down" /\ Forgotten /\ UNCHANGED log
        /\ atClose' = [k \in Keys |-> 0]
    BY Zenon DEF PowerLoss, Crashed
  <1>2. CloseInv' /\ TypeInv /\ DiskInv
    BY <1>1, NoPromise, Zenon DEF StoreInv
  <1>3. PICK t \in Tiers, id \in Ids :
          /\ Exists(t, id)
          /\ \E n \in 0..Len(file[t][id]) :
               file' = [file EXCEPT ![t][id] = Cut(file[t][id], n)]
          /\ \/ hint' = [hint EXCEPT ![t][id] = NoFile]
             \/ /\ Hinted(t, id)
                /\ \E K \in SUBSET DOMAIN hint[t][id] :
                     hint' = [hint EXCEPT ![t][id] = [k \in K |-> @[k]]]
    BY Zenon DEF PowerLoss, Exists, Hinted, Cut
  <1>4. PICK recs \in PackFiles : recs = file[t][id]
    BY <1>2, <1>3 DEF TypeInv, Exists
  <1>5. PICK f : /\ f \in PackFiles
                 /\ file' = [file EXCEPT ![t][id] = f]
                 /\ \A i \in 1..Len(f) : i < Len(f) \/ f[i] # Torn =>
                      i \in 1..Len(recs) /\ f[i] = recs[i]
                 /\ Len(f) <= Len(recs)
    <2>1. PICK n \in 0..Len(recs) : file' = [file EXCEPT ![t][id] = Cut(recs, n)]
      BY <1>3, <1>4, Zenon
    <2>2. PICK g : g = Cut(recs, n)
      BY Zenon
    <2>3. /\ g \in PackFiles
          /\ \A i \in 1..Len(g) : i < Len(g) \/ g[i] # Torn =>
               i \in 1..Len(recs) /\ g[i] = recs[i]
          /\ Len(g) <= Len(recs)
      BY <2>2, TailLost, Zenon
    <2>4. file' = [file EXCEPT ![t][id] = g]
      BY <2>1, <2>2, Zenon
    <2> QED
      BY <2>3, <2>4, Zenon
  <1>6. PICK h : /\ h \in Hints \cup {NoFile}
                 /\ hint' = [hint EXCEPT ![t][id] = h]
                 /\ h # NoFile => /\ Hinted(t, id)
                                  /\ \A k \in DOMAIN h : /\ k \in DOMAIN hint[t][id]
                                                         /\ h[k] = hint[t][id][k]
    <2>1. CASE hint' = [hint EXCEPT ![t][id] = NoFile]
      BY <2>1, Zenon
    <2>2. CASE /\ Hinted(t, id)
               /\ \E K \in SUBSET DOMAIN hint[t][id] :
                    hint' = [hint EXCEPT ![t][id] = [k \in K |-> @[k]]]
      <3>1. PICK K \in SUBSET DOMAIN hint[t][id] :
              hint' = [hint EXCEPT ![t][id] = [k \in K |-> hint[t][id][k]]]
        BY <2>2, <1>2, Zenon DEF TypeInv
      <3>2. PICK g : g = [k \in K |-> hint[t][id][k]]
        BY Zenon
      <3>3. PICK D \in SUBSET Keys : hint[t][id] \in [D -> Nat \ {0}]
        <4>1. hint[t][id] \in Hints
          BY <2>2, <1>2 DEF TypeInv, Hinted
        <4> QED
          BY <4>1, Zenon DEF Hints
      <3>4. g = [k \in K |-> hint[t][id][k]] /\ K \in SUBSET Keys /\ K \subseteq D
        BY <3>1, <3>2, <3>3, Zenon
      <3>5. g \in [K -> Nat \ {0}]
        BY <3>3, <3>4, Zenon
      <3>6. g \in Hints
        BY <3>4, <3>5, Zenon DEF Hints
      <3>7. hint' = [hint EXCEPT ![t][id] = g]
        BY <3>1, <3>2, Zenon
      <3>8. \A k \in DOMAIN g : k \in DOMAIN hint[t][id] /\ g[k] = hint[t][id][k]
        BY <3>1, <3>4, Zenon
      <3> QED
        BY <2>2, <3>6, <3>7, <3>8, Zenon
    <2> QED
      BY <1>3, <2>1, <2>2, Zenon
  <1>7. /\ file' \in [Tiers -> [Ids -> PackFiles \cup {NoFile}]]
        /\ file'[t][id] = f
        /\ \A u \in Tiers, j \in Ids : u # t \/ j # id => file'[u][j] = file[u][j]
    BY <1>2, <1>5, Stored DEF TypeInv
  <1>8. /\ hint' \in [Tiers -> [Ids -> Hints \cup {NoFile}]]
        /\ hint'[t][id] = h
        /\ \A u \in Tiers, j \in Ids : u # t \/ j # id => hint'[u][j] = hint[u][j]
    BY <1>2, <1>6, Stored DEF TypeInv
  <1>9. TypeInv'
    BY <1>1, <1>2, <1>7, <1>8, ForgottenType, Zenon DEF TypeInv
  <1>10. \A u \in Tiers, j \in Ids : Exists(u, j)' <=> Exists(u, j)
    BY <1>3, <1>5, <1>7, Sentinels, Zenon DEF Exists
  <1>11. \A u \in Tiers, j \in Ids : Hinted(u, j)' => Hinted(u, j)
    BY <1>6, <1>8, Zenon DEF Hinted
  <1>12. \A u \in Tiers, j \in Ids, i \in Nat : HasRec(u, j, i)' =>
           HasRec(u, j, i) /\ file'[u][j][i] = file[u][j][i]
    <2> SUFFICES ASSUME NEW u \in Tiers, NEW j \in Ids, NEW i \in Nat, HasRec(u, j, i)'
                 PROVE  HasRec(u, j, i) /\ file'[u][j][i] = file[u][j][i]
      BY Zenon
    <2>1. CASE u = t /\ j = id
      <3>1. i \in 1..Len(f) /\ f[i] # Torn
        BY <2>1, <1>7, Zenon DEF HasRec
      <3>2. i \in 1..Len(recs) /\ f[i] = recs[i]
        BY <3>1, <1>5, Zenon
      <3> QED
        BY <2>1, <3>1, <3>2, <1>3, <1>4, <1>7, Zenon DEF HasRec
    <2>2. CASE ~(u = t /\ j = id)
      BY <2>2, <1>7, Zenon DEF HasRec, Exists
    <2> QED
      BY <2>1, <2>2, Zenon
  <1>13. \A u \in Tiers, j \in Ids, k \in Keys :
           Hinted(u, j)' /\ k \in DOMAIN hint'[u][j] =>
             /\ hint'[u][j][k] \in Nat
             /\ Hinted(u, j) /\ k \in DOMAIN hint[u][j] /\ hint[u][j][k] = hint'[u][j][k]
    <2> SUFFICES ASSUME NEW u \in Tiers, NEW j \in Ids, NEW k \in Keys,
                        Hinted(u, j)', k \in DOMAIN hint'[u][j]
                 PROVE  /\ hint'[u][j][k] \in Nat
                        /\ Hinted(u, j) /\ k \in DOMAIN hint[u][j]
                        /\ hint[u][j][k] = hint'[u][j][k]
      BY Zenon
    <2>1. Hinted(u, j) /\ k \in DOMAIN hint[u][j] /\ hint[u][j][k] = hint'[u][j][k]
      <3>1. CASE u = t /\ j = id
        BY <3>1, <1>6, <1>8, Zenon DEF Hinted
      <3>2. CASE ~(u = t /\ j = id)
        BY <3>2, <1>8, Zenon DEF Hinted
      <3> QED
        BY <3>1, <3>2, Zenon
    <2> QED
      BY <2>1, <1>2, HintsKept, Zenon
  <1>14. RecordsWritten' /\ CopiesAgree' /\ HintsAgree'
    BY <1>1, <1>2, <1>12, <1>13, NothingNew, Zenon DEF DiskInv
  <1>15. TornLast'
    <2> SUFFICES ASSUME NEW u \in Tiers, NEW j \in Ids, Exists(u, j)',
                        NEW i \in 1..Len(file'[u][j]), i < Len(file'[u][j])
                 PROVE  file'[u][j][i] # Torn
      BY Zenon DEF TornLast
    <2>1. CASE u = t /\ j = id
      <3>1. i \in 1..Len(recs) /\ f[i] = recs[i] /\ i < Len(recs)
        <4>1. i \in 1..Len(f) /\ i < Len(f) /\ Len(f) \in Nat /\ Len(recs) \in Nat
          BY <2>1, <1>5, <1>7 DEF PackFiles
        <4> QED
          BY <4>1, <1>5
      <3> QED
        BY <2>1, <3>1, <1>2, <1>3, <1>4, <1>7, Zenon DEF DiskInv, TornLast
    <2>2. CASE ~(u = t /\ j = id)
      BY <2>2, <1>2, <1>7 DEF DiskInv, TornLast, Exists
    <2> QED
      BY <2>1, <2>2, Zenon
  <1>16. HintsOfCopies'
    BY <1>2, <1>10, <1>11, Zenon DEF DiskInv, HintsOfCopies
  <1>17. TopExists'
    <2> SUFFICES ASSUME NEW u \in Tiers, NEW j \in Ids, Exists(u, j) \/ Hinted(u, j)
                 PROVE  \E v \in Tiers, top \in Ids : Exists(v, top)' /\ IdsBelow(top)'
      BY <1>10, <1>11, Zenon DEF TopExists
    <2>1. PICK v \in Tiers, top \in Ids : Exists(v, top) /\ IdsBelow(top)
      BY <1>2, Zenon DEF DiskInv, TopExists
    <2>2. Exists(v, top)' /\ IdsBelow(top)'
      BY <2>1, <1>10, <1>11, Zenon DEF IdsBelow
    <2> QED
      BY <2>2, Zenon
  <1>18. DiskInv'
    BY <1>14, <1>15, <1>16, <1>17, Zenon DEF DiskInv
  <1> QED
    BY <1>1, <1>2, <1>9, <1>18, ForgottenInv, Zenon

==============================================================================
