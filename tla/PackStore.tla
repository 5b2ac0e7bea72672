------------------------------ MODULE PackStore ------------------------------
(***************************************************************************)
(* jigd's blob store (pkgs/ji/jigd/src/store.go): packs of records in      *)
(* tiers of directories, an index in memory, a demoter that moves packs    *)
(* down and deletes them from the last tier, and what a crash leaves on    *)
(* disk for the next OpenStore.                                            *)
(*                                                                         *)
(* Put, Get and the switch of the demoter run under Store.mu, so each is   *)
(* one step; the copying of the demoter is not.  A value is the position   *)
(* of its Put in `log`; sizes are what SizeOf says of the key.  Recency is *)
(* left open: victim may choose any pack that is not mostly superseded.    *)
(***************************************************************************)
EXTENDS Integers, Sequences, FiniteSets, Sums

CONSTANTS
  Keys,
  SizeOf,     \* bytes of a record with this key
  PackLimit,  \* packLimit
  NTiers,
  Budget,     \* of each tier, 0: unbounded
  MaxId,      \* bound on pack ids
  MaxPuts,    \* bound on Puts and failing system calls
  MaxCrashes, \* bound on crashes of the daemon or the machine
  MaxErrors,  \* bound on failing system calls
  LoadErrors, \* the calls that may fail while OpenStore loads a pack
  NoFile, NoLoc, Torn

Tiers == 1..NTiers
Ids == 1..MaxId

Records == [key : Keys, ver : Nat]
Locs == [pack : Ids, at : Nat]

ASSUME PackStoreAssumption ==
  /\ IsFiniteSet(Keys)
  /\ SizeOf \in [Keys -> Nat \ {0}]
  /\ PackLimit \in Nat \ {0}
  /\ NTiers \in Nat \ {0}
  /\ Budget \in [Tiers -> Nat]
  /\ MaxId \in Nat /\ MaxPuts \in Nat /\ MaxCrashes \in Nat /\ MaxErrors \in Nat
  /\ LoadErrors \subseteq {"open", "truncate", "seal"}
  /\ Torn \notin Records
  /\ NoLoc \notin Locs
  /\ NoFile \notin Seq(Records \cup {Torn})
  /\ \A K \in SUBSET Keys : NoFile \notin [K -> Nat]

VARIABLES
  file,     \* file[t][id]: the records of a pack file, or NoFile
  hint,     \* hint[t][id]: where the hint file says the value of a key is, or NoFile
  index,    \* Store.index
  tierOf,   \* pack.tier for the ids in Store.packs, 0 for the others
  live,     \* pack.live
  total,    \* Tier.total
  active,   \* the id of Store.active
  state,    \* the daemon: "down", "loading", "refused" (OpenStore has returned an error), "up",
            \* "closing" (Close has set Store.closed), "draining" (it waits for the demoter)
  todo,     \* OpenStore: the pack files still to load
  last,     \* OpenStore: the highest id loaded
  tok,      \* the demote channel holds an element
  closed,   \* the demote channel is closed
  panic,    \* somebody sent on the closed channel
  dpc,      \* the demoter: "none", "range" (on its way to the channel), "wait" (blocked in the
            \* receive), "pick" (calling victim), "pack", "hint", "switch" and "evict" (in
            \* moveDown), "unlink" (still holding mu), "done"
  vic,      \* the pack the demoter moves
  log,      \* keys of the Puts so far (history)
  atClose,  \* what could be read if Close was the last to end the store, without an
            \* error (history)
  skipped,  \* OpenStore has skipped a pack (history)
  crashes,
  errors

diskVars == <<file, hint>>
memVars == <<index, tierOf, live, total, active>>
loadVars == <<todo, last>>
chanVars == <<tok, closed, panic>>
demoterVars == <<dpc, vic>>
vars == <<file, hint, index, tierOf, live, total, active, state, todo, last, tok,
          closed, panic, dpc, vic, log, atClose, skipped, crashes, errors>>

----------------------------------------------------------------------------
(* Pack files, hints and the index *)

RecSize(r) == IF r = Torn THEN 1 ELSE SizeOf[r.key]

Bytes(recs) == SumOver(DOMAIN recs, [i \in DOMAIN recs |-> RecSize(recs[i])])

KeyBytes(keys) == SumOver(keys, SizeOf)

\* pack.size
Size(id) == Bytes(file[tierOf[id]][id])

\* Mutant of HintEntries: entries past the end of the pack file are believed.
HintUnchecked(t, id) == hint[t][id]

\* The entries a hint lists that lie within the pack file: after a crash the hint
\* can outlive pack writes.
HintEntries(t, id) ==
  LET within == {k \in DOMAIN hint[t][id] : /\ hint[t][id][k] <= Len(file[t][id])
                                            /\ file[t][id][hint[t][id][k]] # Torn}
  IN  [k \in within |-> hint[t][id][k]]

\* The last record of each key.
LastOf(recs) ==
  {n \in 1..Len(recs) :
     recs[n] # Torn /\ \A m \in n + 1..Len(recs) : recs[m] = Torn \/ recs[m].key # recs[n].key}

\* The records a scan finds: the last one of each key before a torn tail.
ScanEntries(recs) ==
  [k \in {recs[n].key : n \in LastOf(recs)} |-> CHOOSE n \in LastOf(recs) : recs[n].key = k]

\* What Truncate leaves: a torn record is the last one.
Whole(recs) ==
  IF recs # <<>> /\ recs[Len(recs)] = Torn THEN SubSeq(recs, 1, Len(recs) - 1) ELSE recs

\* The value Get answers with, 0 for a miss.
Value(k) ==
  IF index[k] = NoLoc THEN 0
  ELSE file[tierOf[index[k].pack]][index[k].pack][index[k].at].ver

\* The hint file seal writes: what the index still finds in the pack.
SealedHint(id, idx) ==
  [k \in {x \in Keys : idx[x] # NoLoc /\ idx[x].pack = id} |-> idx[k].at]

\* Mutant of Adds: the pack loaded last wins.
AddsAlways(id, entries) == DOMAIN entries

\* add, for all entries of a pack: a key found in a newer pack stays there.
Adds(id, entries) ==
  {k \in DOMAIN entries : index[k] = NoLoc \/ index[k].pack <= id}

AddedIndex(id, entries) ==
  [k \in Keys |->
     IF k \in Adds(id, entries) THEN [pack |-> id, at |-> entries[k]] ELSE index[k]]

\* Mutant of MovedLive: a superseded value still counts for its old pack.
MovedLiveUpOnly(id, keys) ==
  [p \in Ids |-> IF p = id THEN live[p] + KeyBytes(keys) ELSE live[p]]

\* The keys whose value is in pack id.
KeysIn(id) == {k \in Keys : index[k] # NoLoc /\ index[k].pack = id}

\* Pack id gains the values of these keys, the packs that had them lose them.
MovedLive(id, keys) ==
  [p \in Ids |->
     (IF p = id THEN live[p] + KeyBytes(keys) ELSE live[p]) - KeyBytes(keys \cap KeysIn(p))]

Empty == [t \in Tiers |-> [id \in Ids |-> NoFile]]

\* A process without a store.
Forgotten ==
  /\ index' = [k \in Keys |-> NoLoc]
  /\ tierOf' = [id \in Ids |-> 0]
  /\ live' = [id \in Ids |-> 0]
  /\ total' = [t \in Tiers |-> 0]
  /\ active' = 0
  /\ todo' = {} /\ last' = 0
  /\ tok' = FALSE /\ closed' = FALSE /\ panic' = panic
  /\ dpc' = "none" /\ vic' = 0

Init ==
  /\ file = Empty /\ hint = Empty
  /\ index = [k \in Keys |-> NoLoc]
  /\ tierOf = [id \in Ids |-> 0]
  /\ live = [id \in Ids |-> 0]
  /\ total = [t \in Tiers |-> 0]
  /\ active = 0
  /\ state = "down"
  /\ todo = {} /\ last = 0
  /\ tok = FALSE /\ closed = FALSE /\ panic = FALSE
  /\ dpc = "none" /\ vic = 0
  /\ log = <<>>
  /\ atClose = [k \in Keys |-> 0]
  /\ skipped = FALSE /\ crashes = 0 /\ errors = 0

\* The bound on Puts and failing system calls together.
CallsLeft == Len(log) + errors < MaxPuts

\* A system call fails.
Error == errors < MaxErrors /\ CallsLeft /\ errors' = errors + 1

----------------------------------------------------------------------------
(* OpenStore *)

\* The daemon starts: the pack files of all tiers are to be loaded.
Open ==
  /\ state = "down"
  /\ state' = "loading"
  /\ todo' = {q \in Tiers \X Ids : file[q[1]][q[2]] # NoFile}
  /\ UNCHANGED <<diskVars, memVars, last, chanVars, demoterVars, log, atClose, skipped,
                 crashes, errors>>

\* Faster tiers first, in each the packs by name.
IsNext(t, id) ==
  /\ <<t, id>> \in todo
  /\ \A q \in todo : t < q[1] \/ (t = q[1] /\ id <= q[2])

\* A pack in two tiers (stopped in the middle of a demotion) keeps the fast copy.
RemoveDup(t, id) ==
  /\ IsNext(t, id)
  /\ tierOf[id] # 0
  /\ file' = [file EXCEPT ![t][id] = NoFile]
  /\ hint' = [hint EXCEPT ![t][id] = NoFile]
  /\ todo' = todo \ {<<t, id>>}
  /\ UNCHANGED <<memVars, state, last, chanVars, demoterVars, log, atClose, skipped,
                 crashes, errors>>

\* load of a pack that has a hint.
LoadHinted(t, id) ==
  LET entries == HintEntries(t, id)
  IN  /\ IsNext(t, id)
      /\ tierOf[id] = 0
      /\ hint[t][id] # NoFile
      /\ index' = AddedIndex(id, entries)
      /\ live' = MovedLive(id, Adds(id, entries))
      /\ tierOf' = [tierOf EXCEPT ![id] = t]
      /\ total' = [total EXCEPT ![t] = @ + Bytes(file[t][id])]
      /\ todo' = todo \ {<<t, id>>}
      /\ last' = IF id > last THEN id ELSE last
      /\ UNCHANGED <<diskVars, active, state, chanVars, demoterVars, log, atClose, skipped,
                     crashes, errors>>

\* load of a pack without one: scan it, truncate a torn tail and seal it.
LoadScanned(t, id) ==
  LET entries == ScanEntries(file[t][id])
      whole == Whole(file[t][id])
  IN  /\ IsNext(t, id)
      /\ tierOf[id] = 0
      /\ hint[t][id] = NoFile
      /\ file' = [file EXCEPT ![t][id] = whole]
      /\ index' = AddedIndex(id, entries)
      /\ live' = MovedLive(id, Adds(id, entries))
      /\ tierOf' = [tierOf EXCEPT ![id] = t]
      /\ total' = [total EXCEPT ![t] = @ + Bytes(whole)]
      /\ todo' = todo \ {<<t, id>>}
      /\ hint' = [hint EXCEPT ![t][id] = SealedHint(id, index')]
      /\ last' = IF id > last THEN id ELSE last
      /\ UNCHANGED <<active, state, chanVars, demoterVars, log, atClose, skipped, crashes,
                     errors>>

\* load fails and OpenStore logs the pack as skipped: it cannot be opened or statted,
\* or, when it is in packs and index already, its torn tail cannot be truncated
\* (Tier.total is not added to) or seal fails.
LoadFails(t, id) ==
  LET entries == ScanEntries(file[t][id])
      whole == Whole(file[t][id])
  IN  /\ IsNext(t, id)
      /\ tierOf[id] = 0
      /\ Error
      /\ \/ "open" \in LoadErrors /\ UNCHANGED <<file, index, live, tierOf, total>>
         \/ /\ hint[t][id] = NoFile
            /\ index' = AddedIndex(id, entries)
            /\ live' = MovedLive(id, Adds(id, entries))
            /\ tierOf' = [tierOf EXCEPT ![id] = t]
            /\ \/ /\ "truncate" \in LoadErrors /\ whole # file[t][id]
                  /\ UNCHANGED <<file, total>>
               \/ /\ "seal" \in LoadErrors
                  /\ file' = [file EXCEPT ![t][id] = whole]
                  /\ total' = [total EXCEPT ![t] = @ + Bytes(whole)]
      /\ todo' = todo \ {<<t, id>>}
      /\ skipped' = TRUE
      /\ UNCHANGED <<hint, active, state, last, chanVars, demoterVars, log, atClose, crashes>>

\* rotate(last + 1) creates the first active pack with O_EXCL and the demoter
\* starts, or OpenStore fails and the daemon exits.
Opened ==
  /\ state = "loading"
  /\ todo = {}
  /\ last < MaxId
  /\ IF file[1][last + 1] = NoFile
     THEN /\ file' = [file EXCEPT ![1][last + 1] = <<>>]
          /\ tierOf' = [tierOf EXCEPT ![last + 1] = 1]
          /\ active' = last + 1
          /\ state' = "up"
          /\ dpc' = "range"
     ELSE /\ state' = "refused"
          /\ UNCHANGED <<file, tierOf, active, dpc>>
  /\ UNCHANGED <<hint, index, live, total, loadVars, chanVars, vic, log, atClose, skipped,
                 crashes, errors>>

\* rotate cannot create the file: OpenStore returns the error.
OpenFails ==
  /\ state = "loading"
  /\ todo = {}
  /\ last < MaxId
  /\ Error
  /\ state' = "refused"
  /\ UNCHANGED <<diskVars, memVars, loadVars, chanVars, demoterVars, log, atClose, skipped,
                 crashes>>

----------------------------------------------------------------------------
(* Put *)

\* The demoter holds mu.
Locked == dpc = "unlink"

\* The record does not fit into the active pack: Put rotates first.
Full(k) == Size(active) > 0 /\ Size(active) + SizeOf[k] > PackLimit

\* rotate's O_EXCL lets the next id be created.
NextFree == active < MaxId /\ file[1][active + 1] = NoFile

\* Mutant of Kick: the channel has no buffer, a busy demoter misses the kick.
KickUnbuffered ==
  LET over == Budget[1] > 0 /\ total'[1] > Budget[1]
  IN  /\ tok' = (tok \/ (over /\ dpc = "wait"))
      /\ panic' = (panic \/ (over /\ closed))
      /\ UNCHANGED closed

\* kick, when the first tier is over its budget now.
Kick ==
  LET over == Budget[1] > 0 /\ total'[1] > Budget[1]
  IN  /\ tok' = (tok \/ over)
      /\ panic' = (panic \/ (over /\ closed))
      /\ UNCHANGED closed

\* Mutant of NewIndex: the first value of a key stays.
NewIndexFirstWins(k, a, n) ==
  IF index[k] = NoLoc THEN [index EXCEPT ![k] = [pack |-> a, at |-> n]] ELSE index

\* Put points the key at the record it has appended.
NewIndex(k, a, n) == [index EXCEPT ![k] = [pack |-> a, at |-> n]]

\* The body of a Put under mu: rotate if the pack is full, append, index, kick.
AppendRecord(k) ==
  LET a == IF Full(k) THEN active + 1 ELSE active
  IN  /\ Full(k) => NextFree
      /\ hint' = IF Full(k) THEN [hint EXCEPT ![1][active] = SealedHint(active, index)]
                            ELSE hint
      /\ file' = [file EXCEPT ![1][a] =
                    Append(IF Full(k) THEN <<>> ELSE @, [key |-> k, ver |-> Len(log) + 1])]
      /\ tierOf' = [tierOf EXCEPT ![a] = 1]
      /\ index' = NewIndex(k, a, Len(file'[1][a]))
      /\ live' = MovedLive(a, {k})
      /\ total' = [total EXCEPT ![1] = @ + SizeOf[k]]
      /\ active' = a
      /\ log' = Append(log, k)
      /\ Kick
      /\ UNCHANGED <<state, loadVars, demoterVars, atClose, skipped, crashes, errors>>

\* Mutant of Put: the check of closed is missing.
PutAfterClose(k) ==
  /\ state \in {"up", "closing", "draining"}
  /\ ~Locked
  /\ CallsLeft
  /\ AppendRecord(k)

Put(k) ==
  /\ state = "up"
  /\ ~Locked
  /\ CallsLeft
  /\ AppendRecord(k)

\* Put fails while rotating: seal fails, or it succeeds and the new pack cannot be
\* created, so the pack with the hint stays active.
RotateFails(k) ==
  /\ state = "up"
  /\ ~Locked
  /\ Full(k)
  /\ \/ Error /\ UNCHANGED hint
     \/ /\ hint' = [hint EXCEPT ![1][active] = SealedHint(active, index)]
        /\ \/ Error
           \/ active < MaxId /\ ~NextFree /\ UNCHANGED errors
  /\ UNCHANGED <<file, memVars, state, loadVars, chanVars, demoterVars, log, atClose,
                 skipped, crashes>>

\* Put fails after a rotation: the write is cut off again by Truncate.
WriteFails(k) ==
  /\ state = "up"
  /\ ~Locked
  /\ Full(k)
  /\ NextFree
  /\ Error
  /\ hint' = [hint EXCEPT ![1][active] = SealedHint(active, index)]
  /\ file' = [file EXCEPT ![1][active + 1] = <<>>]
  /\ tierOf' = [tierOf EXCEPT ![active + 1] = 1]
  /\ active' = active + 1
  /\ UNCHANGED <<index, live, total, state, loadVars, chanVars, demoterVars, log, atClose,
                 skipped, crashes>>

----------------------------------------------------------------------------
(* The demoter *)

quietVars == <<state, loadVars, panic, log, atClose, skipped, crashes>>

\* The demoter has found nothing to move and goes back to its channel: what is
\* kicked before it gets there waits in the buffer.
AwaitKick ==
  /\ dpc = "range"
  /\ dpc' = "wait"
  /\ UNCHANGED <<diskVars, memVars, quietVars, tok, closed, vic, errors>>

\* for range s.demote
Receive ==
  /\ dpc = "wait"
  /\ tok \/ closed
  /\ dpc' = IF tok THEN "pick" ELSE "done"
  /\ tok' = FALSE
  /\ UNCHANGED <<diskVars, memVars, quietVars, closed, vic, errors>>

Over(t) == Budget[t] > 0 /\ total[t] > Budget[t]

Sealed(t) == {id \in Ids : tierOf[id] = t /\ id # active}

\* The tiers victim looks at in order, and the packs it may choose from one.
Crowded == {t \in Tiers : Over(t) /\ Sealed(t) # {}}

Victims(t) ==
  LET superseded == {id \in Sealed(t) : live[id] * 2 < Size(id)}
  IN  IF superseded # {} THEN superseded ELSE Sealed(t)

Pick ==
  /\ dpc = "pick"
  /\ \/ Crowded = {} /\ dpc' = "range" /\ UNCHANGED vic
     \/ \E t \in Crowded :
          /\ \A u \in Crowded : t <= u
          /\ vic' \in Victims(t)
          /\ dpc' = IF t = NTiers THEN "evict" ELSE "pack"
  /\ UNCHANGED <<diskVars, memVars, quietVars, tok, closed, errors>>

\* moveDown of a pack in the last tier, under mu.
Evict ==
  /\ dpc = "evict"
  /\ index' = [k \in Keys |->
                 IF index[k] # NoLoc /\ index[k].pack = vic THEN NoLoc ELSE index[k]]
  /\ total' = [total EXCEPT ![NTiers] = @ - Size(vic)]
  /\ file' = [file EXCEPT ![NTiers][vic] = NoFile]
  /\ tierOf' = [tierOf EXCEPT ![vic] = 0]
  /\ live' = [live EXCEPT ![vic] = 0]
  /\ dpc' = "unlink"
  /\ UNCHANGED <<hint, active, quietVars, tok, closed, vic, errors>>

\* moveFile of the pack into the next tier; a copy that is there already stays.
CopyPack ==
  LET t == tierOf[vic]
  IN  /\ dpc = "pack"
      /\ file' = [file EXCEPT ![t + 1][vic] = IF @ = NoFile THEN file[t][vic] ELSE @]
      /\ dpc' = "hint"
      /\ UNCHANGED <<hint, memVars, quietVars, tok, closed, vic, errors>>

\* moveFile of the hint; without one moveDown fails and the demoter gives up.
CopyHint ==
  LET t == tierOf[vic]
  IN  /\ dpc = "hint"
      /\ IF hint[t][vic] = NoFile
         THEN dpc' = "range" /\ UNCHANGED hint
         ELSE /\ hint' = [hint EXCEPT ![t + 1][vic] = IF @ = NoFile THEN hint[t][vic] ELSE @]
              /\ dpc' = "switch"
      /\ UNCHANGED <<file, memVars, quietVars, tok, closed, vic, errors>>

\* The rest of moveDown, under mu.
Switch ==
  LET t == tierOf[vic]
  IN  /\ dpc = "switch"
      /\ total' = [total EXCEPT ![t] = @ - Size(vic), ![t + 1] = @ + Size(vic)]
      /\ tierOf' = [tierOf EXCEPT ![vic] = t + 1]
      /\ file' = [file EXCEPT ![t][vic] = NoFile]
      /\ dpc' = "unlink"
      /\ UNCHANGED <<hint, index, live, active, quietVars, tok, closed, vic, errors>>

\* The second os.Remove of moveDown.
Unlink ==
  LET from == IF tierOf[vic] = 0 THEN NTiers ELSE tierOf[vic] - 1
  IN  /\ dpc = "unlink"
      /\ hint' = [hint EXCEPT ![from][vic] = NoFile]
      /\ dpc' = "pick"
      /\ UNCHANGED <<file, memVars, quietVars, tok, closed, vic, errors>>

\* moveDown fails in moveFile or opening the moved pack.
MoveFails ==
  /\ dpc \in {"pack", "hint", "switch"}
  /\ Error
  /\ dpc' = "range"
  /\ UNCHANGED <<diskVars, memVars, quietVars, tok, closed, vic>>

----------------------------------------------------------------------------
(* Close, crashes *)

\* Close: set closed under mu, ...
SetClosed ==
  /\ state = "up"
  /\ ~Locked
  /\ state' = "closing"
  /\ UNCHANGED <<diskVars, memVars, loadVars, chanVars, demoterVars, log, atClose, skipped,
                 crashes, errors>>

\* ... close the channel and wait for the demoter, ...
CloseChannel ==
  /\ state = "closing"
  /\ state' = "draining"
  /\ closed' = TRUE
  /\ UNCHANGED <<diskVars, memVars, loadVars, tok, panic, demoterVars, log, atClose,
                 skipped, crashes, errors>>

\* ... and seal the active pack; the process ends.
Closed ==
  /\ state = "draining"
  /\ dpc = "done"
  /\ \/ /\ hint' = [hint EXCEPT ![1][active] = SealedHint(active, index)]
        /\ atClose' = [k \in Keys |-> Value(k)]
        /\ UNCHANGED errors
     \/ Error /\ atClose' = [k \in Keys |-> 0] /\ UNCHANGED hint
  /\ state' = "down"
  /\ Forgotten
  /\ UNCHANGED <<file, log, skipped, crashes>>

\* main exits when OpenStore fails.
Refused ==
  /\ state = "refused"
  /\ state' = "down"
  /\ Forgotten
  /\ UNCHANGED <<diskVars, log, atClose, skipped, crashes, errors>>

\* The process is gone, and with it what it had not closed properly.
Crashed ==
  /\ state \notin {"down", "refused"}
  /\ crashes < MaxCrashes
  /\ crashes' = crashes + 1
  /\ state' = "down"
  /\ atClose' = [k \in Keys |-> 0]
  /\ Forgotten
  /\ UNCHANGED <<log, skipped, errors>>

\* The daemon is killed, perhaps in the middle of a Put.
Crash ==
  /\ Crashed
  /\ \/ UNCHANGED file
     \/ /\ state = "up" /\ ~Locked
        /\ file' = [file EXCEPT ![1][active] = Append(@, Torn)]
  /\ UNCHANGED hint

\* The machine loses power: nothing is fsynced, so the tail of a pack may be
\* missing, and entries of its hint or the hint itself.
PowerLoss ==
  /\ Crashed
  /\ \E t \in Tiers, id \in Ids :
       /\ file[t][id] # NoFile
       /\ \E n \in 0..Len(file[t][id]) :
            LET kept == SubSeq(file[t][id], 1, n)
            IN  file' = [file EXCEPT ![t][id] =
                           IF n < Len(file[t][id]) THEN Append(kept, Torn) ELSE kept]
       /\ \/ hint' = [hint EXCEPT ![t][id] = NoFile]
          \/ /\ hint[t][id] # NoFile
             /\ \E K \in SUBSET DOMAIN hint[t][id] :
                  hint' = [hint EXCEPT ![t][id] = [k \in K |-> @[k]]]

Load ==
  \E t \in Tiers, id \in Ids :
    RemoveDup(t, id) \/ LoadHinted(t, id) \/ LoadScanned(t, id) \/ LoadFails(t, id)

Demote ==
  AwaitKick \/ Receive \/ Pick \/ Evict \/ CopyPack \/ CopyHint \/ Switch \/ Unlink

Write(k) == Put(k) \/ RotateFails(k) \/ WriteFails(k)

Next ==
  \/ Open \/ Load \/ Opened \/ OpenFails \/ Refused
  \/ \E k \in Keys : Write(k)
  \/ Demote \/ MoveFails
  \/ SetClosed \/ CloseChannel \/ Closed
  \/ Crash \/ PowerLoss

Spec == Init /\ [][Next]_vars

\* The demoter is a goroutine of its own, startup is a loop without waiting.
FairSpec == Spec /\ WF_vars(Demote) /\ WF_vars(Open) /\ WF_vars(Load) /\ WF_vars(Opened)

----------------------------------------------------------------------------
(* Properties *)

Loaded == state \in {"up", "closing", "draining"}

\* The index points at a record of its key in a pack file that is there.
IndexPoints ==
  \A k \in Keys : index[k] # NoLoc =>
    LET recs == file[tierOf[index[k].pack]][index[k].pack]
    IN  /\ tierOf[index[k].pack] # 0
        /\ recs # NoFile
        /\ index[k].at <= Len(recs)
        /\ recs[index[k].at] # Torn
        /\ recs[index[k].at].key = k

\* So it does, whatever failed or crashed before, as long as OpenStore has not skipped a
\* pack: Get never answers with the bytes of another key.
IndexSound == ~skipped => IndexPoints

\* pack.live and Tier.total are what a recount gives, and victim and Put decide by them,
\* as long as OpenStore has not skipped a pack: one whose torn tail cannot be truncated
\* is in the store and not in Tier.total.
Accounted ==
  ~skipped =>
    /\ \A id \in Ids : live[id] = KeyBytes(KeysIn(id))
    /\ \A t \in Tiers :
         LET here == {id \in Ids : tierOf[id] = t}
         IN  total[t] = SumOver(here, [id \in here |-> Size(id)])

\* Nobody sends on the demote channel after Close has closed it (Go panics).
NoSendOnClosed == ~panic

\* A store that was closed properly answers the same after the next start for every key
\* it could answer before: "overwrite: newest wins" (store_test.go).
NewestWins ==
  [][state = "loading" /\ state' = "up" =>
       \A k \in Keys : atClose[k] # 0 => Value(k)' = atClose[k]]_vars

\* So it is when OpenStore has never skipped a pack: sealing, hints and duplicates lose
\* nothing.
CleanRestart ==
  [][state = "loading" /\ state' = "up" /\ ~skipped =>
       \A k \in Keys : atClose[k] # 0 => Value(k)' = atClose[k]]_vars

\* Until OpenStore skips a pack, the store is a map that may forget but never goes back
\* while it serves.
M == INSTANCE LossyMap WITH
       map <- [k \in Keys |-> IF Loaded THEN Value(k) ELSE 0],
       serving <- Loaded,
       intact <- ~skipped

ImplementsLossyMap == M!Spec

\* Once a Put has found the first tier over its budget, every tier that is over and has
\* a pack to give away gets below its budget (the head of store.go: "a tier over budget
\* demotes whole packs to the next"): no kick is lost.  Put looks at the first tier
\* only, so a lower tier that a crash in the middle of a demotion leaves over its budget
\* waits for that; without a crash it need not.  A move that fails is left for the next
\* kick.
BudgetKept ==
  (/\ state = "up" /\ errors = 0
   /\ Crowded # {} /\ Size(active) > 0
   /\ 1 \in Crowded \/ crashes = 0)
    ~> (state # "up" \/ Crowded = {} \/ errors > 0)
=============================================================================
