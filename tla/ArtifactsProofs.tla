-------------------------- MODULE ArtifactsProofs --------------------------
(***************************************************************************)
(* Theorems about two of the components of Artifacts.                      *)
(*                                                                         *)
(* DirCache: get-dir restores a tree whole or not at all, and a tree       *)
(* nobody wrote to while it was stored comes back as it was.               *)
(*                                                                         *)
(* Identities: Identities.Of answers with what the file contains, for any  *)
(* number of goroutines, paths and inodes.                                 *)
(***************************************************************************)
EXTENDS DirCache, Identities, FiniteSetTheorems, TLAPS

----------------------------------------------------------------------------
(* The directory cache: what holds in every state *)

FileLines == [kind : {"f"}, mode : Modes, ref : Files, rel : Rels]
LinkLines == [kind : {"l"}, mode : {0}, ref : Bodies, rel : Rels]
Lines == FileLines \cup LinkLines

\* No path is listed twice.
OneLineEach(L) == \A i, k \in DOMAIN L : L[i].rel = L[k].rel => i = k

DirTypes ==
  /\ dpc \in [DirBuilds -> {"get", "restore", "build", "put", "upload", "listing", "done"}]
  /\ rc \in [DirBuilds -> {None, "cold", "warm"}]
  /\ dir \in [DirBuilds -> [Rels -> Files \cup Links \cup {None}]]
  /\ listing \in [DirBuilds -> Seq(Lines)]
  /\ left \in [DirBuilds -> SUBSET Nat]
  /\ pending \in [DirBuilds -> Seq(FileLines)]
  /\ missing \in [DirBuilds -> Nat]
  /\ written \in [DirBuilds -> SUBSET Rels]
  /\ ignored \in [DirBuilds -> SUBSET Rels]
  /\ racing \in BOOLEAN

\* What is under the keys of directory trees.
CacheShape ==
  /\ ListingKey \in DOMAIN cache => cache[ListingKey] \in Seq(Lines) /\ OneLineEach(cache[ListingKey])
  /\ \A h \in Files : BlobKey(h) \in DOMAIN cache => cache[BlobKey(h)] \in Files

\* An entry is on disk, or an error was ignored where it should be.
There(b, e) ==
  \/ e.rel \in ignored[b]
  \/ dir[b][e.rel] # None /\ dir[b][e.rel].kind = e.kind /\ dir[b][e.rel].mode = e.mode

\* While get-dir restores, what it has not written is not there, and as long as nothing is
\* missing it has written every entry that is not left.
RestoreInv(b) ==
  /\ OneLineEach(listing[b])
  /\ left[b] \subseteq {i \in DOMAIN listing[b] : listing[b][i].kind = "f"}
  /\ \A r \in Rels \ written[b] : dir[b][r] = None
  /\ missing[b] = 0 => \A i \in ParseListing(listing[b]) \ left[b] :
       listing[b][i].rel \in written[b] /\ There(b, listing[b][i])

\* While put-dir runs, it has listed some of the paths it has visited, each once.
PutInv(b) ==
  /\ left[b] \subseteq DOMAIN Order
  /\ OneLineEach(listing[b])
  /\ \A i \in DOMAIN listing[b] : \E k \in DOMAIN Order \ left[b] : listing[b][i].rel = Order[k]
  /\ \A i \in DOMAIN pending[b] : dir[b][pending[b][i].rel] \in Files \cup {None}

\* What get-dir has returned.
ReturnInv(b) ==
  /\ rc[b] # None => dpc[b] = "build"
  /\ rc[b] = "warm" => \A i \in ParseListing(listing[b]) : There(b, listing[b][i])
  /\ rc[b] = "cold" => \A r \in Rels : dir[b][r] = None \/ r \in ignored[b]

BuildInv(b) ==
  /\ dpc[b] = "get" => \A r \in Rels : dir[b][r] = None
  /\ dpc[b] = "restore" => RestoreInv(b)
  /\ dpc[b] \in {"put", "upload", "listing"} => PutInv(b)
  /\ dpc[b] \notin {"put", "upload"} => pending[b] = <<>>
  /\ ReturnInv(b)

DirInv == DirTypes /\ CacheShape /\ \A b \in DirBuilds : BuildInv(b)

----------------------------------------------------------------------------
(* Files *)

\* Masking, resolving, and leaving out the mode make files of files.
LEMMA FileOps ==
  ASSUME NEW f \in Files, NEW b \in DirBuilds
  PROVE  /\ MaskHashes(f) \in Files /\ ResolveAll(b, f) \in Files
         /\ Stored(f) \in Files /\ Restored(b, f) \in Files /\ Data(f) \in Files
         /\ \A m \in Modes : [f EXCEPT !.mode = m] \in Files
                          /\ [f EXCEPT !.mode = m].mode = m
  <1>1. MaskHashes(f) \in Files
    BY DirCacheAssumption, Zenon DEF MaskHashes, Files
  <1>2. ResolveAll(b, f) \in Files
    <2>1. f.names \in Mentions
      BY Zenon DEF Files
    <2>2. PICK m \in Mentions :
            m = [n \in DOMAIN f.names |-> IF n \in DOMAIN RootsOf[b] THEN RootsOf[b][n] ELSE "*"]
      BY <2>1, DirCacheAssumption, Zenon
    <2>3. [f EXCEPT !.names = m] \in Files
      BY Zenon DEF Files
    <2> QED
      BY <2>2, <2>3, Zenon DEF ResolveAll
  <1>3. Data(f) \in Files
    BY DirCacheAssumption, Zenon DEF Data, Files
  <1>4. \A m \in Modes : [f EXCEPT !.mode = m] \in Files /\ [f EXCEPT !.mode = m].mode = m
    BY Zenon DEF Files
  <1> QED
    BY <1>1, <1>2, <1>3, <1>4, Zenon DEF Stored, Restored

\* A path that is listed has a line of its own kind.
LEMMA LineType ==
  ASSUME NEW r \in Rels, NEW f \in Files \cup Links
  PROVE  /\ Line(f, r) \in Lines /\ Line(f, r).rel = r
         /\ f.kind # "l" => f \in Files /\ Line(f, r) \in FileLines
  <1>1. CASE f \in Links
    BY <1>1 DEF Line, Links, Link, Lines, LinkLines
  <1>2. CASE f \in Files
    <2>1. f.kind = "f" /\ f.mode \in Modes
      BY <1>2, Zenon DEF Files
    <2>2. PICK g \in Files : g = Stored(Data(f))
      <3>1. Data(f) \in Files
        BY <1>2, DirCacheAssumption, Zenon DEF Data, Files
      <3>2. Stored(Data(f)) \in Files
        BY <3>1, DirCacheAssumption, Zenon DEF Stored, MaskHashes, Files
      <3> QED
        BY <3>2, Zenon
    <2>3. Line(f, r) = [kind |-> "f", mode |-> f.mode, ref |-> g, rel |-> r]
      BY <2>1, <2>2, Zenon DEF Line
    <2> QED
      BY <1>2, <2>1, <2>3 DEF Lines, FileLines
  <1> QED
    BY <1>1, <1>2, Zenon

\* A key of a blob is not the key of the listing, and belongs to one blob.
LEMMA Keys ==
  ASSUME NEW g, NEW h
  PROVE  BlobKey(g) # ListingKey /\ (BlobKey(g) = BlobKey(h) => g = h)
  BY Zenon DEF BlobKey, ListingKey

\* Where Overlay is defined and what it is there.
LEMMA OverlayIs ==
  ASSUME NEW f, NEW g
  PROVE  /\ DOMAIN Overlay(f, g) = DOMAIN f \cup DOMAIN g
         /\ \A x \in DOMAIN f : Overlay(f, g)[x] = f[x]
         /\ \A x \in DOMAIN g \ DOMAIN f : Overlay(f, g)[x] = g[x]
  BY Zenon DEF Overlay

----------------------------------------------------------------------------
(* The tree is restored whole or not at all *)

\* A build does not notice what others do.
LEMMA OtherBuild ==
  ASSUME NEW c \in DirBuilds, BuildInv(c),
         dpc'[c] = dpc[c], rc'[c] = rc[c], dir'[c] = dir[c], listing'[c] = listing[c],
         left'[c] = left[c], pending'[c] = pending[c], missing'[c] = missing[c],
         written'[c] = written[c], ignored'[c] = ignored[c]
  PROVE  BuildInv(c)'
  BY DEF BuildInv, RestoreInv, PutInv, ReturnInv, There, ParseListing, OneLineEach

\* A step of build b changes the state of no other.
OnlyOf(b) ==
  \A c \in DirBuilds \ {b} :
    /\ dpc'[c] = dpc[c] /\ rc'[c] = rc[c] /\ dir'[c] = dir[c] /\ listing'[c] = listing[c]
    /\ left'[c] = left[c] /\ pending'[c] = pending[c] /\ missing'[c] = missing[c]
    /\ written'[c] = written[c] /\ ignored'[c] = ignored[c]

\* A step of build b has to keep the types, the cache and the facts of b.
LEMMA OwnStep ==
  ASSUME DirInv, NEW b \in DirBuilds, OnlyOf(b), DirTypes', CacheShape', BuildInv(b)'
  PROVE  DirInv'
  <1>1. \A c \in DirBuilds \ {b} : BuildInv(c)'
    BY OtherBuild, Zenon DEF DirInv, OnlyOf
  <1> QED
    BY <1>1, Zenon DEF DirInv

\* The cache is kept, or has lost entries.
LEMMA SameCache ==
  ASSUME CacheShape,
         \A k \in DOMAIN cache' : DirKey(k) => k \in DOMAIN cache /\ cache'[k] = cache[k]
  PROVE  CacheShape'
  BY Zenon DEF CacheShape, DirKey, OneLineEach, Lines, FileLines, LinkLines, ListingKey, BlobKey

\* The links of a listing, and what becomes of them when some cannot be made.
LinksOf(text) == {text[i] : i \in {n \in ParseListing(text) : text[n].kind = "l"}}
Made(text, failed) ==
  [r \in {l.rel : l \in LinksOf(text)} \ failed |-> Link((CHOOSE l \in LinksOf(text) : l.rel = r).ref)]

\* get-dir has this listing and begins to restore it.
Begun(b, text, failed) ==
  /\ dpc' = [dpc EXCEPT ![b] = "restore"]
  /\ listing' = [listing EXCEPT ![b] = text]
  /\ left' = [left EXCEPT ![b] = {n \in DOMAIN text : text[n].kind = "f"}]
  /\ dir' = [dir EXCEPT ![b] = Overlay(Made(text, failed), @)]
  /\ written' = [written EXCEPT ![b] = {l.rel : l \in LinksOf(text)}]
  /\ ignored' = [ignored EXCEPT ![b] = failed]
  /\ UNCHANGED <<rc, pending, missing, racing>>

\* GetListing begins with the listing that is in the cache.
LEMMA GetListingIs ==
  ASSUME DirInv, NEW b \in DirBuilds, GetListing(b), Get(b, ListingKey) # None
  PROVE  \E L \in Seq(Lines) : /\ ListingKey \in DOMAIN cache /\ L = cache[ListingKey] /\ OneLineEach(L)
                               /\ \E failed \in SUBSET {l.rel : l \in LinksOf(L)} : Begun(b, L, failed)
  <1>1. \E failed \in SUBSET {l.rel : l \in LinksOf(Get(b, ListingKey))} : Begun(b, Get(b, ListingKey), failed)
    BY Zenon DEF GetListing, Begun, LinksOf, Made
  <1>2. ListingKey \in DOMAIN cache /\ Get(b, ListingKey) = cache[ListingKey]
    BY Zenon DEF Get
  <1> QED
    BY <1>1, <1>2, Zenon DEF DirInv, CacheShape

\* The links of the listing are made.
LEMMA GetListingInv ==
  ASSUME DirInv, NEW b \in DirBuilds, GetListing(b)
  PROVE  DirInv'
  <1>1. DirTypes /\ CacheShape /\ BuildInv(b) /\ dpc[b] = "get"
    BY Zenon DEF DirInv, GetListing
  <1>2. CacheShape'
    BY <1>1, SameCache, Zenon DEF GetListing
  <1>3. rc[b] = None
    BY <1>1, Zenon DEF BuildInv, ReturnInv
  <1> DEFINE got == Get(b, ListingKey)
  <1>4. CASE got = None
    <2>1. /\ rc' = [rc EXCEPT ![b] = "cold"] /\ dpc' = [dpc EXCEPT ![b] = "build"]
          /\ UNCHANGED <<dir, listing, left, written, ignored, pending, missing, racing>>
      BY <1>4, Zenon DEF GetListing
    <2>2. DirTypes' /\ OnlyOf(b)
      BY <1>1, <2>1, Zenon DEF DirTypes, OnlyOf
    <2>3. dpc'[b] = "build" /\ rc'[b] = "cold" /\ pending'[b] = <<>> /\ dir'[b] = dir[b]
      BY <1>1, <2>1, Zenon DEF DirTypes, BuildInv
    <2>4. BuildInv(b)'
      BY <1>1, <2>3, Zenon DEF BuildInv, ReturnInv
    <2> QED
      BY <1>2, <2>2, <2>4, OwnStep, Zenon
  <1>5. CASE got # None
    <2>1. PICK L \in Seq(Lines) :
            OneLineEach(L) /\ \E failed \in SUBSET {l.rel : l \in LinksOf(L)} : Begun(b, L, failed)
      BY <1>5, GetListingIs, Zenon
    <2> DEFINE links == LinksOf(L)
               at(r) == CHOOSE l \in links : l.rel = r
    <2>2. PICK failed \in SUBSET {l.rel : l \in links} : Begun(b, L, failed)
      BY <2>1, Zenon
    <2> DEFINE new == Made(L, failed)
    <2>3. \A l \in links : l \in LinkLines
      BY <2>1 DEF Lines, FileLines, LinkLines, LinksOf, ParseListing
    <2>4. \A l \in links : l.rel \in Rels /\ l.ref \in Bodies /\ l.kind = "l" /\ l.mode = 0
      BY <2>3, Zenon DEF LinkLines
    <2>5. \A r \in DOMAIN new : at(r) \in links /\ new[r] = Link(at(r).ref)
      BY Zenon DEF Made
    <2> HIDE DEF new
    <2>6. DOMAIN new = {l.rel : l \in links} \ failed
      BY Zenon DEF new, Made
    <2>7. \A r \in DOMAIN new : new[r] \in Links /\ new[r].kind = "l" /\ new[r].mode = 0
      BY <2>4, <2>5 DEF Links, Link
    <2> DEFINE D == Overlay(new, dir[b])
    <2>8. /\ DOMAIN D = Rels
          /\ \A r \in DOMAIN new : D[r] = new[r]
          /\ \A r \in Rels \ DOMAIN new : D[r] = dir[b][r]
      <3>1. DOMAIN new \subseteq Rels /\ DOMAIN dir[b] = Rels
        BY <1>1, <2>4, <2>6, Zenon DEF DirTypes
      <3>2. /\ DOMAIN D = DOMAIN new \cup DOMAIN dir[b]
            /\ \A r \in DOMAIN new : D[r] = new[r]
            /\ \A r \in DOMAIN dir[b] \ DOMAIN new : D[r] = dir[b][r]
        BY OverlayIs, Zenon
      <3> HIDE DEF D
      <3> QED
        BY <3>1, <3>2, Zenon
    <2>9. D \in [Rels -> Files \cup Links \cup {None}]
      <3>1. D = [r \in Rels |-> D[r]]
        BY <2>8, Zenon DEF Overlay
      <3> HIDE DEF D
      <3>2. ASSUME NEW r \in Rels PROVE D[r] \in Files \cup Links \cup {None}
        <4>1. CASE r \in DOMAIN new
          BY <2>7, <2>8, <4>1, Zenon
        <4>2. CASE r \notin DOMAIN new
          <5>1. dir[b][r] \in Files \cup Links \cup {None}
            BY <1>1 DEF DirTypes
          <5> QED
            BY <2>8, <4>2, <5>1, Zenon
        <4> QED
          BY <4>1, <4>2, Zenon
      <3> QED
        BY <3>1, <3>2, Zenon
    <2> HIDE DEF D
    <2>10. dir' = [dir EXCEPT ![b] = D]
      BY <1>1, <2>2, Zenon DEF Begun, D, new
    <2>11. DOMAIN L \subseteq Nat
      BY <2>1
    <2>12. DirTypes' /\ OnlyOf(b)
      <3>1. {l.rel : l \in links} \subseteq Rels
        BY <2>4, Zenon
      <3>2. {n \in DOMAIN L : L[n].kind = "f"} \in SUBSET Nat
        BY <2>11, Zenon
      <3>3. dir' \in [DirBuilds -> [Rels -> Files \cup Links \cup {None}]]
        BY <1>1, <2>9, <2>10 DEF DirTypes
      <3>4. DirTypes'
        BY <1>1, <2>2, <3>1, <3>2, <3>3 DEF DirTypes, Begun
      <3>5. OnlyOf(b)
        BY <1>1, <2>2, Zenon DEF DirTypes, OnlyOf, Begun
      <3> QED
        BY <3>4, <3>5, Zenon
    <2>13. /\ dpc'[b] = "restore" /\ listing'[b] = L /\ left'[b] = {n \in DOMAIN L : L[n].kind = "f"}
           /\ dir'[b] = D /\ written'[b] = {l.rel : l \in links} /\ ignored'[b] = failed
           /\ rc'[b] = None /\ pending'[b] = <<>>
      BY <1>1, <1>3, <2>2, <2>10, Zenon DEF DirTypes, BuildInv, Begun
    <2>14. ASSUME NEW i \in ParseListing(L), i \notin left'[b]
           PROVE  L[i].rel \in written'[b] /\ There(b, L[i])'
      <3>1. L[i].kind = "l" /\ L[i] \in links
        BY <2>1, <2>13, <2>14 DEF Lines, FileLines, LinkLines, LinksOf, ParseListing
      <3>2. L[i].rel \in written'[b] /\ L[i].mode = 0
        BY <2>4, <2>13, <3>1, Zenon
      <3>3. CASE L[i].rel \in failed
        BY <2>13, <3>2, <3>3, Zenon DEF There
      <3>4. CASE L[i].rel \notin failed
        <4>1. L[i].rel \in DOMAIN new /\ D[L[i].rel] = new[L[i].rel]
          BY <2>6, <2>8, <3>1, <3>4, Zenon
        <4>2. D[L[i].rel] \in Links /\ D[L[i].rel].kind = "l" /\ D[L[i].rel].mode = 0
          BY <2>7, <4>1, Zenon
        <4>3. D[L[i].rel] # None
          BY <4>2, DirCacheAssumption, Zenon
        <4> QED
          BY <2>13, <3>1, <3>2, <4>2, <4>3, Zenon DEF There
      <3> QED
        BY <3>3, <3>4, Zenon
    <2>15. \A r \in Rels \ written'[b] : dir'[b][r] = None
      BY <1>1, <2>6, <2>8, <2>13, Zenon DEF BuildInv
    <2>16. RestoreInv(b)'
      BY <2>1, <2>13, <2>14, <2>15, Zenon DEF RestoreInv
    <2>17. BuildInv(b)'
      BY <2>13, <2>16, DirCacheAssumption, Zenon DEF BuildInv, ReturnInv
    <2> QED
      BY <1>2, <2>12, <2>17, OwnStep, Zenon
  <1> QED
    BY <1>4, <1>5, Zenon

\* What one GetMany of build b brings: of the lines in batch the files of those in ok, in the
\* tree D; c files are missing, and those in unset have no mode of their own.
Batch(b, batch, ok, unset, D, c) ==
  /\ ok \subseteq batch /\ unset \subseteq ok
  /\ \A i \in ok : LET e == listing[b][i]
                   IN  /\ BlobKey(e.ref) \in DOMAIN cache
                       /\ D[e.rel] = [Restored(b, cache[BlobKey(e.ref)]) EXCEPT
                                        !.mode = IF i \in unset THEN NewMode ELSE e.mode]
  /\ \A r \in Rels \ {listing[b][i].rel : i \in ok} : D[r] = dir[b][r]
  /\ c = 0 => batch \subseteq ok
  /\ dir' = [dir EXCEPT ![b] = D]
  /\ written' = [written EXCEPT ![b] = @ \cup {listing[b][i].rel : i \in ok}]
  /\ ignored' = [ignored EXCEPT ![b] = @ \cup {listing[b][i].rel : i \in unset}]
  /\ missing' = [missing EXCEPT ![b] = @ + c]
  /\ left' = [left EXCEPT ![b] = @ \ batch]
  /\ UNCHANGED <<cache, dpc, rc, listing, pending, have, racing>>

\* RestoreBatch is one such GetMany.
LEMMA RestoreBatchIs ==
  ASSUME DirInv, NEW b \in DirBuilds, RestoreBatch(b)
  PROVE  \E batch, ok, unset \in SUBSET left[b], D \in [Rels -> Files \cup Links \cup {None}], c \in Nat :
           Batch(b, batch, ok, unset, D, c)
  <1>1. DirTypes /\ CacheShape /\ RestoreInv(b)
    BY Zenon DEF DirInv, BuildInv, RestoreBatch
  <1> DEFINE L == listing[b]
             batch == First(left[b], kBatch)
             blob(i) == Get(b, BlobKey(L[i].ref))
  <1>2. batch \in SUBSET left[b]
    BY Zenon DEF First
  <1>3. PICK m \in 0..Cardinality(batch), full \in SUBSET batch, unset \in SUBSET batch :
          LET ok == {i \in First(batch, m) : i \notin full /\ blob(i) # None}
              mode(i) == IF i \in unset THEN NewMode ELSE L[i].mode
          IN  /\ unset \subseteq ok
              /\ dir' = [dir EXCEPT ![b] =
                   Overlay([r \in {L[i].rel : i \in ok} |->
                      LET i == CHOOSE k \in ok : L[k].rel = r
                      IN  [Restored(b, blob(i)) EXCEPT !.mode = mode(i)]], @)]
              /\ written' = [written EXCEPT ![b] = @ \cup {L[i].rel : i \in ok}]
              /\ ignored' = [ignored EXCEPT ![b] = @ \cup {L[i].rel : i \in unset}]
              /\ missing' = [missing EXCEPT ![b] = @ + Cardinality(batch \ ok)]
              /\ left' = [left EXCEPT ![b] = @ \ batch]
    BY Zenon DEF RestoreBatch
  <1> DEFINE ok == {i \in First(batch, m) : i \notin full /\ blob(i) # None}
             at(r) == CHOOSE k \in ok : L[k].rel = r
             mode(i) == IF i \in unset THEN NewMode ELSE L[i].mode
             rels == {L[i].rel : i \in ok}
             new == [r \in rels |-> [Restored(b, blob(at(r))) EXCEPT !.mode = mode(at(r))]]
             D == Overlay(new, dir[b])
             c == Cardinality(batch \ ok)
  <1>4. /\ dir' = [dir EXCEPT ![b] = D]
        /\ written' = [written EXCEPT ![b] = @ \cup rels]
        /\ ignored' = [ignored EXCEPT ![b] = @ \cup {L[i].rel : i \in unset}]
        /\ missing' = [missing EXCEPT ![b] = @ + c]
        /\ left' = [left EXCEPT ![b] = @ \ batch]
    BY <1>1, <1>3, Zenon DEF DirTypes
  <1>5. UNCHANGED <<cache, dpc, rc, listing, pending, have, racing>>
    BY Zenon DEF RestoreBatch
  <1>6. ok \subseteq batch /\ unset \subseteq ok /\ \A i \in ok : blob(i) # None
    BY <1>3, Zenon DEF First
  <1> HIDE DEF batch, ok
  <1>7. ASSUME NEW i \in ok
        PROVE  /\ i \in DOMAIN L /\ L[i] \in FileLines
               /\ blob(i) = cache[BlobKey(L[i].ref)] /\ BlobKey(L[i].ref) \in DOMAIN cache
               /\ blob(i) \in Files
    <2>1. i \in left[b]
      BY <1>2, <1>6, Zenon
    <2>2. i \in DOMAIN L /\ L[i].kind = "f"
      BY <1>1, <2>1, Zenon DEF RestoreInv
    <2>3. L[i] \in Lines
      BY <1>1, <2>2 DEF DirTypes
    <2>4. L[i] \in FileLines
      BY <2>2, <2>3, Zenon DEF Lines, LinkLines
    <2>5. L[i].ref \in Files
      BY <2>4, Zenon DEF FileLines
    <2>6. blob(i) = cache[BlobKey(L[i].ref)] /\ BlobKey(L[i].ref) \in DOMAIN cache
      BY <1>6, Zenon DEF Get
    <2> QED
      BY <1>1, <2>2, <2>4, <2>5, <2>6, Zenon DEF CacheShape
  <1>8. ASSUME NEW i \in ok PROVE L[i].rel \in rels /\ at(L[i].rel) = i
    <2>1. at(L[i].rel) \in ok /\ L[at(L[i].rel)].rel = L[i].rel
      BY Zenon
    <2> QED
      BY <1>1, <1>7, <2>1, Zenon DEF RestoreInv, OneLineEach
  <1> HIDE DEF at
  <1>9. \A i \in ok : new[L[i].rel] = [Restored(b, blob(i)) EXCEPT !.mode = mode(i)]
    BY <1>8, Zenon
  <1>10. ASSUME NEW i \in ok PROVE L[i].rel \in Rels /\ new[L[i].rel] \in Files
    <2>1. PICK f \in Files : f = Restored(b, blob(i))
      BY <1>7, FileOps, Zenon
    <2>2. PICK to \in Modes : to = mode(i)
      BY <1>7, DirCacheAssumption, Zenon DEF FileLines
    <2>3. new[L[i].rel] = [f EXCEPT !.mode = to]
      BY <1>9, <2>1, <2>2, Zenon
    <2>4. [f EXCEPT !.mode = to] \in Files
      BY FileOps, Zenon
    <2>5. L[i].rel \in Rels
      BY <1>7, Zenon DEF FileLines
    <2> QED
      BY <2>3, <2>4, <2>5, Zenon
  <1> HIDE DEF blob
  <1>11. DOMAIN new = rels /\ rels \subseteq Rels
    BY <1>10, Zenon
  <1> HIDE DEF new
  <1>12. D \in [Rels -> Files \cup Links \cup {None}] /\ DOMAIN dir[b] = Rels
    <2>1. dir[b] \in [Rels -> Files \cup Links \cup {None}]
      BY <1>1, Zenon DEF DirTypes
    <2> QED
      BY <1>10, <1>11, <2>1, Zenon DEF Overlay
  <1>13. (\A r \in rels : D[r] = new[r]) /\ (\A r \in Rels \ rels : D[r] = dir[b][r])
    <2>1. /\ \A r \in DOMAIN new : D[r] = new[r]
          /\ \A r \in DOMAIN dir[b] \ DOMAIN new : D[r] = dir[b][r]
      BY OverlayIs, Zenon
    <2> HIDE DEF D
    <2> QED
      BY <1>11, <1>12, <2>1, Zenon
  <1> HIDE DEF D
  <1>14. \A i \in ok : /\ BlobKey(L[i].ref) \in DOMAIN cache
                       /\ D[L[i].rel] = [Restored(b, cache[BlobKey(L[i].ref)]) EXCEPT !.mode = mode(i)]
    BY <1>7, <1>8, <1>9, <1>13, Zenon
  <1>15. c \in Nat /\ (c = 0 => batch \subseteq ok)
    <2>1. L \in Seq(Lines) /\ DOMAIN L = 1..Len(L) /\ Len(L) \in Nat
      BY <1>1 DEF DirTypes
    <2>2. IsFiniteSet(1..Len(L))
      <3>1. \A k \in Nat : IsFiniteSet(1..k)
        BY FS_Interval
      <3> QED
        BY <2>1, <3>1, Zenon
    <2>3. batch \ ok \subseteq 1..Len(L)
      BY <1>1, <1>2, <2>1, Zenon DEF RestoreInv
    <2>4. IsFiniteSet(batch \ ok)
      BY <2>2, <2>3, FS_Subset, Zenon
    <2> QED
      BY <2>4, FS_CardinalityType, FS_EmptySet, Zenon
  <1> HIDE DEF c
  <1>16. Batch(b, batch, ok, unset, D, c)
    BY <1>4, <1>5, <1>6, <1>13, <1>14, <1>15, Zenon DEF Batch
  <1>17. ok \in SUBSET left[b] /\ unset \in SUBSET left[b]
    BY <1>2, <1>6, Zenon
  <1> QED
    BY <1>2, <1>12, <1>15, <1>16, <1>17, Zenon

\* A batch restores what it brings.
LEMMA RestoreBatchInv ==
  ASSUME DirInv, NEW b \in DirBuilds, RestoreBatch(b)
  PROVE  DirInv'
  <1>1. DirTypes /\ CacheShape /\ BuildInv(b) /\ RestoreInv(b) /\ dpc[b] = "restore"
    BY Zenon DEF DirInv, BuildInv, RestoreBatch
  <1>2. PICK batch \in SUBSET left[b], ok \in SUBSET left[b], unset \in SUBSET left[b],
             D \in [Rels -> Files \cup Links \cup {None}], c \in Nat : Batch(b, batch, ok, unset, D, c)
    BY RestoreBatchIs, Zenon
  <1> DEFINE L == listing[b]
             rels == {L[i].rel : i \in ok}
             mode(i) == IF i \in unset THEN NewMode ELSE L[i].mode
  <1>3. ASSUME NEW i \in ok
        PROVE  /\ i \in DOMAIN L /\ L[i] \in FileLines /\ L[i].kind = "f" /\ L[i].rel \in Rels
               /\ D[L[i].rel] \in Files /\ D[L[i].rel].mode = mode(i)
    <2>1. i \in DOMAIN L /\ L[i].kind = "f"
      BY <1>1, <1>2, Zenon DEF RestoreInv
    <2>2. L[i] \in FileLines
      BY <1>1, <2>1 DEF DirTypes, Lines, LinkLines
    <2>3. L[i].ref \in Files /\ L[i].mode \in Modes /\ L[i].rel \in Rels
      BY <2>2, Zenon DEF FileLines
    <2>4. BlobKey(L[i].ref) \in DOMAIN cache
      BY <1>2, Zenon DEF Batch
    <2>5. cache[BlobKey(L[i].ref)] \in Files
      BY <1>1, <2>3, <2>4, Zenon DEF CacheShape
    <2>6. PICK f \in Files : f = Restored(b, cache[BlobKey(L[i].ref)])
      BY <2>5, FileOps, Zenon
    <2>7. PICK to \in Modes : to = mode(i)
      BY <2>3, DirCacheAssumption, Zenon
    <2>8. D[L[i].rel] = [f EXCEPT !.mode = to]
      BY <1>2, <2>6, <2>7, Zenon DEF Batch
    <2>9. [f EXCEPT !.mode = to] \in Files /\ [f EXCEPT !.mode = to].mode = to
      BY FileOps, Zenon
    <2> QED
      BY <2>1, <2>2, <2>3, <2>7, <2>8, <2>9, Zenon
  <1>4. /\ missing[b] + c = 0 => missing[b] = 0 /\ c = 0
        /\ missing[b] + c \in Nat
    BY <1>1 DEF DirTypes
  <1>5. /\ dir'[b] = D /\ written'[b] = written[b] \cup rels /\ missing'[b] = missing[b] + c
        /\ left'[b] = left[b] \ batch /\ dpc'[b] = "restore" /\ rc'[b] = rc[b]
        /\ listing'[b] = L /\ pending'[b] = pending[b]
        /\ ignored'[b] = ignored[b] \cup {L[i].rel : i \in unset}
    BY <1>1, <1>2, Zenon DEF Batch, DirTypes
  <1>6. DirTypes' /\ OnlyOf(b)
    <2>1. rels \subseteq Rels /\ {L[i].rel : i \in unset} \subseteq Rels
      BY <1>2, <1>3, Zenon DEF Batch
    <2>2. left[b] \ batch \in SUBSET Nat
      BY <1>1, Zenon DEF DirTypes
    <2> QED
      BY <1>1, <1>2, <1>4, <2>1, <2>2, Zenon DEF DirTypes, OnlyOf, Batch
  <1>7. CacheShape'
    BY <1>1, <1>2, SameCache, Zenon DEF Batch
  <1>8. \A r \in Rels \ written'[b] : dir'[b][r] = None
    BY <1>1, <1>2, <1>5, Zenon DEF RestoreInv, Batch
  <1>9. ASSUME missing'[b] = 0, NEW i \in ParseListing(L) \ left'[b]
        PROVE  L[i].rel \in written'[b] /\ There(b, L[i])'
    <2>1. missing[b] = 0 /\ batch \subseteq ok
      BY <1>2, <1>4, <1>5, <1>9, Zenon DEF Batch
    <2>2. CASE i \in ok
      <3>1. D[L[i].rel] # None /\ D[L[i].rel].kind = "f"
        BY <1>3, <2>2, DirCacheAssumption, Zenon DEF Files
      <3> QED
        BY <1>3, <1>5, <2>2, <3>1, Zenon DEF There
    <2>3. CASE i \notin ok
      <3>1. i \in DOMAIN L /\ i \notin left[b] /\ L[i].rel \in written[b] /\ There(b, L[i])
        BY <1>1, <1>5, <1>9, <2>1, <2>3, Zenon DEF RestoreInv, ParseListing
      <3>2. \A k \in ok : L[k].rel # L[i].rel
        BY <1>1, <1>3, <2>3, <3>1, Zenon DEF RestoreInv, OneLineEach
      <3>3. L[i].rel \in Rels /\ D[L[i].rel] = dir[b][L[i].rel]
        <4>1. written[b] \subseteq Rels
          BY <1>1, Zenon DEF DirTypes
        <4> QED
          BY <1>2, <3>1, <3>2, <4>1, Zenon DEF Batch
      <3> QED
        BY <1>5, <3>1, <3>3, Zenon DEF There
    <2> QED
      BY <2>2, <2>3, Zenon
  <1>10. RestoreInv(b)'
    BY <1>1, <1>5, <1>8, <1>9, Zenon DEF RestoreInv, OneLineEach
  <1>11. BuildInv(b)'
    BY <1>1, <1>5, <1>10, DirCacheAssumption, Zenon DEF BuildInv, ReturnInv
  <1> QED
    BY <1>6, <1>7, <1>11, OwnStep, Zenon

\* get-dir returns.
LEMMA RestoreEndInv ==
  ASSUME DirInv, NEW b \in DirBuilds, RestoreEnd(b)
  PROVE  DirInv'
  <1>1. DirTypes /\ CacheShape /\ BuildInv(b) /\ RestoreInv(b) /\ dpc[b] = "restore" /\ left[b] = {}
    BY Zenon DEF DirInv, BuildInv, RestoreEnd
  <1>2. CacheShape'
    BY <1>1, SameCache, Zenon DEF RestoreEnd
  <1>3. PICK kept \in SUBSET written[b] :
          /\ missing[b] = 0 => kept = {}
          /\ dir' = [dir EXCEPT ![b] = Cleared(b, kept)]
          /\ ignored' = [ignored EXCEPT ![b] = @ \cup kept]
    BY Zenon DEF RestoreEnd
  <1>4. DirTypes' /\ OnlyOf(b)
    <2>1. Cleared(b, kept) \in [Rels -> Files \cup Links \cup {None}]
      BY <1>1 DEF Cleared, DirTypes
    <2>2. kept \subseteq Rels
      BY <1>1, Zenon DEF DirTypes
    <2> QED
      BY <1>1, <1>3, <2>1, <2>2, Zenon DEF DirTypes, OnlyOf, RestoreEnd
  <1>5. /\ dir'[b] = Cleared(b, kept) /\ rc'[b] = (IF missing[b] # 0 THEN "cold" ELSE "warm")
        /\ dpc'[b] = "build" /\ listing'[b] = listing[b] /\ pending'[b] = pending[b]
        /\ ignored'[b] = ignored[b] \cup kept
    BY <1>1, <1>3, Zenon DEF RestoreEnd, DirTypes
  <1>6. CASE missing[b] # 0
    <2>1. rc'[b] = "cold" /\ \A r \in Rels : dir'[b][r] = None \/ r \in ignored'[b]
      BY <1>1, <1>5, <1>6, Zenon DEF RestoreInv, Cleared
    <2>2. BuildInv(b)'
      BY <1>1, <1>5, <2>1, Zenon DEF BuildInv, ReturnInv
    <2> QED
      BY <1>2, <1>4, <2>2, OwnStep, Zenon
  <1>7. CASE missing[b] = 0
    <2>1. rc'[b] = "warm" /\ \A r \in Rels : dir'[b][r] = dir[b][r]
      BY <1>5, <1>7, Zenon DEF Cleared
    <2>2. \A i \in ParseListing(listing[b]) : listing[b][i].rel \in written[b] /\ There(b, listing[b][i])
      BY <1>1, <1>7, Zenon DEF RestoreInv
    <2>3. written[b] \subseteq Rels
      BY <1>1, Zenon DEF DirTypes
    <2>4. ASSUME NEW i \in ParseListing(listing'[b]) PROVE There(b, listing[b][i])'
      <3>1. PICK e : e = listing[b][i] /\ e = listing'[b][i] /\ e.rel \in written[b] /\ There(b, e)
        BY <1>5, <2>2, Zenon
      <3>2. dir'[b][e.rel] = dir[b][e.rel]
        BY <2>1, <2>3, <3>1, Zenon
      <3> QED
        BY <1>5, <3>1, <3>2, Zenon DEF There
    <2>5. BuildInv(b)'
      BY <1>1, <1>5, <2>1, <2>4 DEF BuildInv, ReturnInv
    <2> QED
      BY <1>2, <1>4, <2>5, OwnStep, Zenon
  <1> QED
    BY <1>6, <1>7, Zenon

\* The build is done and put-dir starts, or does not.
LEMMA BuildStepInv ==
  ASSUME DirInv, NEW b \in DirBuilds, Build(b)
  PROVE  DirInv'
  <1>1. DirTypes /\ CacheShape /\ BuildInv(b) /\ dpc[b] = "build"
    BY Zenon DEF DirInv, Build
  <1>2. CacheShape'
    BY <1>1, SameCache, Zenon DEF Build
  <1>3. PICK to \in {"put", "done"} : dpc' = [dpc EXCEPT ![b] = to]
    BY Zenon DEF Build
  <1>4. DirTypes' /\ OnlyOf(b)
    <2>1. PICK D \in [Rels -> Files \cup Links \cup {None}] : D = Built[b]
      BY DirCacheAssumption, Zenon
    <2>2. PICK O \in SUBSET Nat : O = DOMAIN Order
      BY DirCacheAssumption, Zenon
    <2>3. /\ dir' = [dir EXCEPT ![b] = D] /\ left' = [left EXCEPT ![b] = O]
          /\ rc' = [rc EXCEPT ![b] = None] /\ listing' = [listing EXCEPT ![b] = <<>>]
          /\ missing' = [missing EXCEPT ![b] = 0] /\ written' = [written EXCEPT ![b] = {}]
          /\ ignored' = [ignored EXCEPT ![b] = {}]
          /\ UNCHANGED <<pending, racing>>
      BY <2>1, <2>2, Zenon DEF Build
    <2> QED
      BY <1>1, <1>3, <2>3 DEF DirTypes, OnlyOf
  <1>5. /\ dpc'[b] \in {"put", "done"} /\ rc'[b] = None /\ listing'[b] = <<>>
        /\ left'[b] = DOMAIN Order /\ pending'[b] = <<>>
    BY <1>1, <1>3, Zenon DEF Build, DirTypes, BuildInv
  <1>6. PutInv(b)'
    BY <1>5 DEF PutInv, OneLineEach
  <1>7. BuildInv(b)'
    BY <1>5, <1>6, DirCacheAssumption, Zenon DEF BuildInv, ReturnInv
  <1> QED
    BY <1>2, <1>4, <1>7, OwnStep, Zenon

\* The iterator lists the path it has come to, once.
LEMMA PutVisitInv ==
  ASSUME DirInv, NEW b \in DirBuilds, PutVisit(b)
  PROVE  DirInv'
  <1>1. DirTypes /\ CacheShape /\ BuildInv(b) /\ PutInv(b) /\ dpc[b] = "put"
    BY Zenon DEF DirInv, BuildInv, PutVisit
  <1>2. CacheShape'
    BY <1>1, SameCache, Zenon DEF PutVisit, storeVars
  <1>3. PICK i \in left[b] :
          /\ IF dir[b][Order[i]] = None THEN UNCHANGED <<listing, pending>>
             ELSE /\ listing' = [listing EXCEPT ![b] = Append(@, Line(dir[b][Order[i]], Order[i]))]
                  /\ pending' = IF dir[b][Order[i]].kind = "l" THEN pending
                                ELSE [pending EXCEPT ![b] = Append(@, Line(dir[b][Order[i]], Order[i]))]
          /\ left' = [left EXCEPT ![b] = @ \ {i}]
    BY Zenon DEF PutVisit
  <1>4. PICK r \in Rels : r = Order[i]
    BY <1>1, <1>3, Zenon DEF PutInv, Rels
  <1>5. i \in DOMAIN Order /\ left[b] \subseteq DOMAIN Order /\ left[b] \ {i} \in SUBSET Nat
    BY <1>1, Zenon DEF PutInv, DirTypes
  <1>6. UNCHANGED <<dpc, rc, dir, missing, written, ignored, racing>>
    BY Zenon DEF PutVisit
  <1>7. /\ dpc'[b] = "put" /\ dir'[b] = dir[b] /\ rc'[b] = None /\ left'[b] = left[b] \ {i}
    BY <1>1, <1>3, <1>6, Zenon DEF DirTypes, BuildInv, ReturnInv
  <1>8. CASE dir[b][r] = None
    <2>1. UNCHANGED <<listing, pending>>
      BY <1>3, <1>4, <1>8, Zenon
    <2>2. DirTypes' /\ OnlyOf(b)
      BY <1>1, <1>3, <1>5, <1>6, <2>1, Zenon DEF DirTypes, OnlyOf
    <2>3. PutInv(b)'
      BY <1>1, <1>5, <1>7, <2>1, Zenon DEF PutInv, OneLineEach
    <2>4. BuildInv(b)'
      BY <1>7, <2>3, DirCacheAssumption, Zenon DEF BuildInv, ReturnInv
    <2> QED
      BY <1>2, <2>2, <2>4, OwnStep, Zenon
  <1>9. CASE dir[b][r] # None
    <2> DEFINE f == dir[b][r]
               L == listing[b]
               P == pending[b]
    <2>1. f \in Files \cup Links
      BY <1>1, <1>9 DEF DirTypes
    <2>2. PICK e \in Lines : /\ e = Line(f, r) /\ e.rel = r
                             /\ f.kind # "l" => f \in Files /\ e \in FileLines
      BY <2>1, LineType, Zenon
    <2>3. PICK Q \in Seq(FileLines) :
            /\ pending' = [pending EXCEPT ![b] = Q]
            /\ Q = P \/ (Q = Append(P, e) /\ f \in Files)
      <3>1. P \in Seq(FileLines) /\ pending = [pending EXCEPT ![b] = P]
        BY <1>1, Zenon DEF DirTypes
      <3>2. CASE f.kind = "l"
        BY <1>3, <1>4, <1>9, <3>1, <3>2, Zenon
      <3>3. CASE f.kind # "l"
        <4>1. e \in FileLines /\ f \in Files
          BY <2>2, <3>3, Zenon
        <4>2. Append(P, e) \in Seq(FileLines)
          BY <3>1, <4>1
        <4>3. pending' = [pending EXCEPT ![b] = Append(P, e)]
          BY <1>3, <1>4, <1>9, <2>2, <3>3, Zenon
        <4> QED
          BY <4>1, <4>2, <4>3, Zenon
      <3> QED
        BY <3>2, <3>3, Zenon
    <2>4. \A k \in DOMAIN L : L[k].rel # e.rel
      BY <1>1, <1>4, <1>5, <2>2, DirCacheAssumption DEF PutInv
    <2>5. L \in Seq(Lines) /\ OneLineEach(L) /\ Len(L) \in Nat
      BY <1>1 DEF DirTypes, PutInv
    <2>6. PICK M : M = Append(L, e)
      BY Zenon
    <2>7. /\ M \in Seq(Lines) /\ OneLineEach(M) /\ DOMAIN M = DOMAIN L \cup {Len(L) + 1}
          /\ M[Len(L) + 1] = e /\ \A k \in DOMAIN L : M[k] = L[k]
      <3> HIDE DEF L
      <3>1. /\ M \in Seq(Lines) /\ DOMAIN M = DOMAIN L \cup {Len(L) + 1}
            /\ M[Len(L) + 1] = e /\ \A k \in DOMAIN L : M[k] = L[k]
        BY <2>5, <2>6
      <3> QED
        BY <2>4, <2>5, <3>1, Zenon DEF OneLineEach
    <2>8. listing' = [listing EXCEPT ![b] = M]
      BY <1>3, <1>4, <1>9, <2>2, <2>6, Zenon
    <2>9. DirTypes' /\ OnlyOf(b)
      BY <1>1, <1>3, <1>5, <1>6, <2>3, <2>7, <2>8, Zenon DEF DirTypes, OnlyOf
    <2>10. listing'[b] = M /\ pending'[b] = Q
      BY <1>1, <2>3, <2>8, Zenon DEF DirTypes
    <2>11. \A k \in DOMAIN M : \E j \in DOMAIN Order \ left'[b] : M[k].rel = Order[j]
      BY <1>1, <1>4, <1>5, <1>7, <2>2, <2>7, Zenon DEF PutInv
    <2>12. \A k \in DOMAIN Q : dir[b][Q[k].rel] \in Files \cup {None}
      <3>1. CASE Q = P
        BY <1>1, <3>1, Zenon DEF PutInv
      <3>2. CASE Q = Append(P, e) /\ f \in Files
        <4>1. P \in Seq(FileLines)
          BY <1>1, Zenon DEF DirTypes
        <4>2. \A k \in DOMAIN Q : Q[k] = e \/ (k \in DOMAIN P /\ Q[k] = P[k])
          BY <3>2, <4>1
        <4> QED
          BY <1>1, <2>2, <3>2, <4>2, Zenon DEF PutInv
      <3> QED
        BY <2>3, <3>1, <3>2, Zenon
    <2>13. PutInv(b)'
      BY <1>5, <1>7, <2>7, <2>10, <2>11, <2>12 DEF PutInv, OneLineEach
    <2>14. BuildInv(b)'
      BY <1>7, <2>13, DirCacheAssumption, Zenon DEF BuildInv, ReturnInv
    <2> QED
      BY <1>2, <2>9, <2>14, OwnStep, Zenon
  <1> QED
    BY <1>8, <1>9, Zenon

\* The questions change nothing.
LEMMA UploadHasInv ==
  ASSUME DirInv, NEW b \in DirBuilds, UploadHas(b)
  PROVE  DirInv'
  <1>1. DirTypes /\ CacheShape /\ BuildInv(b) /\ PutInv(b) /\ dpc[b] = "put"
    BY Zenon DEF DirInv, BuildInv, UploadHas
  <1>2. CacheShape'
    BY <1>1, SameCache, Zenon DEF UploadHas
  <1>3. /\ dpc' = [dpc EXCEPT ![b] = "upload"]
        /\ UNCHANGED <<rc, dir, listing, left, pending, missing, written, ignored, racing>>
    BY Zenon DEF UploadHas
  <1>4. DirTypes' /\ OnlyOf(b) /\ dpc'[b] = "upload"
    BY <1>1, <1>3, Zenon DEF DirTypes, OnlyOf
  <1>5. PutInv(b)'
    BY <1>1, <1>3, Zenon DEF PutInv, OneLineEach
  <1>6. BuildInv(b)'
    <2>1. rc'[b] = None
      BY <1>1, <1>3, Zenon DEF BuildInv, ReturnInv, DirTypes
    <2> QED
      BY <1>4, <1>5, <2>1, DirCacheAssumption, Zenon DEF BuildInv, ReturnInv
  <1> QED
    BY <1>2, <1>4, <1>6, OwnStep, Zenon

\* The last of some positions of a sequence.
LEMMA LastPosition ==
  ASSUME NEW n \in Nat, NEW S \in SUBSET (1..n), S # {}
  PROVE  \E i \in S : \A j \in S : j <= i
  <1> DEFINE T == {n - i : i \in S}
  <1>1. T \subseteq Nat /\ T # {}
    <2>1. \A i \in S : n - i \in Nat
      OBVIOUS
    <2> QED
      BY <2>1, Zenon
  <1> HIDE DEF T
  <1>2. PICK m \in T : \A e \in T : ~(<<e, m>> \in OpToRel(<, Nat))
    BY <1>1, NatLessThanWellFounded, WFMin, Zenon
  <1>3. ASSUME NEW e \in T PROVE m <= e
    <2>1. e \in Nat /\ m \in Nat
      BY <1>1, Zenon
    <2>2. ~(e < m)
      BY <1>2, <2>1, Zenon DEF OpToRel
    <2> QED
      BY <2>1, <2>2
  <1>4. PICK i \in S : m = n - i
    BY Zenon DEF T
  <1>5. ASSUME NEW j \in S PROVE j <= i
    <2>1. m <= n - j
      BY <1>3, Zenon DEF T
    <2> QED
      BY <1>4, <2>1
  <1> QED
    BY <1>5, Zenon

\* What Upload puts is the data of a file it has hashed, as the file is now.
LEMMA UploadPutIs ==
  ASSUME DirInv, NEW b \in DirBuilds, UploadPut(b), NEW k \in DOMAIN cache'
  PROVE  \/ k \in DOMAIN cache /\ cache'[k] = cache[k]
         \/ \E i \in DOMAIN pending[b] :
              /\ k = BlobKey(pending[b][i].ref) /\ dir[b][pending[b][i].rel] # None
              /\ cache'[k] = Stored(Data(dir[b][pending[b][i].rel]))
  <1> DEFINE key(i) == BlobKey(pending[b][i].ref)
             puts == {i \in DOMAIN pending[b] : i \notin have[b] /\ dir[b][pending[b][i].rel] # None}
  <1>1. PICK m \in 0..Cardinality(puts) :
          cache' = Overlay([x \in {key(i) : i \in First(puts, m)} |->
                     LET same == {i \in First(puts, m) : key(i) = x}
                         last == CHOOSE i \in same : \A j \in same : j <= i
                     IN  Stored(Data(dir[b][pending[b][last].rel]))], cache)
    BY Zenon DEF UploadPut
  <1> DEFINE done == First(puts, m)
             same(x) == {i \in done : key(i) = x}
             last(x) == CHOOSE i \in same(x) : \A j \in same(x) : j <= i
             new == [x \in {key(i) : i \in done} |-> Stored(Data(dir[b][pending[b][last(x)].rel]))]
  <1>2. cache' = Overlay(new, cache)
    BY <1>1, Zenon
  <1>3. done \subseteq puts
    BY Zenon DEF First
  <1> HIDE DEF done
  <1>4. CASE k \notin DOMAIN new
    <2> HIDE DEF new
    <2>1. /\ DOMAIN cache' = DOMAIN new \cup DOMAIN cache
          /\ \A x \in DOMAIN cache \ DOMAIN new : cache'[x] = cache[x]
      BY <1>2, Zenon DEF Overlay
    <2> QED
      BY <1>4, <2>1, Zenon
  <1>5. CASE k \in DOMAIN new
    <2>1. cache'[k] = new[k]
      <3> HIDE DEF new
      <3> QED
        BY <1>2, <1>5, OverlayIs, Zenon
    <2>2. same(k) # {} /\ same(k) \subseteq done
      BY <1>5, Zenon
    <2>3. PICK n \in Nat : DOMAIN pending[b] = 1..n
      BY DEF DirInv, DirTypes
    <2>4. same(k) \in SUBSET (1..n)
      BY <1>3, <2>2, <2>3, Zenon
    <2>5. \E i \in same(k) : \A j \in same(k) : j <= i
      <3>1. PICK S \in SUBSET (1..n) : S = same(k)
        BY <2>4, Zenon
      <3> HIDE DEF same
      <3>2. \E i \in S : \A j \in S : j <= i
        BY <2>2, <3>1, LastPosition, Zenon
      <3> QED
        BY <3>1, <3>2, Zenon
    <2>6. last(k) \in same(k)
      BY <2>5, Zenon
    <2>7. new[k] = Stored(Data(dir[b][pending[b][last(k)].rel]))
      BY <1>5, Zenon
    <2> HIDE DEF last
    <2>8. last(k) \in puts /\ key(last(k)) = k
      BY <1>3, <2>6, Zenon
    <2> QED
      BY <2>1, <2>7, <2>8, Zenon
  <1> QED
    BY <1>4, <1>5, Zenon

\* Upload puts files under keys of blobs.
LEMMA UploadPutInv ==
  ASSUME DirInv, NEW b \in DirBuilds, UploadPut(b)
  PROVE  DirInv'
  <1>1. DirTypes /\ CacheShape /\ BuildInv(b) /\ PutInv(b) /\ dpc[b] = "upload"
    BY Zenon DEF DirInv, BuildInv, UploadPut
  <1>2. PICK to \in {"listing", "put"} : dpc' = [dpc EXCEPT ![b] = to]
    BY Zenon DEF UploadPut
  <1>3. /\ pending' = [pending EXCEPT ![b] = <<>>]
        /\ UNCHANGED <<rc, dir, listing, left, missing, written, ignored, racing>>
    BY Zenon DEF UploadPut
  <1>4. DirTypes' /\ OnlyOf(b) /\ dpc'[b] \in {"listing", "put"} /\ pending'[b] = <<>>
    BY <1>1, <1>2, <1>3 DEF DirTypes, OnlyOf
  <1>5. PutInv(b)'
    BY <1>1, <1>3, <1>4 DEF PutInv, OneLineEach
  <1>6. BuildInv(b)'
    <2>1. rc'[b] = None
      BY <1>1, <1>3, Zenon DEF BuildInv, ReturnInv, DirTypes
    <2> QED
      BY <1>4, <1>5, <2>1, DirCacheAssumption, Zenon DEF BuildInv, ReturnInv
  <1>7. ASSUME NEW i \in DOMAIN pending[b], dir[b][pending[b][i].rel] # None
        PROVE  Stored(Data(dir[b][pending[b][i].rel])) \in Files
    <2>1. dir[b][pending[b][i].rel] \in Files
      BY <1>1, <1>7, Zenon DEF PutInv
    <2> QED
      BY <2>1, FileOps, Zenon
  <1>8. ListingKey \in DOMAIN cache' => ListingKey \in DOMAIN cache /\ cache'[ListingKey] = cache[ListingKey]
    BY UploadPutIs, Keys, Zenon
  <1>9. \A h \in Files : BlobKey(h) \in DOMAIN cache' => cache'[BlobKey(h)] \in Files
    BY <1>1, <1>7, UploadPutIs DEF CacheShape
  <1>10. CacheShape'
    BY <1>1, <1>8, <1>9, Zenon DEF CacheShape, OneLineEach, Lines, FileLines, LinkLines, ListingKey, BlobKey
  <1> QED
    BY <1>4, <1>6, <1>10, OwnStep, Zenon

\* put-dir ends with the listing it has made.
LEMMA PutListingInv ==
  ASSUME DirInv, NEW b \in DirBuilds, PutListing(b)
  PROVE  DirInv'
  <1>1. DirTypes /\ CacheShape /\ BuildInv(b) /\ PutInv(b) /\ dpc[b] = "listing"
    BY Zenon DEF DirInv, BuildInv, PutListing
  <1>2. /\ listing' = [listing EXCEPT ![b] = <<>>] /\ dpc' = [dpc EXCEPT ![b] = "done"]
        /\ UNCHANGED <<rc, dir, left, pending, missing, written, ignored, racing>>
    BY Zenon DEF PutListing
  <1>3. DirTypes' /\ OnlyOf(b) /\ dpc'[b] = "done" /\ listing'[b] = <<>>
    BY <1>1, <1>2 DEF DirTypes, OnlyOf
  <1>4. BuildInv(b)'
    BY <1>1, <1>2, <1>3, DirCacheAssumption, Zenon DEF BuildInv, ReturnInv
  <1>5. PICK L \in Seq(Lines) : L = listing[b] /\ OneLineEach(L)
    BY <1>1, Zenon DEF DirTypes, PutInv
  <1>6. /\ ListingKey \in DOMAIN cache' =>
             cache'[ListingKey] = L \/ (ListingKey \in DOMAIN cache /\ cache'[ListingKey] = cache[ListingKey])
        /\ \A k \in DOMAIN cache' : k # ListingKey => k \in DOMAIN cache /\ cache'[k] = cache[k]
    BY <1>5, Zenon DEF PutListing, Put, Overlay
  <1>7. CacheShape'
    <2>1. ListingKey \in DOMAIN cache' => cache'[ListingKey] \in Seq(Lines) /\ OneLineEach(cache'[ListingKey])
      BY <1>1, <1>5, <1>6, Zenon DEF CacheShape
    <2>2. \A h \in Files : BlobKey(h) \in DOMAIN cache' => cache'[BlobKey(h)] \in Files
      BY <1>1, <1>6, Keys, Zenon DEF CacheShape
    <2> QED
      BY <2>1, <2>2, Zenon DEF CacheShape, OneLineEach, Lines, FileLines, LinkLines, ListingKey, BlobKey
  <1> QED
    BY <1>3, <1>4, <1>7, OwnStep, Zenon

\* The tree changes under put-dir.
LEMMA ScribbleInv ==
  ASSUME DirInv, NEW b \in DirBuilds, Scribble(b)
  PROVE  DirInv'
  <1>1. DirTypes /\ CacheShape /\ BuildInv(b) /\ PutInv(b) /\ dpc[b] \in {"put", "upload"}
    BY Zenon DEF DirInv, BuildInv, Scribble
  <1>2. PICK r \in Rels, f \in Files \cup {None} : dir' = [dir EXCEPT ![b][r] = f]
    BY DirCacheAssumption, Zenon DEF Scribble
  <1>3. UNCHANGED <<cache, dpc, rc, listing, left, pending, missing, written, ignored, racing>>
    BY Zenon DEF Scribble
  <1>4. CacheShape'
    BY <1>1, <1>3, SameCache, Zenon
  <1>5. /\ DirTypes' /\ OnlyOf(b)
        /\ \A q : dir'[b][q] = dir[b][q] \/ (q = r /\ dir'[b][q] = f)
    <2>1. dir[b] \in [Rels -> Files \cup Links \cup {None}]
      BY <1>1, Zenon DEF DirTypes
    <2>2. PICK D \in [Rels -> Files \cup Links \cup {None}] : D = [dir[b] EXCEPT ![r] = f]
      BY <2>1, Zenon
    <2>3. dir' = [dir EXCEPT ![b] = D]
      BY <1>2, <2>2, Zenon
    <2> QED
      BY <1>1, <1>3, <2>2, <2>3 DEF DirTypes, OnlyOf
  <1>6. PutInv(b)'
    BY <1>1, <1>3, <1>5, Zenon DEF PutInv, OneLineEach
  <1>7. rc'[b] = None
    BY <1>1, <1>3, Zenon DEF BuildInv, ReturnInv, DirTypes
  <1>8. BuildInv(b)'
    BY <1>1, <1>3, <1>6, <1>7, DirCacheAssumption, Zenon DEF BuildInv, ReturnInv
  <1> QED
    BY <1>4, <1>5, <1>8, OwnStep, Zenon

\* Connections break, and others use the daemon.
LEMMA ElsewhereInv ==
  ASSUME DirInv, Elsewhere \/ \E b \in DirBuilds : Break(b) /\ UNCHANGED dirVars
  PROVE  DirInv'
  <1>1. UNCHANGED dirVars /\ \A k \in DOMAIN cache' : DirKey(k) => k \in DOMAIN cache /\ cache'[k] = cache[k]
    BY Zenon DEF Elsewhere, Break
  <1>2. CacheShape'
    BY <1>1, SameCache, Zenon DEF DirInv
  <1>3. DirTypes'
    BY <1>1, Zenon DEF DirInv, DirTypes, dirVars
  <1>4. \A c \in DirBuilds : BuildInv(c)'
    BY <1>1, OtherBuild, Zenon DEF DirInv, dirVars
  <1> QED
    BY <1>2, <1>3, <1>4, Zenon DEF DirInv

\* Nothing is stored and no build has begun.
LEMMA DirInitInv ==
  ASSUME cache = <<>>, DirInit
  PROVE  DirInv
  <1>1. DirTypes
    BY DEF DirTypes, DirInit
  <1>2. CacheShape
    BY DEF CacheShape
  <1>3. \A b \in DirBuilds : BuildInv(b)
    BY DirCacheAssumption, Zenon DEF DirInit, BuildInv, ReturnInv
  <1> QED
    BY <1>1, <1>2, <1>3, Zenon DEF DirInv

\* Every step keeps DirInv.
LEMMA DirNextInv ==
  ASSUME DirInv, [DirNext \/ Elsewhere]_<<storeVars, dirVars>>
  PROVE  DirInv'
  <1>1. CASE DirNext
    BY <1>1, GetListingInv, RestoreBatchInv, RestoreEndInv, BuildStepInv, PutVisitInv,
       UploadHasInv, UploadPutInv, PutListingInv, ScribbleInv, ElsewhereInv, Zenon DEF DirNext, DirStep
  <1>2. CASE Elsewhere
    BY <1>2, ElsewhereInv, Zenon
  <1>3. CASE UNCHANGED <<storeVars, dirVars>>
    <2>1. Elsewhere
      BY <1>3, Zenon DEF Elsewhere, storeVars
    <2> QED
      BY <2>1, ElsewhereInv, Zenon
  <1> QED
    BY <1>1, <1>2, <1>3, Zenon

\* DirInv holds in every state.
THEOREM DirIsSound == DirSpec => []DirInv
  <1>1. cache = <<>> /\ DirInit => DirInv
    BY DirInitInv, Zenon
  <1>2. DirInv /\ [DirNext \/ Elsewhere]_<<storeVars, dirVars>> => DirInv'
    BY DirNextInv, Zenon
  <1> QED
    BY <1>1, <1>2, PTL DEF DirSpec

\* When get-dir returns 0 the tree has every entry of the listing, when it returns anything
\* else nothing is left behind (dir_mode.cc: "a partial tree would pass for a warm one"),
\* except where get-dir ignores an error: for any trees, builds and size of a batch, any
\* loss of connections and entries, any failing calls, and any change of the tree while it
\* is stored.
THEOREM TreesAreWholeOrAbsent == DirSpec => []AllOrNothing
  <1>1. DirInv => AllOrNothing
    BY Zenon DEF DirInv, BuildInv, ReturnInv, There, AllOrNothing
  <1> QED
    BY <1>1, DirIsSound, PTL

----------------------------------------------------------------------------
(* The tree that is restored is the tree of one build *)

\* L lists the tree of build c.
Snapshot(c, L) ==
  /\ \A i \in DOMAIN L : LET r == L[i].rel
                         IN  Built[c][r] # None /\ L[i] = Line(Built[c][r], r)
  /\ \A r \in Rels : Built[c][r] # None => \E i \in DOMAIN L : L[i].rel = r

\* The listing is of one build, and a blob is what its key says.
CacheClean ==
  /\ ListingKey \in DOMAIN cache => \E c \in DirBuilds : Snapshot(c, cache[ListingKey])
  /\ \A h \in Files : BlobKey(h) \in DOMAIN cache => cache[BlobKey(h)] = h

\* put-dir has listed what is there of the paths it has visited, as it is.
PutClean(b) ==
  /\ dir[b] = Built[b]
  /\ \A i \in DOMAIN listing[b] : LET r == listing[b][i].rel
                                  IN  Built[b][r] # None /\ listing[b][i] = Line(Built[b][r], r)
  /\ \A i \in DOMAIN pending[b] : LET r == pending[b][i].rel
                                  IN  /\ r \in Rels /\ Built[b][r] \in Files
                                      /\ pending[b][i] = Line(Built[b][r], r)
  /\ \A k \in DOMAIN Order \ left[b] :
       Built[b][Order[k]] # None => \E i \in DOMAIN listing[b] : listing[b][i].rel = Order[k]
  /\ dpc[b] = "listing" => left[b] = {}

\* What build b should have of the file at r of build c.
Should(b, c, r) == Localized(b, Kept(Built[c][r]))

\* get-dir restores the tree of one build.
RestoreClean(b) ==
  \E c \in DirBuilds : /\ Snapshot(c, listing[b])
                       /\ \A r \in written[b] : AsStored(b, r, Should(b, c, r))

WarmClean(b) == \E c \in DirBuilds : \A r \in Rels : AsStored(b, r, Should(b, c, r))

BuildClean(b) ==
  /\ dpc[b] \in {"put", "upload", "listing"} => PutClean(b)
  /\ dpc[b] = "restore" => RestoreClean(b)
  /\ rc[b] = "warm" => WarmClean(b)

CleanInv == ~racing => CacheClean /\ \A b \in DirBuilds : BuildClean(b)

\* Only get-dir's own build sees the difference between what was there and what it restores.
LEMMA RoundTrip ==
  ASSUME NEW f \in Files, NEW b, NEW to
  PROVE  /\ [Restored(b, Stored(Data(f))) EXCEPT !.mode = to] = [Restored(b, f) EXCEPT !.mode = to]
         /\ [Restored(b, f) EXCEPT !.mode = f.mode] = Restored(b, f)
  <1>1. PICK md \in Modes, tx \in BOOLEAN, bd \in Bodies, nm \in Mentions :
          f = [kind |-> "f", mode |-> md, text |-> tx, body |-> bd, names |-> nm]
    BY Zenon DEF Files
  <1>2. CASE ~tx
    BY <1>1, <1>2, Zenon DEF Restored, Stored, Data
  <1>3. CASE tx
    <2> DEFINE mask == [n \in DOMAIN nm |-> "*"]
               resolved == [n \in DOMAIN nm |-> IF n \in DOMAIN RootsOf[b] THEN RootsOf[b][n] ELSE "*"]
    <2>1. DOMAIN mask = DOMAIN nm
      BY Zenon
    <2>2. [n \in DOMAIN mask |-> IF n \in DOMAIN RootsOf[b] THEN RootsOf[b][n] ELSE "*"] = resolved
      BY <2>1, Zenon
    <2>3. Stored(Data(f)) = [kind |-> "f", mode |-> 0, text |-> tx, body |-> bd, names |-> mask]
      BY <1>1, <1>3, Zenon DEF Stored, Data, MaskHashes
    <2>4. Restored(b, f) = [kind |-> "f", mode |-> md, text |-> tx, body |-> bd, names |-> resolved]
      BY <1>1, <1>3, Zenon DEF Restored, ResolveAll
    <2> HIDE DEF mask
    <2>5. Restored(b, Stored(Data(f))) =
            [kind |-> "f", mode |-> 0, text |-> tx, body |-> bd,
             names |-> [n \in DOMAIN mask |-> IF n \in DOMAIN RootsOf[b] THEN RootsOf[b][n] ELSE "*"]]
      <3>1. PICK g : g = [kind |-> "f", mode |-> 0, text |-> tx, body |-> bd, names |-> mask]
        BY Zenon
      <3>2. g.text /\ g.names = mask
        BY <1>3, <3>1, Zenon
      <3>3. ResolveAll(b, g) =
              [kind |-> "f", mode |-> 0, text |-> tx, body |-> bd,
               names |-> [n \in DOMAIN mask |-> IF n \in DOMAIN RootsOf[b] THEN RootsOf[b][n] ELSE "*"]]
        BY <3>1 DEF ResolveAll
      <3> QED
        BY <2>3, <3>1, <3>2, <3>3, Zenon DEF Restored
    <2> HIDE DEF resolved
    <2> QED
      BY <1>1, <2>2, <2>4, <2>5
  <1> QED
    BY <1>2, <1>3, Zenon

\* A build does not notice what others do.
LEMMA OtherClean ==
  ASSUME NEW c \in DirBuilds, BuildClean(c),
         dpc'[c] = dpc[c], rc'[c] = rc[c], dir'[c] = dir[c], listing'[c] = listing[c],
         left'[c] = left[c], pending'[c] = pending[c], written'[c] = written[c],
         ignored'[c] = ignored[c]
  PROVE  BuildClean(c)'
  <1>1. PutClean(c) <=> PutClean(c)'
    BY DEF PutClean
  <1>2. RestoreClean(c) <=> RestoreClean(c)'
    BY Zenon DEF RestoreClean, AsStored
  <1>3. WarmClean(c) <=> WarmClean(c)'
    BY Zenon DEF WarmClean, AsStored
  <1> QED
    BY <1>1, <1>2, <1>3, Zenon DEF BuildClean

\* A step of build b has to keep the cache and the facts of b.
LEMMA OwnCleanStep ==
  ASSUME CleanInv, racing' = racing, NEW b \in DirBuilds, OnlyOf(b),
         ~racing /\ CacheClean /\ BuildClean(b) => CacheClean' /\ BuildClean(b)'
  PROVE  CleanInv'
  <1>1. ~racing => \A c \in DirBuilds \ {b} : BuildClean(c)'
    BY OtherClean, Zenon DEF CleanInv, OnlyOf
  <1> QED
    BY <1>1, Zenon DEF CleanInv

\* The cache is kept, or has lost entries.
LEMMA SameClean ==
  ASSUME CacheClean,
         \A k \in DOMAIN cache' : DirKey(k) => k \in DOMAIN cache /\ cache'[k] = cache[k]
  PROVE  CacheClean'
  BY Zenon DEF CacheClean, DirKey

\* A line of a listing of build c, and what it stands for.
LEMMA LineIs ==
  ASSUME NEW c \in DirBuilds, NEW L \in Seq(Lines), Snapshot(c, L), NEW i \in DOMAIN L
  PROVE  LET e == L[i]
             f == Built[c][e.rel]
         IN  /\ e.rel \in Rels /\ f \in Files \cup Links
             /\ e.kind = "l" => f \in Links /\ f = Link(e.ref)
             /\ e.kind = "f" => f \in Files /\ e.ref = Stored(Data(f)) /\ e.mode = f.mode
  <1> DEFINE e == L[i]
             f == Built[c][e.rel]
  <1>1. e \in Lines /\ e.rel \in Rels
    BY DEF Lines, FileLines, LinkLines
  <1>2. f # None /\ e = Line(f, e.rel)
    BY Zenon DEF Snapshot
  <1>3. f \in Files \cup Links
    BY <1>1, <1>2, DirCacheAssumption
  <1> HIDE DEF f, e
  <1>4. CASE f \in Links
    <2>1. PICK to \in Bodies : f = Link(to)
      BY <1>4, Zenon DEF Links
    <2>2. f.kind = "l" /\ f.body = to
      BY <2>1, Zenon DEF Link
    <2>3. e.kind = "l" /\ e.ref = to
      BY <1>2, <2>2 DEF Line
    <2> QED
      BY <1>1, <1>3, <1>4, <2>1, <2>3, Zenon DEF e, f
  <1>5. CASE f \in Files
    <2>1. f.kind = "f"
      BY <1>5, Zenon DEF Files
    <2>2. e.kind = "f" /\ e.ref = Stored(Data(f)) /\ e.mode = f.mode
      BY <1>2, <2>1 DEF Line
    <2> QED
      BY <1>1, <1>3, <1>5, <2>2, Zenon DEF e, f
  <1> QED
    BY <1>3, <1>4, <1>5, Zenon

\* The links of the listing are those of its build.
LEMMA GetListingClean ==
  ASSUME DirInv, CleanInv, NEW b \in DirBuilds, GetListing(b)
  PROVE  CleanInv'
  <1>1. DirTypes /\ CacheShape /\ BuildInv(b) /\ dpc[b] = "get"
    BY Zenon DEF DirInv, GetListing
  <1>2. racing' = racing /\ cache' = cache /\ OnlyOf(b)
    <2>1. racing' = racing /\ cache' = cache
      BY Zenon DEF GetListing
    <2>2. CASE Get(b, ListingKey) = None
      BY <1>1, <2>1, <2>2, Zenon DEF GetListing, OnlyOf, DirTypes
    <2>3. CASE Get(b, ListingKey) # None
      BY <1>1, <2>1, <2>3, Zenon DEF GetListing, OnlyOf, DirTypes
    <2> QED
      BY <2>2, <2>3, Zenon
  <1> SUFFICES ASSUME ~racing, CacheClean, BuildClean(b) PROVE CacheClean' /\ BuildClean(b)'
    BY <1>2, OwnCleanStep, Zenon
  <1>3. CacheClean'
    BY <1>2, SameClean, Zenon
  <1> DEFINE got == Get(b, ListingKey)
  <1>4. CASE got = None
    <2>1. rc'[b] = "cold" /\ dpc'[b] = "build"
      BY <1>1, <1>4, Zenon DEF GetListing, DirTypes
    <2> QED
      BY <1>3, <2>1, Zenon DEF BuildClean
  <1>5. CASE got # None
    <2>1. PICK L \in Seq(Lines) :
            /\ ListingKey \in DOMAIN cache /\ L = cache[ListingKey]
            /\ \E failed \in SUBSET {l.rel : l \in LinksOf(L)} : Begun(b, L, failed)
      BY <1>5, GetListingIs, Zenon
    <2>2. PICK failed \in SUBSET {l.rel : l \in LinksOf(L)} : Begun(b, L, failed)
      BY <2>1, Zenon
    <2>3. PICK c \in DirBuilds : Snapshot(c, L)
      BY <2>1, Zenon DEF CacheClean
    <2> DEFINE links == LinksOf(L)
               at(r) == CHOOSE l \in links : l.rel = r
    <2> DEFINE new == Made(L, failed)
               D == Overlay(new, dir[b])
    <2>5. /\ dpc'[b] = "restore" /\ listing'[b] = L /\ dir'[b] = D
          /\ written'[b] = {l.rel : l \in links} /\ ignored'[b] = failed /\ rc'[b] = None
      BY <1>1, <2>2, Zenon DEF DirTypes, BuildInv, ReturnInv, Begun
    <2>6. ASSUME NEW r \in written'[b], r \notin failed PROVE D[r] = Should(b, c, r)
      <3>1. r \in DOMAIN new
        BY <2>5, <2>6, Zenon DEF Made
      <3>2. D[r] = new[r]
        <4> HIDE DEF new
        <4> QED
          BY <3>1, OverlayIs, Zenon
      <3>3. at(r) \in links /\ at(r).rel = r /\ new[r] = Link(at(r).ref)
        BY <3>1, Zenon DEF Made
      <3>4. PICK i \in DOMAIN L : at(r) = L[i] /\ L[i].kind = "l" /\ L[i].ref \notin Spaced
        BY <3>3, Zenon DEF LinksOf, ParseListing
      <3>5. Built[c][r] \in Links /\ Built[c][r] = Link(L[i].ref)
        <4>1. L[i].rel = r /\ L[i].kind = "l"
          BY <3>3, <3>4, Zenon
        <4> HIDE DEF at
        <4>2. Built[c][L[i].rel] \in Links /\ Built[c][L[i].rel] = Link(L[i].ref)
          BY <2>3, <4>1, LineIs, Zenon
        <4> QED
          BY <4>1, <4>2, Zenon
      <3>6. Built[c][r].kind = "l" /\ Built[c][r].body \notin Spaced
        BY <3>4, <3>5 DEF Link
      <3> QED
        BY <3>2, <3>3, <3>4, <3>5, <3>6, Zenon DEF Should, Kept, Localized
    <2>7. ASSUME NEW r \in failed PROVE D[r] = None
      <3>1. r \in Rels
        <4>1. PICK i \in DOMAIN L : r = L[i].rel
          BY <2>2, Zenon DEF LinksOf, ParseListing
        <4> QED
          BY <2>3, <4>1, LineIs, Zenon
      <3>2. DOMAIN dir[b] = Rels /\ dir[b][r] = None
        BY <1>1, <3>1, Zenon DEF DirTypes, BuildInv
      <3>3. r \notin DOMAIN new
        BY Zenon DEF Made
      <3> HIDE DEF new
      <3>4. \A x \in DOMAIN dir[b] \ DOMAIN new : D[x] = dir[b][x]
        BY OverlayIs, Zenon
      <3> HIDE DEF D
      <3> QED
        BY <3>1, <3>2, <3>3, <3>4, Zenon
    <2> HIDE DEF D
    <2>8. \A r \in written'[b] : AsStored(b, r, Should(b, c, r))'
      BY <2>5, <2>6, <2>7, Zenon DEF AsStored, Should
    <2>9. RestoreClean(b)'
      BY <2>3, <2>5, <2>8, Zenon DEF RestoreClean
    <2> QED
      BY <1>3, <2>5, <2>9, DirCacheAssumption, Zenon DEF BuildClean
  <1> QED
    BY <1>4, <1>5, Zenon

\* A file of a batch is the file of the listing's build.
LEMMA RestoreBatchClean ==
  ASSUME DirInv, CleanInv, NEW b \in DirBuilds, RestoreBatch(b)
  PROVE  CleanInv'
  <1>1. DirTypes /\ BuildInv(b) /\ RestoreInv(b) /\ dpc[b] = "restore" /\ rc[b] = None
    BY Zenon DEF DirInv, BuildInv, ReturnInv, RestoreBatch
  <1>2. PICK batch \in SUBSET left[b], ok \in SUBSET left[b], unset \in SUBSET left[b],
             D \in [Rels -> Files \cup Links \cup {None}], k \in Nat : Batch(b, batch, ok, unset, D, k)
    BY RestoreBatchIs, Zenon
  <1>3. racing' = racing /\ cache' = cache /\ OnlyOf(b)
    BY <1>1, <1>2, Zenon DEF Batch, OnlyOf, DirTypes
  <1> SUFFICES ASSUME ~racing, CacheClean, BuildClean(b) PROVE CacheClean' /\ BuildClean(b)'
    BY <1>3, OwnCleanStep, Zenon
  <1>4. CacheClean'
    BY <1>3, SameClean, Zenon
  <1>5. PICK L \in Seq(Lines) : L = listing[b]
    BY <1>1, Zenon DEF DirTypes
  <1>6. PICK c \in DirBuilds : /\ Snapshot(c, L)
                               /\ \A r \in written[b] : AsStored(b, r, Should(b, c, r))
    BY <1>1, <1>5, Zenon DEF BuildClean, RestoreClean
  <1>7. /\ dir'[b] = D /\ written'[b] = written[b] \cup {L[i].rel : i \in ok}
        /\ ignored'[b] = ignored[b] \cup {L[i].rel : i \in unset}
        /\ dpc'[b] = "restore" /\ rc'[b] = None /\ listing'[b] = L
    <2>1. /\ dir' = [dir EXCEPT ![b] = D]
          /\ written' = [written EXCEPT ![b] = @ \cup {listing[b][i].rel : i \in ok}]
          /\ ignored' = [ignored EXCEPT ![b] = @ \cup {listing[b][i].rel : i \in unset}]
          /\ UNCHANGED <<dpc, rc, listing>>
      BY <1>2, Zenon DEF Batch
    <2>2. /\ dir'[b] = D /\ written'[b] = written[b] \cup {listing[b][i].rel : i \in ok}
          /\ ignored'[b] = ignored[b] \cup {listing[b][i].rel : i \in unset}
          /\ dpc'[b] = "restore" /\ rc'[b] = None /\ listing'[b] = listing[b]
      BY <1>1, <2>1, Zenon DEF DirTypes
    <2> QED
      BY <1>5, <2>2
  <1>8. ASSUME NEW i \in ok PROVE AsStored(b, L[i].rel, Should(b, c, L[i].rel))'
    <2>1. i \in DOMAIN L /\ L[i].kind = "f"
      BY <1>1, <1>5, Zenon DEF RestoreInv
    <2>2. PICK f \in Files : f = Built[c][L[i].rel] /\ L[i].ref = Stored(Data(f)) /\ L[i].mode = f.mode
      BY <1>6, <2>1, LineIs, Zenon
    <2>3. L[i].ref \in Files
      BY <2>2, FileOps, Zenon
    <2>4. /\ BlobKey(L[i].ref) \in DOMAIN cache
          /\ D[L[i].rel] = [Restored(b, cache[BlobKey(L[i].ref)]) EXCEPT
                             !.mode = IF i \in unset THEN NewMode ELSE L[i].mode]
      BY <1>2, <1>5, Zenon DEF Batch
    <2>5. cache[BlobKey(L[i].ref)] = Stored(Data(f))
      BY <2>2, <2>3, <2>4, Zenon DEF CacheClean
    <2>6. f # None /\ f.kind # "l"
      BY DirCacheAssumption, Zenon DEF Files
    <2>7. Should(b, c, L[i].rel) = Restored(b, f)
      BY <2>2, <2>6, Zenon DEF Should, Kept, Localized
    <2>8. CASE i \notin unset
      <3>1. D[L[i].rel] = Restored(b, f)
        <4>1. [Restored(b, Stored(Data(f))) EXCEPT !.mode = f.mode] = Restored(b, f)
          BY RoundTrip, Zenon
        <4>2. D[L[i].rel] = [Restored(b, Stored(Data(f))) EXCEPT !.mode = f.mode]
          BY <2>2, <2>4, <2>5, <2>8, Zenon
        <4> QED
          BY <4>1, <4>2, Zenon
      <3> QED
        BY <1>7, <2>7, <3>1, Zenon DEF AsStored, Should
    <2>9. CASE i \in unset
      <3>1. D[L[i].rel] = [Restored(b, f) EXCEPT !.mode = NewMode]
        <4>1. [Restored(b, Stored(Data(f))) EXCEPT !.mode = NewMode] = [Restored(b, f) EXCEPT !.mode = NewMode]
          BY RoundTrip, Zenon
        <4>2. D[L[i].rel] = [Restored(b, Stored(Data(f))) EXCEPT !.mode = NewMode]
          BY <2>4, <2>5, <2>9, Zenon
        <4> QED
          BY <4>1, <4>2, Zenon
      <3>2. L[i].rel \in ignored'[b]
        BY <1>7, <2>9, Zenon
      <3> QED
        BY <1>7, <2>7, <3>1, <3>2, Zenon DEF AsStored, Should
    <2> QED
      BY <2>8, <2>9, Zenon
  <1>9. ASSUME NEW r \in written[b], \A i \in ok : L[i].rel # r PROVE AsStored(b, r, Should(b, c, r))'
    <2>1. r \in Rels
      BY <1>1, Zenon DEF DirTypes
    <2>2. D[r] = dir[b][r]
      BY <1>2, <1>5, <1>9, <2>1, Zenon DEF Batch
    <2> QED
      BY <1>6, <1>7, <2>2, Zenon DEF AsStored, Should
  <1>10. RestoreClean(b)'
    BY <1>6, <1>7, <1>8, <1>9, Zenon DEF RestoreClean
  <1> QED
    BY <1>4, <1>7, <1>10, DirCacheAssumption, Zenon DEF BuildClean

\* get-dir returns 0 with the tree of the listing's build.
LEMMA RestoreEndClean ==
  ASSUME DirInv, CleanInv, NEW b \in DirBuilds, RestoreEnd(b)
  PROVE  CleanInv'
  <1>1. DirTypes /\ RestoreInv(b) /\ dpc[b] = "restore" /\ left[b] = {}
    BY Zenon DEF DirInv, BuildInv, RestoreEnd
  <1>2. racing' = racing /\ cache' = cache /\ OnlyOf(b)
    BY <1>1, Zenon DEF RestoreEnd, OnlyOf, DirTypes
  <1> SUFFICES ASSUME ~racing, CacheClean, BuildClean(b) PROVE CacheClean' /\ BuildClean(b)'
    BY <1>2, OwnCleanStep, Zenon
  <1>3. CacheClean'
    BY <1>2, SameClean, Zenon
  <1>4. PICK kept \in SUBSET written[b] :
          /\ missing[b] = 0 => kept = {}
          /\ dir'[b] = Cleared(b, kept) /\ ignored'[b] = ignored[b] \cup kept
    BY <1>1, Zenon DEF RestoreEnd, DirTypes
  <1>5. rc'[b] = (IF missing[b] # 0 THEN "cold" ELSE "warm") /\ dpc'[b] = "build"
    BY <1>1, Zenon DEF RestoreEnd, DirTypes
  <1>6. PICK L \in Seq(Lines) : L = listing[b]
    BY <1>1, Zenon DEF DirTypes
  <1>7. PICK c \in DirBuilds : Snapshot(c, L) /\ \A r \in written[b] : AsStored(b, r, Should(b, c, r))
    BY <1>1, <1>6, Zenon DEF BuildClean, RestoreClean
  <1>8. ASSUME missing[b] = 0, NEW r \in Rels PROVE AsStored(b, r, Should(b, c, r))'
    <2>1. dir'[b][r] = dir[b][r] /\ ignored'[b] = ignored[b]
      BY <1>4, <1>8, Zenon DEF Cleared
    <2>2. AsStored(b, r, Should(b, c, r))
      <3>1. CASE r \in written[b]
        BY <1>7, <3>1, Zenon
      <3>2. CASE r \notin written[b]
        <4>1. dir[b][r] = None
          BY <1>1, <3>2, Zenon DEF RestoreInv
        <4>2. ASSUME Built[c][r] # None PROVE Kept(Built[c][r]) = None
          <5>1. PICK i \in DOMAIN L : L[i].rel = r
            BY <1>7, <4>2, Zenon DEF Snapshot
          <5>2. i \notin ParseListing(L)
            BY <1>1, <1>6, <1>8, <3>2, <5>1, Zenon DEF RestoreInv
          <5>3. L[i].kind = "l" /\ L[i].ref \in Spaced
            BY <5>2, Zenon DEF ParseListing
          <5>4. Built[c][r] = Link(L[i].ref)
            BY <1>7, <5>1, <5>3, LineIs, Zenon
          <5>5. Built[c][r].kind = "l" /\ Built[c][r].body = L[i].ref
            BY <5>4 DEF Link
          <5> QED
            BY <4>2, <5>3, <5>5, Zenon DEF Kept
        <4>3. Kept(Built[c][r]) = None
          BY <4>2, Zenon DEF Kept
        <4> QED
          BY <4>1, <4>3, Zenon DEF AsStored, Should, Localized
      <3> QED
        BY <3>1, <3>2, Zenon
    <2> QED
      BY <2>1, <2>2, Zenon DEF AsStored, Should
  <1>9. rc'[b] = "warm" => WarmClean(b)'
    BY <1>5, <1>7, <1>8, Zenon DEF WarmClean
  <1> QED
    BY <1>3, <1>5, <1>9, Zenon DEF BuildClean

\* put-dir starts on the tree of its build.
LEMMA BuildStepClean ==
  ASSUME DirInv, CleanInv, NEW b \in DirBuilds, Build(b)
  PROVE  CleanInv'
  <1>1. DirTypes /\ BuildInv(b) /\ dpc[b] = "build"
    BY Zenon DEF DirInv, Build
  <1>2. racing' = racing /\ cache' = cache /\ OnlyOf(b)
    BY <1>1, Zenon DEF Build, OnlyOf, DirTypes
  <1> SUFFICES ASSUME ~racing, CacheClean, BuildClean(b) PROVE CacheClean' /\ BuildClean(b)'
    BY <1>2, OwnCleanStep, Zenon
  <1>3. CacheClean'
    BY <1>2, SameClean, Zenon
  <1>4. /\ dpc'[b] \in {"put", "done"} /\ rc'[b] = None /\ listing'[b] = <<>> /\ dir'[b] = Built[b]
        /\ left'[b] = DOMAIN Order /\ pending'[b] = <<>>
    BY <1>1, Zenon DEF Build, DirTypes, BuildInv
  <1>5. PutClean(b)'
    BY <1>4 DEF PutClean
  <1> QED
    BY <1>3, <1>4, <1>5, DirCacheAssumption, Zenon DEF BuildClean

\* The iterator lists what is there.
LEMMA PutVisitClean ==
  ASSUME DirInv, CleanInv, NEW b \in DirBuilds, PutVisit(b)
  PROVE  CleanInv'
  <1>1. DirTypes /\ BuildInv(b) /\ PutInv(b) /\ dpc[b] = "put"
    BY Zenon DEF DirInv, BuildInv, PutVisit
  <1>2. racing' = racing /\ cache' = cache /\ OnlyOf(b)
    BY <1>1 DEF PutVisit, storeVars, OnlyOf, DirTypes
  <1> SUFFICES ASSUME ~racing, CacheClean, BuildClean(b) PROVE CacheClean' /\ BuildClean(b)'
    BY <1>2, OwnCleanStep, Zenon
  <1>3. CacheClean'
    BY <1>2, SameClean, Zenon
  <1>4. PutClean(b) /\ dir[b] = Built[b]
    BY <1>1, Zenon DEF BuildClean, PutClean
  <1>5. PICK i \in left[b] :
          /\ IF dir[b][Order[i]] = None THEN UNCHANGED <<listing, pending>>
             ELSE /\ listing' = [listing EXCEPT ![b] = Append(@, Line(dir[b][Order[i]], Order[i]))]
                  /\ pending' = IF dir[b][Order[i]].kind = "l" THEN pending
                                ELSE [pending EXCEPT ![b] = Append(@, Line(dir[b][Order[i]], Order[i]))]
          /\ left' = [left EXCEPT ![b] = @ \ {i}]
    BY Zenon DEF PutVisit
  <1>6. PICK r \in Rels : r = Order[i]
    BY <1>1, Zenon DEF PutInv, Rels
  <1>7. PICK f \in Files \cup Links \cup {None} : f = Built[b][r]
    BY DirCacheAssumption, Zenon
  <1>8. /\ dpc'[b] = "put" /\ rc'[b] = None /\ dir'[b] = Built[b] /\ left'[b] = left[b] \ {i}
    BY <1>1, <1>4, <1>5, Zenon DEF PutVisit, DirTypes, BuildInv, ReturnInv
  <1>9. CASE f = None
    <2>1. listing'[b] = listing[b] /\ pending'[b] = pending[b]
      BY <1>4, <1>5, <1>6, <1>7, <1>9, Zenon
    <2>2. \A k \in DOMAIN Order \ left'[b] :
            Built[b][Order[k]] # None => \E n \in DOMAIN listing[b] : listing[b][n].rel = Order[k]
      BY <1>4, <1>6, <1>7, <1>8, <1>9, Zenon DEF PutClean
    <2>3. PutClean(b)'
      BY <1>4, <1>8, <2>1, <2>2, Zenon DEF PutClean
    <2> QED
      BY <1>3, <1>8, <2>3, DirCacheAssumption, Zenon DEF BuildClean
  <1>10. CASE f # None
    <2> DEFINE L == listing[b]
               P == pending[b]
    <2>1. PICK e \in Lines : /\ e = Line(f, r) /\ e.rel = r
                             /\ f.kind # "l" => f \in Files /\ e \in FileLines
      BY <1>10, LineType, Zenon
    <2>2. /\ listing'[b] = Append(L, e)
          /\ pending'[b] = IF f.kind = "l" THEN P ELSE Append(P, e)
      BY <1>1, <1>4, <1>5, <1>6, <1>7, <1>10, <2>1, Zenon DEF DirTypes
    <2>3. L \in Seq(Lines) /\ P \in Seq(FileLines)
      BY <1>1, Zenon DEF DirTypes
    <2>4. PICK M : M = Append(L, e)
      BY Zenon
    <2>5. /\ DOMAIN M = DOMAIN L \cup {Len(L) + 1}
          /\ M[Len(L) + 1] = e /\ \A k \in DOMAIN L : M[k] = L[k]
      BY <2>3, <2>4
    <2>6. PICK Q : Q = pending'[b]
      BY Zenon
    <2>7. \A k \in DOMAIN Q : (f \in Files /\ Q[k] = e) \/ (k \in DOMAIN P /\ Q[k] = P[k])
      <3>1. CASE f.kind = "l"
        BY <2>2, <2>6, <3>1, Zenon
      <3>2. CASE f.kind # "l"
        <4>1. Q = Append(P, e) /\ e \in FileLines /\ f \in Files
          BY <2>1, <2>2, <2>6, <3>2, Zenon
        <4> QED
          BY <2>3, <4>1
      <3> QED
        BY <3>1, <3>2, Zenon
    <2>8. \A n \in DOMAIN M : Built[b][M[n].rel] # None /\ M[n] = Line(Built[b][M[n].rel], M[n].rel)
      BY <1>4, <1>7, <1>10, <2>1, <2>5 DEF PutClean
    <2>9. \A n \in DOMAIN Q : /\ Q[n].rel \in Rels /\ Built[b][Q[n].rel] \in Files
                              /\ Q[n] = Line(Built[b][Q[n].rel], Q[n].rel)
      BY <1>4, <1>7, <2>1, <2>7 DEF PutClean
    <2>10. \A k \in DOMAIN Order \ left'[b] :
             Built[b][Order[k]] # None => \E n \in DOMAIN M : M[n].rel = Order[k]
      <3> SUFFICES ASSUME NEW k \in DOMAIN Order \ left'[b], Built[b][Order[k]] # None
                   PROVE  \E n \in DOMAIN M : M[n].rel = Order[k]
        BY Zenon
      <3>1. CASE k = i
        BY <3>1, <1>6, <2>1, <2>5, Zenon
      <3>2. CASE k # i
        <4>1. PICK n \in DOMAIN L : L[n].rel = Order[k]
          BY <3>2, <1>4, <1>8, Zenon DEF PutClean
        <4> QED
          BY <4>1, <2>5, Zenon
      <3> QED
        BY <3>1, <3>2, Zenon
    <2>11. PutClean(b)'
      <3>1. listing'[b] = M /\ pending'[b] = Q /\ dpc'[b] # "listing"
        BY <1>8, <2>2, <2>4, <2>6, Zenon
      <3> HIDE DEF L, P
      <3> QED
        BY <1>8, <2>8, <2>9, <2>10, <3>1, Zenon DEF PutClean
    <2> QED
      BY <1>3, <1>8, <2>11, DirCacheAssumption, Zenon DEF BuildClean
  <1> QED
    BY <1>9, <1>10, Zenon

\* The questions change nothing.
LEMMA UploadHasClean ==
  ASSUME DirInv, CleanInv, NEW b \in DirBuilds, UploadHas(b)
  PROVE  CleanInv'
  <1>1. DirTypes /\ dpc[b] = "put"
    BY Zenon DEF DirInv, UploadHas
  <1>2. racing' = racing /\ cache' = cache /\ OnlyOf(b)
    BY <1>1, Zenon DEF UploadHas, OnlyOf, DirTypes
  <1> SUFFICES ASSUME ~racing, CacheClean, BuildClean(b) PROVE CacheClean' /\ BuildClean(b)'
    BY <1>2, OwnCleanStep, Zenon
  <1>3. CacheClean'
    BY <1>2, SameClean, Zenon
  <1>4. /\ dpc'[b] = "upload" /\ PutClean(b)
        /\ UNCHANGED <<rc, dir, listing, left, pending, written, ignored>>
    BY <1>1, Zenon DEF UploadHas, DirTypes, BuildClean
  <1>5. PutClean(b)' /\ (WarmClean(b) <=> WarmClean(b)')
    BY <1>4, Zenon DEF PutClean, WarmClean, AsStored
  <1> QED
    BY <1>3, <1>4, <1>5, Zenon DEF BuildClean

\* A blob goes under the hash of what it is.
LEMMA UploadPutClean ==
  ASSUME DirInv, CleanInv, NEW b \in DirBuilds, UploadPut(b)
  PROVE  CleanInv'
  <1>1. DirTypes /\ dpc[b] = "upload"
    BY Zenon DEF DirInv, UploadPut
  <1>2. racing' = racing /\ OnlyOf(b)
    BY <1>1, Zenon DEF UploadPut, OnlyOf, DirTypes
  <1> SUFFICES ASSUME ~racing, CacheClean, BuildClean(b) PROVE CacheClean' /\ BuildClean(b)'
    BY <1>2, OwnCleanStep, Zenon
  <1>3. PutClean(b)
    BY <1>1, Zenon DEF BuildClean
  <1>4. ListingKey \in DOMAIN cache' => ListingKey \in DOMAIN cache /\ cache'[ListingKey] = cache[ListingKey]
    BY UploadPutIs, Keys, Zenon
  <1>5. ASSUME NEW h \in Files, BlobKey(h) \in DOMAIN cache' PROVE cache'[BlobKey(h)] = h
    <2>1. CASE BlobKey(h) \in DOMAIN cache /\ cache'[BlobKey(h)] = cache[BlobKey(h)]
      BY <2>1, Zenon DEF CacheClean
    <2>2. CASE \E i \in DOMAIN pending[b] :
                 /\ BlobKey(h) = BlobKey(pending[b][i].ref) /\ dir[b][pending[b][i].rel] # None
                 /\ cache'[BlobKey(h)] = Stored(Data(dir[b][pending[b][i].rel]))
      <3>1. PICK i \in DOMAIN pending[b] :
              /\ BlobKey(h) = BlobKey(pending[b][i].ref)
              /\ cache'[BlobKey(h)] = Stored(Data(dir[b][pending[b][i].rel]))
        BY <2>2, Zenon
      <3>2. h = pending[b][i].ref
        BY <3>1, Keys, Zenon
      <3>3. PICK f \in Files : f = Built[b][pending[b][i].rel] /\ pending[b][i] = Line(f, pending[b][i].rel)
        BY <1>3, Zenon DEF PutClean
      <3>4. f.kind = "f"
        BY Zenon DEF Files
      <3>5. pending[b][i].ref = Stored(Data(f))
        BY <3>3, <3>4 DEF Line
      <3>6. dir[b][pending[b][i].rel] = f
        BY <1>3, <3>3, Zenon DEF PutClean
      <3> QED
        BY <3>1, <3>2, <3>5, <3>6, Zenon
    <2> QED
      BY <1>5, <2>1, <2>2, UploadPutIs, Zenon
  <1>6. CacheClean'
    BY <1>4, <1>5, Zenon DEF CacheClean
  <1>7. /\ dpc'[b] = (IF left[b] = {} THEN "listing" ELSE "put") /\ pending'[b] = <<>>
        /\ UNCHANGED <<rc, dir, listing, left, written, ignored>>
    BY <1>1, Zenon DEF UploadPut, DirTypes
  <1>8. PutClean(b)' /\ (WarmClean(b) <=> WarmClean(b)')
    <2>1. PutClean(b)'
      BY <1>3, <1>7 DEF PutClean
    <2>2. WarmClean(b) <=> WarmClean(b)'
      BY <1>7, Zenon DEF WarmClean, AsStored
    <2> QED
      BY <2>1, <2>2, Zenon
  <1> QED
    BY <1>6, <1>7, <1>8, Zenon DEF BuildClean

\* The listing is of the whole tree.
LEMMA PutListingClean ==
  ASSUME DirInv, CleanInv, NEW b \in DirBuilds, PutListing(b)
  PROVE  CleanInv'
  <1>1. DirTypes /\ BuildInv(b) /\ dpc[b] = "listing"
    BY Zenon DEF DirInv, PutListing
  <1>2. racing' = racing /\ OnlyOf(b)
    BY <1>1, Zenon DEF PutListing, OnlyOf, DirTypes
  <1> SUFFICES ASSUME ~racing, CacheClean, BuildClean(b) PROVE CacheClean' /\ BuildClean(b)'
    BY <1>2, OwnCleanStep, Zenon
  <1>3. PutClean(b) /\ left[b] = {}
    BY <1>1, Zenon DEF BuildClean, PutClean
  <1>4. PICK L : L = listing[b]
    BY Zenon
  <1>5. Snapshot(b, L)
    <2>1. ASSUME NEW r \in Rels, Built[b][r] # None PROVE \E i \in DOMAIN L : L[i].rel = r
      <3>1. PICK k \in DOMAIN Order : r = Order[k]
        BY Zenon DEF Rels
      <3> QED
        BY <1>3, <1>4, <2>1, <3>1, Zenon DEF PutClean
    <2> QED
      BY <1>3, <1>4, <2>1, Zenon DEF PutClean, Snapshot
  <1>6. /\ ListingKey \in DOMAIN cache' =>
             cache'[ListingKey] = L \/ (ListingKey \in DOMAIN cache /\ cache'[ListingKey] = cache[ListingKey])
        /\ \A k \in DOMAIN cache' : k # ListingKey => k \in DOMAIN cache /\ cache'[k] = cache[k]
    BY <1>4, Zenon DEF PutListing, Put, Overlay
  <1>7. CacheClean'
    <2>1. ListingKey \in DOMAIN cache' => \E c \in DirBuilds : Snapshot(c, cache'[ListingKey])
      BY <1>5, <1>6 DEF CacheClean
    <2>2. \A h \in Files : BlobKey(h) \in DOMAIN cache' => cache'[BlobKey(h)] = h
      BY <1>6, Keys, Zenon DEF CacheClean
    <2> QED
      BY <2>1, <2>2, Zenon DEF CacheClean
  <1>8. dpc'[b] = "done" /\ rc'[b] = None
    BY <1>1, Zenon DEF PutListing, DirTypes, BuildInv, ReturnInv
  <1> QED
    BY <1>7, <1>8, DirCacheAssumption, Zenon DEF BuildClean

\* The tree does not change, connections break, and others use the daemon.
LEMMA ElsewhereClean ==
  ASSUME DirInv, CleanInv,
         \/ Elsewhere
         \/ \E b \in DirBuilds : Scribble(b) \/ (Break(b) /\ UNCHANGED dirVars)
  PROVE  CleanInv'
  <1>1. CASE \E b \in DirBuilds : Scribble(b)
    BY <1>1 DEF Scribble, CleanInv
  <1>2. CASE Elsewhere \/ \E b \in DirBuilds : Break(b) /\ UNCHANGED dirVars
    <2>1. UNCHANGED dirVars /\ \A k \in DOMAIN cache' : DirKey(k) => k \in DOMAIN cache /\ cache'[k] = cache[k]
      BY <1>2, Zenon DEF Elsewhere, Break
    <2>2. ~racing => CacheClean'
      BY <2>1, SameClean, Zenon DEF CleanInv
    <2>3. ~racing => \A c \in DirBuilds : BuildClean(c)'
      BY <2>1, OtherClean, Zenon DEF CleanInv, dirVars
    <2> QED
      BY <2>1, <2>2, <2>3, Zenon DEF CleanInv, dirVars
  <1> QED
    BY <1>1, <1>2, Zenon

\* Every step keeps CleanInv.
LEMMA CleanNextInv ==
  ASSUME DirInv, CleanInv, [DirNext \/ Elsewhere]_<<storeVars, dirVars>>
  PROVE  CleanInv'
  <1>1. CASE DirNext
    BY <1>1, GetListingClean, RestoreBatchClean, RestoreEndClean, BuildStepClean, PutVisitClean,
       UploadHasClean, UploadPutClean, PutListingClean, ElsewhereClean, Zenon DEF DirNext, DirStep
  <1>2. CASE Elsewhere
    BY <1>2, ElsewhereClean, Zenon
  <1>3. CASE UNCHANGED <<storeVars, dirVars>>
    <2>1. Elsewhere
      BY <1>3, Zenon DEF Elsewhere, storeVars
    <2> QED
      BY <2>1, ElsewhereClean, Zenon
  <1> QED
    BY <1>1, <1>2, <1>3, Zenon

\* A tree that get-dir returns as warm is the tree of one build, never a mixture, in terms of
\* the store paths of the build that restores it, but for the links that ParseListing drops
\* and for links and modes whose call failed: for any trees, any builds that store and
\* restore them at the same time, and any loss of connections and entries, provided that
\* nobody writes to a tree while put-dir reads it.
THEOREM WarmTreesAreOneBuilds == DirSpec => []RestoredIsStored
  <1>1. cache = <<>> /\ DirInit => CleanInv
    BY DirCacheAssumption DEF DirInit, CleanInv, CacheClean, BuildClean
  <1>2. DirInv /\ CleanInv /\ [DirNext \/ Elsewhere]_<<storeVars, dirVars>> => CleanInv'
    BY CleanNextInv, Zenon
  <1>3. DirInv /\ CleanInv => RestoredIsStored
    BY Zenon DEF CleanInv, BuildClean, WarmClean, Should, RestoredIsStored
  <1> QED
    BY <1>1, <1>2, <1>3, DirIsSound, PTL DEF DirSpec

----------------------------------------------------------------------------
(* Identities *)

States == {"idle", "stat", "recall", "read", "remember", "answered"}

Types ==
  /\ name \in [Paths -> Inodes \cup {Nothing}]
  /\ DOMAIN file = Inodes /\ DOMAIN known = Paths /\ DOMAIN past = Paths
  /\ ipc \in [Askers -> States]
  /\ fd \in [Askers -> Inodes \cup {Nothing}]
  /\ asked \in [Askers -> Paths \cup {Nothing}]
  /\ DOMAIN stamp = Askers /\ DOMAIN id = Askers

\* What is at a path is a version of it, and at no other path.
Named ==
  \A p \in Paths : name[p] # Nothing =>
    /\ file[name[p]] \in Versions(name[p]) \cap past[p]
    /\ \A q \in Paths : name[q] = name[p] => q = p

\* What a goroutine has open is a version of the path it asked for, even if the path is
\* gone by now; its inode is in no other use.
Held ==
  \A g \in Askers :
    /\ (ipc[g] \in {"stat", "recall", "read", "remember"}) => fd[g] # Nothing
    /\ fd[g] # Nothing =>
         /\ asked[g] \in Paths
         /\ file[fd[g]] \in Versions(fd[g]) \cap past[asked[g]]
         /\ \A q \in Paths : name[q] = fd[g] => q = asked[g]

HasStamp(g) == ipc[g] \in {"recall", "read", "remember"} \/ (ipc[g] = "answered" /\ id[g] # Nothing)

\* The file still begins with what it was when it was stamped.
Stamped ==
  \A g \in Askers : fd[g] # Nothing /\ HasStamp(g) =>
      /\ stamp[g].size \in Nat /\ stamp[g].size <= Len(file[fd[g]].data)
      /\ SubSeq(file[fd[g]].data, 1, stamp[g].size) \in ContentsWith(asked[g], stamp[g])

\* An answer is a content with the stamp.
Answered ==
  \A g \in Askers :
    /\ ipc[g] = "remember" => id[g] \in ContentsWith(asked[g], stamp[g])
    /\ ipc[g] = "answered" /\ id[g] # Nothing =>
         fd[g] # Nothing /\ id[g] \in ContentsWith(asked[g], stamp[g])
    /\ ipc[g] \in {"idle", "stat"} => id[g] = Nothing

\* An entry is the identity of a version the path has had, with the stamp it had then.
MemoSound ==
  \A p \in Paths : known[p] # Nothing => known[p].id \in ContentsWith(p, known[p].stamp)

IdentInv == Types /\ Named /\ Held /\ Stamped /\ Answered /\ MemoSound

-----------------------------------------------------------------------------

\* A version is as long as its stamp says.
LEMMA VersionData ==
  ASSUME NEW i \in Inodes, NEW v \in Versions(i)
  PROVE  /\ v.stamp.ino = i /\ v.data \in Seq(Nat)
         /\ Len(v.data) = v.stamp.size /\ v.stamp.size \in Nat
BY IdentAssumption DEF Versions

\* What a path has had it has had.
LEMMA PastStays ==
  ASSUME NEW p \in Paths, past[p] \subseteq past'[p], NEW s
  PROVE  ContentsWith(p, s) \subseteq ContentsWith(p, s)'
BY Zenon DEF ContentsWith

\* The beginning of a sequence's beginning.
LEMMA PrefixOfPrefix ==
  ASSUME NEW old \in Seq(Nat), NEW new \in Seq(Nat), NEW n \in Nat,
         n <= Len(old), Len(old) <= Len(new), SubSeq(new, 1, Len(old)) = old
  PROVE  SubSeq(new, 1, n) = SubSeq(old, 1, n)
<1>1. \A k \in 1..Len(old) : new[k] = old[k]
  OBVIOUS
<1>2. QED
  BY <1>1

\* All of a sequence.
LEMMA WholeSequence ==
  ASSUME NEW s \in Seq(Nat)
  PROVE  SubSeq(s, 1, Len(s)) = s
OBVIOUS

\* An empty memo and idle goroutines.
LEMMA Initially == IdentInit => IdentInv
BY DEF IdentInit, IdentInv, Types, States, Named, Held, Stamped, HasStamp, Answered, MemoSound

\* The file system and the memo stay; only the goroutine g moves.
LEMMA OfStepPreserves ==
  ASSUME IdentInv, NEW g \in Askers, OfStep(g)
  PROVE  IdentInv'
<1>0. Types /\ Named /\ Held /\ Stamped /\ Answered /\ MemoSound
  BY Zenon DEF IdentInv
<1>a. UNCHANGED <<name, file, past>>
  BY Zenon DEF OfStep, OpenFile, Stat, Recall, ReadFull, Remember, Reply
<1>b. Named'
  <2>1. name' = name /\ file' = file /\ past' = past
    BY <1>a, Zenon
  <2> QED
    BY <1>0, <2>1, IdentAssumption DEF Types, Named, Versions
<1>c. ASSUME NEW p, NEW s PROVE ContentsWith(p, s)' = ContentsWith(p, s)
  BY <1>a, Zenon DEF ContentsWith
<1>1. CASE OpenFile(g)
  <2>1. Types'
    BY <1>0, <1>1 DEF Types, States, OpenFile
  <2>2. MemoSound'
    BY <1>0, <1>1, <1>c, Zenon DEF MemoSound, OpenFile
  <2>3. Held'
    BY <1>0, <1>1 DEF Types, States, Named, Held, OpenFile, Versions
  <2>4. Stamped'
    BY <1>0, <1>1, <1>c DEF Types, States, Stamped, HasStamp, OpenFile
  <2>5. Answered'
    BY <1>0, <1>1, <1>c DEF Types, States, Answered, OpenFile
  <2>6. QED
    BY <1>b, <2>1, <2>2, <2>3, <2>4, <2>5, Zenon DEF IdentInv
<1>2. CASE Stat(g)
  <2>1. Types'
    BY <1>0, <1>2 DEF Types, States, Stat
  <2>2. MemoSound'
    BY <1>0, <1>2, <1>c, Zenon DEF MemoSound, Stat
  <2>3. Held'
    BY <1>0, <1>2 DEF Types, States, Held, Stat, Versions
  <2>4. Stamped'
    <3>1. fd[g] \in Inodes /\ asked[g] \in Paths /\ file[fd[g]] \in Versions(fd[g]) \cap past[asked[g]]
      BY <1>0, <1>2 DEF Types, States, Held, Stat
    <3>2. LET v == file[fd[g]]
          IN  v.stamp.size \in Nat /\ v.stamp.size <= Len(v.data) /\ SubSeq(v.data, 1, v.stamp.size) = v.data
      BY <3>1, VersionData, WholeSequence
    <3>3. file[fd[g]].data \in ContentsWith(asked[g], file[fd[g]].stamp)
      BY <3>1, Zenon DEF ContentsWith
    <3>4. QED
      BY <1>0, <1>2, <1>c, <3>2, <3>3 DEF Types, States, Stamped, HasStamp, Answered, Stat
  <2>5. Answered'
    BY <1>0, <1>2, <1>c DEF Types, States, Answered, Stat
  <2>6. QED
    BY <1>b, <2>1, <2>2, <2>3, <2>4, <2>5, Zenon DEF IdentInv
<1>3. CASE Recall(g)
  <2>1. Types'
    BY <1>0, <1>3 DEF Types, States, Recall
  <2>2. MemoSound'
    BY <1>0, <1>3, <1>c, Zenon DEF MemoSound, Recall
  <2>3. Held'
    BY <1>0, <1>3 DEF Types, States, Held, Recall, Versions
  <2>4. Stamped'
    BY <1>0, <1>3, <1>c DEF Types, States, Stamped, HasStamp, Recall
  <2>5. Answered'
    BY <1>0, <1>3, <1>c DEF Types, States, Held, Answered, MemoSound, Recall, Matches
  <2>6. QED
    BY <1>b, <2>1, <2>2, <2>3, <2>4, <2>5, Zenon DEF IdentInv
<1>4. CASE ReadFull(g)
  <2>1. Types'
    BY <1>0, <1>4 DEF Types, States, ReadFull
  <2>2. MemoSound'
    BY <1>0, <1>4, <1>c, Zenon DEF MemoSound, ReadFull
  <2>3. Held'
    BY <1>0, <1>4 DEF Types, States, Held, ReadFull, Versions
  <2>4. Stamped'
    BY <1>0, <1>4, <1>c DEF Types, States, Stamped, HasStamp, ReadFull
  <2>5. Answered'
    BY <1>0, <1>4, <1>c DEF Types, States, Held, Stamped, HasStamp, Answered, ReadFull
  <2>6. QED
    BY <1>b, <2>1, <2>2, <2>3, <2>4, <2>5, Zenon DEF IdentInv
<1>5. CASE Remember(g)
  <2>1. Types'
    BY <1>0, <1>5 DEF Types, States, Remember
  <2>2. MemoSound'
    BY <1>0, <1>5, <1>c DEF Types, Held, Answered, MemoSound, Remember
  <2>3. Held'
    BY <1>0, <1>5 DEF Types, States, Held, Remember, Versions
  <2>4. Stamped'
    BY <1>0, <1>5, <1>c DEF Types, States, Stamped, HasStamp, Remember
  <2>5. Answered'
    BY <1>0, <1>5, <1>c DEF Types, States, Held, Answered, Remember
  <2>6. QED
    BY <1>b, <2>1, <2>2, <2>3, <2>4, <2>5, Zenon DEF IdentInv
<1>6. CASE Reply(g)
  <2>1. Types'
    BY <1>0, <1>6 DEF Types, States, Reply
  <2>2. MemoSound'
    BY <1>0, <1>6, <1>c, Zenon DEF MemoSound, Reply
  <2>3. Held' /\ Stamped' /\ Answered'
    BY <1>0, <1>6, <1>c DEF Types, States, Held, Stamped, HasStamp, Answered, Reply, Versions
  <2>4. QED
    BY <1>b, <2>1, <2>2, <2>3, Zenon DEF IdentInv
<1>7. QED
  BY <1>1, <1>2, <1>3, <1>4, <1>5, <1>6, Zenon DEF OfStep

\* A path gets another version; the calls of Of and the memo lose nothing.
LEMMA BecomesKeeps ==
  ASSUME IdentInv, NEW p \in Paths, NEW i \in Inodes, NEW v, Becomes(p, i, v), UNCHANGED <<known, callVars>>
  PROVE  /\ Answered' /\ MemoSound'
         /\ \A q \in Paths : past[q] \subseteq past'[q]
         /\ \A q \in Paths : \A s : ContentsWith(q, s) \subseteq ContentsWith(q, s)'
         /\ v \in past'[p] /\ DOMAIN past' = Paths
<1>1. Types /\ Held /\ Answered /\ MemoSound
  BY Zenon DEF IdentInv
<1>2. past' = [past EXCEPT ![p] = @ \cup {v}] /\ DOMAIN past = Paths
  BY <1>1, Zenon DEF Becomes, Types
<1>3. \A q \in Paths : past[q] \subseteq past'[q]
  BY <1>2, Zenon
<1>4. \A q \in Paths : \A s : ContentsWith(q, s) \subseteq ContentsWith(q, s)'
  BY <1>3, PastStays, Zenon
<1>5. UNCHANGED <<known, ipc, asked, fd, stamp, id>>
  BY Zenon DEF callVars
<1>6. MemoSound'
  BY <1>1, <1>4, <1>5, Zenon DEF MemoSound
<1>7. Answered'
  <2>1. \A g \in Askers : fd[g] # Nothing => asked[g] \in Paths
    BY <1>1, Zenon DEF Held
  <2>2. \A g \in Askers : ipc[g] = "remember" => fd[g] # Nothing
    BY <1>1, Zenon DEF Held
  <2> QED
    BY <1>1, <1>4, <1>5, <2>1, <2>2, Zenon DEF Answered
<1> QED
  BY <1>2, <1>3, <1>4, <1>6, <1>7, Zenon

\* A new file takes an inode that nobody has open.
LEMMA CreatePreserves ==
  ASSUME IdentInv, NEW p \in Paths, Create(p)
  PROVE  IdentInv'
<1>0. Types /\ Named /\ Held /\ Stamped /\ Answered /\ MemoSound
  BY Zenon DEF IdentInv
<1>1. PICK i \in Inodes :
        /\ ~Open(i) /\ \A q \in Paths : name[q] # i
        /\ name' = [name EXCEPT ![p] = i]
        /\ \E v \in Versions(i) : Becomes(p, i, v)
  BY Zenon DEF Create
<1>2. PICK v \in Versions(i) : Becomes(p, i, v)
  BY <1>1, Zenon
<1>3. UNCHANGED <<known, callVars>> /\ UNCHANGED <<known, ipc, asked, fd, stamp, id>>
  BY Zenon DEF Create, callVars
<1>4. \A g \in Askers : fd[g] # i
  BY <1>1, Zenon DEF Open
<1>5. /\ Answered' /\ MemoSound' /\ \A q \in Paths : past[q] \subseteq past'[q]
      /\ \A q \in Paths : \A s : ContentsWith(q, s) \subseteq ContentsWith(q, s)'
      /\ v \in past'[p] /\ DOMAIN past' = Paths
  BY <1>2, <1>3, BecomesKeeps, Zenon
<1>6. file' = [file EXCEPT ![i] = v]
  BY <1>2, Zenon DEF Becomes
<1>7. Types'
  BY <1>0, <1>1, <1>3, <1>5, <1>6 DEF Types
<1>8. Named'
  BY <1>0, <1>1, <1>3, <1>5, <1>6, IdentAssumption DEF Types, Named, Versions
<1>9. Held'
  BY <1>0, <1>1, <1>3, <1>4, <1>5, <1>6, IdentAssumption DEF Types, Held, Versions
<1>10. Stamped'
  <2>1. \A g \in Askers : fd[g] # Nothing => asked[g] \in Paths /\ file'[fd[g]] = file[fd[g]]
    BY <1>0, <1>4, <1>6, Zenon DEF Types, Held
  <2> QED
    BY <1>0, <1>3, <1>5, <2>1, Zenon DEF Stamped, HasStamp
<1>11. QED
  BY <1>5, <1>7, <1>8, <1>9, <1>10, Zenon DEF IdentInv

\* A file that grows keeps its beginning, for those who have it open.
LEMMA ExtendPreserves ==
  ASSUME IdentInv, NEW p \in Paths, Extend(p)
  PROVE  IdentInv'
<1>0. Types /\ Named /\ Held /\ Stamped /\ Answered /\ MemoSound
  BY Zenon DEF IdentInv
<1> DEFINE i == name[p]  old == file[i].data
<1>1. PICK v \in Versions(i) :
        /\ Len(old) <= Len(v.data) /\ SubSeq(v.data, 1, Len(old)) = old
        /\ Becomes(p, i, v)
  BY Zenon DEF Extend
<1>2. /\ UNCHANGED <<name, known, callVars>> /\ UNCHANGED <<known, ipc, asked, fd, stamp, id>>
      /\ i # Nothing /\ i \in Inodes
  BY <1>0, Zenon DEF Extend, callVars, Types
<1>3. old \in Seq(Nat) /\ v.data \in Seq(Nat)
  BY <1>0, <1>1, <1>2, VersionData, Zenon DEF Named
<1>4. /\ Answered' /\ MemoSound' /\ \A q \in Paths : past[q] \subseteq past'[q]
      /\ \A q \in Paths : \A s : ContentsWith(q, s) \subseteq ContentsWith(q, s)'
      /\ v \in past'[p] /\ DOMAIN past' = Paths
  BY <1>1, <1>2, BecomesKeeps, Zenon
<1>5. file' = [file EXCEPT ![i] = v]
  BY <1>1, Zenon DEF Becomes
<1>6. Types'
  BY <1>0, <1>2, <1>4, <1>5 DEF Types
<1>7. Named'
  BY <1>0, <1>1, <1>2, <1>4, <1>5 DEF Types, Named, Versions
<1>8. Held'
  BY <1>0, <1>1, <1>2, <1>4, <1>5 DEF Types, Held, Versions
<1>9. Stamped'
  <2> SUFFICES ASSUME NEW g \in Askers, fd[g] # Nothing, HasStamp(g)
               PROVE  /\ stamp[g].size \in Nat /\ stamp[g].size <= Len(file'[fd[g]].data)
                      /\ SubSeq(file'[fd[g]].data, 1, stamp[g].size) \in ContentsWith(asked[g], stamp[g])'
    BY <1>2, Zenon DEF Stamped, HasStamp
  <2>1. /\ stamp[g].size \in Nat /\ stamp[g].size <= Len(file[fd[g]].data)
        /\ SubSeq(file[fd[g]].data, 1, stamp[g].size) \in ContentsWith(asked[g], stamp[g])'
    BY <1>0, <1>2, <1>4, Zenon DEF Held, Stamped
  <2>2. CASE fd[g] = i
    <3>1. file'[fd[g]] = v
      BY <1>0, <1>2, <1>5, <2>2, Zenon DEF Types
    <3>2. SubSeq(v.data, 1, stamp[g].size) = SubSeq(old, 1, stamp[g].size)
      BY <1>1, <1>3, <2>1, <2>2, PrefixOfPrefix
    <3>3. stamp[g].size <= Len(v.data)
      <4>1. Len(old) \in Nat /\ Len(v.data) \in Nat /\ stamp[g].size <= Len(old)
        BY <1>3, <2>1, <2>2
      <4> HIDE DEF old
      <4>2. QED
        BY <1>1, <2>1, <4>1
    <3>4. QED
      BY <2>1, <2>2, <3>1, <3>2, <3>3, Zenon
  <2>3. CASE fd[g] # i
    <3>1. file'[fd[g]] = file[fd[g]]
      BY <1>0, <1>5, <2>3, Zenon DEF Types
    <3>2. QED
      BY <2>1, <3>1, Zenon
  <2>4. QED
    BY <2>2, <2>3, Zenon
<1>10. QED
  BY <1>4, <1>6, <1>7, <1>8, <1>9, Zenon DEF IdentInv

\* A path that goes takes nothing from those who have its file open.
LEMMA CollectPreserves ==
  ASSUME IdentInv, NEW p \in Paths, Collect(p)
  PROVE  IdentInv'
BY DEF IdentInv, Types, Named, Held, Stamped, HasStamp, Answered, MemoSound, ContentsWith, Collect,
       Versions, callVars

\* Every step of a goroutine and of Nix keeps the invariant.
LEMMA Preserved == IdentInv /\ [IdentNext]_identVars => IdentInv'
<1> SUFFICES ASSUME IdentInv, [IdentNext]_identVars PROVE IdentInv'
  OBVIOUS
<1>1. CASE UNCHANGED identVars
  <2>1. UNCHANGED <<name, file, past, known, ipc, asked, fd, stamp, id>>
    BY <1>1, Zenon DEF identVars, callVars
  <2>a. Types /\ Named /\ Held
    BY Zenon DEF IdentInv
  <2>b. Types'
    BY <2>1, <2>a DEF Types, States
  <2>c. Named'
    BY <2>1, <2>a, IdentAssumption DEF Types, Named, Versions
  <2>d. Held'
    BY <2>1, <2>a, IdentAssumption DEF Types, Held, Versions
  <2>2. Types' /\ Named' /\ Held'
    BY <2>b, <2>c, <2>d, Zenon
  <2>3. Stamped' /\ Answered' /\ MemoSound'
    BY <2>1, Zenon DEF IdentInv, Stamped, HasStamp, Answered, MemoSound, ContentsWith
  <2> QED
    BY <2>2, <2>3, Zenon DEF IdentInv
<1>2. CASE IdentNext
  BY <1>2, OfStepPreserves, CreatePreserves, ExtendPreserves, CollectPreserves, Zenon DEF IdentNext, StoreStep
<1>3. QED
  BY <1>1, <1>2

\* What was stamped and remembered is what the file has.
LEMMA Implied == IdentInv => IdentityIsContent
BY DEF IdentInv, Stamped, HasStamp, Answered, IdentityIsContent

\* Whatever goroutines, collections, rebuilds and reused inode numbers come together,
\* Identities.Of (identity.go) returns the identity of what the file it opened began with,
\* or of another version of the path that had the same inode, size and time.
THEOREM IdentitiesSound == IdentSpec => []IdentityIsContent
BY Initially, Preserved, Implied, PTL DEF IdentSpec

\* Every entry of Identities.known is the identity of a content its path has had with the
\* stamp that guards it.
THEOREM MemoIsSound == IdentSpec => []MemoSound
<1>1. IdentInv => MemoSound
  BY DEF IdentInv
<1>2. QED
  BY <1>1, Initially, Preserved, PTL DEF IdentSpec
=============================================================================
