------------------------------ MODULE DirCache ------------------------------
(***************************************************************************)
(* Directory trees in the cache (pkgs/ji/jig/src/dir_mode.cc), used as     *)
(* builder/build-cache.nu does: a build restores a tree, works on it and   *)
(* stores it.  A tree is a listing under one key and one blob per file     *)
(* under the hash of its content; hashes are modelled by what is hashed.   *)
(* A file is [kind, mode, text, body, names]: names maps the store paths   *)
(* it mentions, without their hash, to their hash.  Of a link the body is  *)
(* the target.                                                             *)
(***************************************************************************)
EXTENDS ArtifactStore

CONSTANTS
  DirBuilds,
  Order,     \* paths of the tree, as the directory iterator comes to them
  Built,     \* Built[b][r]: what the build has there when it is done
  RootsOf,   \* RootsOf[b]: JIG_STORE_ROOTS and $out, name to hash
  Scribbles, \* what a file becomes when the tree changes under put-dir
  Modes, Bodies, Mentions,
  NewMode,   \* the mode of a file that is just written
  Spaced,    \* the link targets with a blank in them
  kBatch

VARIABLES
  dpc, rc,   \* where the build is, and what get-dir returned
  dir,       \* its tree
  listing,   \* the listing it fetched or is making
  left,      \* the lines of the listing still to be restored, or the paths to be visited
  pending,   \* the entries hashed but not uploaded
  have,      \* those of them the daemon has
  missing, written,
  ignored,   \* the paths where a call of get-dir failed whose error it ignores
  racing     \* whether the tree changes under put-dir

dirVars == <<dpc, rc, dir, listing, left, pending, have, missing, written, ignored, racing>>

Rels == {Order[i] : i \in DOMAIN Order}
ListingKey == <<"build1">>
BlobKey(hash) == <<"b", hash>>

----------------------------------------------------------------------------
(* Files *)

MaskHashes(f) == [f EXCEPT !.names = [n \in DOMAIN @ |-> "*"]]

\* A name that is no root of the build stays masked.
ResolveAll(b, f) ==
  [f EXCEPT !.names = [n \in DOMAIN @ |-> IF n \in DOMAIN RootsOf[b] THEN RootsOf[b][n] ELSE "*"]]

\* Mutant of Stored: binaries are masked as well.
StoredAll(f) == MaskHashes(f)

\* The data of a file, without its mode.  Text travels masked, binaries byte by byte.
Stored(f) == IF f.text THEN MaskHashes(f) ELSE f

Restored(b, f) == IF f.text THEN ResolveAll(b, f) ELSE f

Data(f) == [f EXCEPT !.mode = 0]

Line(f, r) ==
  IF f.kind = "l" THEN [kind |-> "l", mode |-> 0, ref |-> f.body, rel |-> r]
  ELSE [kind |-> "f", mode |-> f.mode, ref |-> Stored(Data(f)), rel |-> r]

Link(to) == [kind |-> "l", mode |-> 0, text |-> FALSE, body |-> to, names |-> <<>>]

Files == [kind : {"f"}, mode : Modes, text : BOOLEAN, body : Bodies, names : Mentions]
Links == {Link(to) : to \in Bodies}

\* The iterator comes to every path once; a file that changes stays one or is gone.
ASSUME DirCacheAssumption ==
  /\ DirBuilds \subseteq Clients
  /\ DOMAIN Order \subseteq Nat /\ IsFiniteSet(DOMAIN Order)
  /\ \A i, k \in DOMAIN Order : Order[i] = Order[k] => i = k
  /\ Built \in [DirBuilds -> [Rels -> Files \cup Links \cup {None}]]
  /\ Scribbles \subseteq Files \cup {None}
  /\ None \notin Files \cup Links \cup {"cold", "warm"}
  /\ {0, NewMode} \subseteq Modes
  /\ \A m \in Mentions :
       /\ [n \in DOMAIN m |-> "*"] \in Mentions
       /\ \A b \in DirBuilds :
            [n \in DOMAIN m |-> IF n \in DOMAIN RootsOf[b] THEN RootsOf[b][n] ELSE "*"] \in Mentions

----------------------------------------------------------------------------

DirInit ==
  /\ dpc = [b \in DirBuilds |-> "get"]
  /\ rc = [b \in DirBuilds |-> None]
  /\ dir = [b \in DirBuilds |-> [r \in Rels |-> None]]
  /\ listing = [b \in DirBuilds |-> <<>>]
  /\ left = [b \in DirBuilds |-> {}]
  /\ pending = [b \in DirBuilds |-> <<>>]
  /\ have = [b \in DirBuilds |-> {}]
  /\ missing = [b \in DirBuilds |-> 0]
  /\ written = [b \in DirBuilds |-> {}]
  /\ ignored = [b \in DirBuilds |-> {}]
  /\ racing \in BOOLEAN

\* The lines that are entries.  A line is three words, a tab and the path: a link with a
\* blank in its target is none.
ParseListing(text) == {i \in DOMAIN text : ~(text[i].kind = "l" /\ text[i].ref \in Spaced)}

\* get-dir: no connection or no listing, or the listing is parsed and its links are made.
\* A link that cannot be made counts as written all the same.
GetListing(b) ==
  /\ dpc[b] = "get"
  /\ LET text == Get(b, ListingKey)
         links == {text[i] : i \in {n \in ParseListing(text) : text[n].kind = "l"}}
     IN  IF text = None
         THEN /\ rc' = [rc EXCEPT ![b] = "cold"]
              /\ dpc' = [dpc EXCEPT ![b] = "build"]
              /\ UNCHANGED <<faults, dir, listing, left, written, ignored>>
         ELSE \E failed \in SUBSET {l.rel : l \in links} :
              /\ Faults(Count(failed # {}))
              /\ dpc' = [dpc EXCEPT ![b] = "restore"]
              /\ listing' = [listing EXCEPT ![b] = text]
              /\ left' = [left EXCEPT ![b] = {n \in DOMAIN text : text[n].kind = "f"}]
              /\ dir' = [dir EXCEPT ![b] =
                   Overlay([r \in {l.rel : l \in links} \ failed |->
                              Link((CHOOSE l \in links : l.rel = r).ref)], @)]
              /\ written' = [written EXCEPT ![b] = {l.rel : l \in links}]
              /\ ignored' = [ignored EXCEPT ![b] = failed]
              /\ UNCHANGED rc
  /\ UNCHANGED <<cache, up, pending, have, missing, racing>>

\* The first n of a set of positions.
First(S, n) == {i \in S : Cardinality({k \in S : k < i}) < n}

\* One GetMany and the files it brings; a write may fail as well, and so may the chmod
\* after it, which nobody notices.
RestoreBatch(b) ==
  /\ dpc[b] = "restore" /\ left[b] # {}
  /\ LET batch == First(left[b], kBatch)
         n == Cardinality(batch)
         blob(i) == Get(b, BlobKey(listing[b][i].ref))
     IN  \E m \in 0..n, full, unset \in SUBSET batch :
           /\ Served(b, n, m)
           /\ Faults(Lost(b, n, m) + Count(full # {}) + Count(unset # {}))
           /\ LET ok == {i \in First(batch, m) : i \notin full /\ blob(i) # None}
                  mode(i) == IF i \in unset THEN NewMode ELSE listing[b][i].mode
              IN  /\ unset \subseteq ok
                  /\ dir' = [dir EXCEPT ![b] =
                       Overlay([r \in {listing[b][i].rel : i \in ok} |->
                          LET i == CHOOSE k \in ok : listing[b][k].rel = r
                          IN  [Restored(b, blob(i)) EXCEPT !.mode = mode(i)]], @)]
                  /\ written' = [written EXCEPT ![b] = @ \cup {listing[b][i].rel : i \in ok}]
                  /\ ignored' = [ignored EXCEPT ![b] = @ \cup {listing[b][i].rel : i \in unset}]
                  /\ missing' = [missing EXCEPT ![b] = @ + Cardinality(batch \ ok)]
           /\ left' = [left EXCEPT ![b] = @ \ batch]
  /\ UNCHANGED <<cache, dpc, rc, listing, pending, have, racing>>

\* "a partial tree would pass for a warm one": what was written is removed, except what
\* cannot be.
Cleared(b, kept) ==
  [r \in Rels |-> IF missing[b] # 0 /\ r \in written[b] \ kept THEN None ELSE dir[b][r]]

\* Mutant of RestoreEnd: missing files do not count.
RestoreEndAnyway(b) ==
  /\ dpc[b] = "restore" /\ left[b] = {}
  /\ rc' = [rc EXCEPT ![b] = "warm"]
  /\ dpc' = [dpc EXCEPT ![b] = "build"]
  /\ UNCHANGED <<storeVars, dir, listing, left, pending, have, missing, written, ignored, racing>>

RestoreEnd(b) ==
  /\ dpc[b] = "restore" /\ left[b] = {}
  /\ \E kept \in SUBSET written[b] :
       /\ missing[b] = 0 => kept = {}
       /\ Faults(Count(kept # {}))
       /\ dir' = [dir EXCEPT ![b] = Cleared(b, kept)]
       /\ ignored' = [ignored EXCEPT ![b] = @ \cup kept]
  /\ rc' = [rc EXCEPT ![b] = IF missing[b] # 0 THEN "cold" ELSE "warm"]
  /\ dpc' = [dpc EXCEPT ![b] = "build"]
  /\ UNCHANGED <<cache, up, listing, left, pending, have, missing, written, racing>>

\* The build itself, then put-dir connects.
Build(b) ==
  /\ dpc[b] = "build"
  /\ dir' = [dir EXCEPT ![b] = Built[b]]
  /\ \/ Connect(b) /\ dpc' = [dpc EXCEPT ![b] = "put"]
     \/ Close(b) /\ dpc' = [dpc EXCEPT ![b] = "done"]
  /\ rc' = [rc EXCEPT ![b] = None]
  /\ listing' = [listing EXCEPT ![b] = <<>>]
  /\ left' = [left EXCEPT ![b] = DOMAIN Order]
  /\ missing' = [missing EXCEPT ![b] = 0]
  /\ written' = [written EXCEPT ![b] = {}]
  /\ ignored' = [ignored EXCEPT ![b] = {}]
  /\ UNCHANGED <<cache, faults, pending, have, racing>>

\* A batch is full; what is left over makes the last one.
Batched(b) == Len(pending[b]) = kBatch

\* The directory iterator comes to a path; what cannot be read is left out.
PutVisit(b) ==
  /\ dpc[b] = "put" /\ ~Batched(b)
  /\ \E i \in left[b] :
       LET r == Order[i]
       IN  /\ \A k \in left[b] : i <= k
           /\ IF dir[b][r] = None THEN UNCHANGED <<listing, pending>>
              ELSE /\ listing' = [listing EXCEPT ![b] = Append(@, Line(dir[b][r], r))]
                   /\ pending' = IF dir[b][r].kind = "l" THEN pending
                                 ELSE [pending EXCEPT ![b] = Append(@, Line(dir[b][r], r))]
           /\ left' = [left EXCEPT ![b] = @ \ {i}]
  /\ UNCHANGED <<storeVars, dpc, rc, dir, have, missing, written, ignored, racing>>

\* Upload asks which blobs there are; questions without an answer count as no.
UploadHas(b) ==
  /\ dpc[b] = "put" /\ (Batched(b) \/ left[b] = {})
  /\ \E m \in 0..Len(pending[b]) :
       /\ Served(b, Len(pending[b]), m) /\ Faults(Lost(b, Len(pending[b]), m))
       /\ have' = [have EXCEPT ![b] = {i \in 1..m : BlobKey(pending[b][i].ref) \in DOMAIN cache}]
  /\ dpc' = [dpc EXCEPT ![b] = "upload"]
  /\ UNCHANGED <<cache, rc, dir, listing, left, pending, missing, written, ignored, racing>>

\* The others are read again and put under the hash they had.
UploadPut(b) ==
  /\ dpc[b] = "upload"
  /\ LET key(i) == BlobKey(pending[b][i].ref)
         puts == {i \in DOMAIN pending[b] : i \notin have[b] /\ dir[b][pending[b][i].rel] # None}
         n == Cardinality(puts)
     IN  \E m \in 0..n :
           /\ Served(b, n, m) /\ Faults(Lost(b, n, m))
           /\ cache' = Overlay([k \in {key(i) : i \in First(puts, m)} |->
                         LET same == {i \in First(puts, m) : key(i) = k}
                             last == CHOOSE i \in same : \A j \in same : j <= i
                         IN  Stored(Data(dir[b][pending[b][last].rel]))], cache)
  /\ pending' = [pending EXCEPT ![b] = <<>>]
  /\ have' = [have EXCEPT ![b] = {}]
  /\ dpc' = [dpc EXCEPT ![b] = IF left[b] = {} THEN "listing" ELSE "put"]
  /\ UNCHANGED <<rc, dir, listing, left, missing, written, ignored, racing>>

PutListing(b) ==
  /\ dpc[b] = "listing"
  /\ Put(b, ListingKey, listing[b])
  /\ Close(b)
  /\ listing' = [listing EXCEPT ![b] = <<>>]
  /\ dpc' = [dpc EXCEPT ![b] = "done"]
  /\ UNCHANGED <<faults, rc, dir, left, pending, have, missing, written, ignored, racing>>

\* Something is still at work in the tree.
Scribble(b) ==
  /\ racing /\ dpc[b] \in {"put", "upload"}
  /\ \E r \in Rels, f \in Scribbles : f # dir[b][r] /\ dir' = [dir EXCEPT ![b][r] = f]
  /\ Faults(1)
  /\ UNCHANGED <<cache, up, dpc, rc, listing, left, pending, have, missing, written, ignored, racing>>

DirStep(b) ==
  \/ GetListing(b) \/ RestoreBatch(b) \/ RestoreEnd(b) \/ Build(b) \/ PutVisit(b)
  \/ UploadHas(b) \/ UploadPut(b) \/ PutListing(b) \/ Scribble(b)
  \/ Break(b) /\ UNCHANGED dirVars

DirNext == \E b \in DirBuilds : DirStep(b)

\* The keys of directory trees.
DirKey(k) == k = ListingKey \/ \E h \in Files : k = BlobKey(h)

\* The daemon evicts, or serves the caches of other languages, which have other keys.
Elsewhere ==
  /\ \A k \in DOMAIN cache' : DirKey(k) => k \in DOMAIN cache /\ cache'[k] = cache[k]
  /\ UNCHANGED dirVars

\* The builds that keep directory trees, whatever else happens to the daemon.
DirSpec == cache = <<>> /\ DirInit /\ [][DirNext \/ Elsewhere]_<<storeVars, dirVars>>

----------------------------------------------------------------------------
(* Properties *)

\* What the listing keeps of a file: ParseListing does not know a link with a blank.
Kept(f) == IF f # None /\ f.kind = "l" /\ f.body \in Spaced THEN None ELSE f

\* The file of another build as this one should see it.
Localized(b, f) == IF f = None \/ f.kind = "l" THEN f ELSE Restored(b, f)

\* When get-dir returns 0 the tree has every entry of the listing with its kind and mode,
\* also when blobs are evicted or the tree changed while it was stored; when it returns
\* anything else nothing of the listing is left behind.  The paths where get-dir ignores
\* an error are the only exceptions.
AllOrNothing ==
  \A b \in DirBuilds :
    /\ rc[b] = "warm" =>
         \A i \in ParseListing(listing[b]) :
           LET e == listing[b][i]
           IN  \/ e.rel \in ignored[b]
               \/ dir[b][e.rel] # None /\ dir[b][e.rel].kind = e.kind /\ dir[b][e.rel].mode = e.mode
    /\ rc[b] = "cold" => \A r \in Rels : dir[b][r] = None \/ r \in ignored[b]

\* Build b has at r what f should become.  Where an error was ignored the file is not there,
\* or its mode is not set.
AsStored(b, r, f) ==
  \/ dir[b][r] = f
  \/ r \in ignored[b] /\ (dir[b][r] = None \/ dir[b][r] = [f EXCEPT !.mode = NewMode])

\* A warm tree is the tree of one build, not of several, in terms of the store paths of
\* the build that restored it.  It lacks the links with a blank in their target, and at
\* most the links and modes for which a call failed.
RestoredIsStored ==
  ~racing => \A b \in DirBuilds : rc[b] = "warm" =>
    \E c \in DirBuilds : \A r \in Rels : AsStored(b, r, Localized(b, Kept(Built[c][r])))
=============================================================================
