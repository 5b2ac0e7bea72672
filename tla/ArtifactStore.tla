--------------------------- MODULE ArtifactStore ---------------------------
(***************************************************************************)
(* jigd as the other caches of jig see it (cache_client.cc): a map from    *)
(* keys to values that forgets what it likes, over connections that break. *)
(* Wire says what happens on the connection, PackStore what in the daemon. *)
(***************************************************************************)
EXTENDS Integers, Sequences, FiniteSets

CONSTANTS Clients, None,
  MaxFaults   \* evictions, lost connections, failed writes, killed compilers

VARIABLES
  cache,   \* the entries, a function on the keys there are
  up,      \* up[c]: the connection of the client is open
  faults

storeVars == <<cache, up, faults>>

Faults(n) == faults + n <= MaxFaults /\ faults' = faults + n
Count(fault) == IF fault THEN 1 ELSE 0

\* Get: a broken connection is a miss.
Get(c, k) == IF up[c] /\ k \in DOMAIN cache THEN cache[k] ELSE None

\* The function f where it is defined, else g.
Overlay(f, g) == [x \in DOMAIN f \cup DOMAIN g |-> IF x \in DOMAIN f THEN f[x] ELSE g[x]]

\* Put: "best effort", on a broken connection nothing.
Put(c, k, v) == cache' = IF up[c] THEN Overlay([x \in {k} |-> v], cache) ELSE cache

\* Of a batch of n the daemon answers, or takes, the first m; with fewer than n the
\* connection is broken.
Served(c, n, m) == m <= n /\ (up[c] \/ m = 0) /\ up' = [up EXCEPT ![c] = @ /\ m = n]
Lost(c, n, m) == Count(up[c] /\ m < n)

Connect(c) == up' = [up EXCEPT ![c] = TRUE]
Close(c) == up' = [up EXCEPT ![c] = FALSE]

Break(c) == up[c] /\ Close(c) /\ Faults(1) /\ UNCHANGED cache

Evict ==
  /\ \E k \in DOMAIN cache : cache' = [x \in DOMAIN cache \ {k} |-> cache[x]]
  /\ Faults(1)
  /\ UNCHANGED up
=============================================================================
