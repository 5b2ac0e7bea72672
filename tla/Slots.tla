------------------------------- MODULE Slots -------------------------------
(***************************************************************************)
(* Host-wide admission of compiler runs: the daemon's token counter        *)
(* (pkgs/ji/jigd/src/slots.go), the connection goroutine that drives it    *)
(* (serve in main.go) and the client of one connection (class Slot of      *)
(* pkgs/ji/jig/src/process.cc on top of CacheClient).                      *)
(*                                                                         *)
(* A connection carries one request at a time: every client waits for the  *)
(* answer to SLOT and to DONE.  It belongs to one nix build, whose         *)
(* $NIX_BUILD_TOP both lines carry.  A connection number is used again     *)
(* once its goroutine has returned, so the model needs no bound on the     *)
(* length of a run.                                                        *)
(***************************************************************************)
EXTENDS Naturals, Sequences, FiniteSets, SequencesExt

CONSTANTS
  Conns,    \* connections to the daemon
  Builds,   \* nix builds
  BuildOf,  \* the build a connection's client runs in
  Limit,    \* JIGD_SLOTS
  Nobody    \* no goroutine is inside Release

ASSUME SlotsAssumption ==
  /\ IsFiniteSet(Conns)
  /\ BuildOf \in [Conns -> Builds]
  /\ Limit \in Nat \ {0}
  /\ Nobody \notin Conns

VARIABLES
  out,      \* Slots.out
  held,     \* Slots.held, a build that is not in the map has 0
  waiting,  \* Slots.waiting: the connection of each waiter, in queue order
  mu,       \* the goroutine that holds Slots.mu inside Release, or Nobody
  serve,    \* where the connection's goroutine is
  mine,     \* serve's own map `held`, for the connection's build
  line,     \* the request line the goroutine has not read yet
  client    \* where the process at the other end is

slotVars == <<out, held, waiting, mu>>
serveVars == <<serve, mine>>
vars == <<out, held, waiting, mu, serve, mine, line, client>>

\* "none": no goroutine; "read": in readLine; "acquire": blocked on w.ready;
\* "granted": Acquire is about to return; "release": inside Release for a DONE;
\* "closing": returned from the loop, running the deferred releases.
ServeStates == {"none", "read", "acquire", "granted", "release", "closing"}

\* "off": not connected; "idle": connected, asks for nothing; "asking": waits
\* for the answer to SLOT; "running": its compiler runs with a token;
\* "returning": waits for the answer to DONE; "alone": its compiler runs and no
\* daemon knows of it; "dead": the process is gone, the socket is closed.
ClientStates ==
  {"off", "idle", "asking", "running", "returning", "alone", "dead"}

Init ==
  /\ out = 0
  /\ held = [b \in Builds |-> 0]
  /\ waiting = <<>>
  /\ mu = Nobody
  /\ serve = [c \in Conns |-> "none"]
  /\ mine = [c \in Conns |-> 0]
  /\ line = [c \in Conns |-> "none"]
  /\ client = [c \in Conns |-> "off"]

----------------------------------------------------------------------------
(* The client *)

\* CacheClient::Connect, and the daemon's accept loop starting a goroutine.
Connect(c) ==
  /\ client[c] = "off"
  /\ serve[c] = "none"
  /\ client' = [client EXCEPT ![c] = "idle"]
  /\ serve' = [serve EXCEPT ![c] = "read"]
  /\ UNCHANGED <<slotVars, mine, line>>

\* Slot::Slot without a daemon to talk to: the compiler runs all the same.
RunAlone(c) ==
  /\ client[c] = "off"
  /\ client' = [client EXCEPT ![c] = "alone"]
  /\ UNCHANGED <<slotVars, serveVars, line>>

\* AcquireSlot sends SLOT and waits for the answer.
AcquireSlot(c) ==
  /\ client[c] = "idle"
  /\ client' = [client EXCEPT ![c] = "asking"]
  /\ line' = [line EXCEPT ![c] = "SLOT"]
  /\ UNCHANGED <<slotVars, serveVars>>

\* The compiler is done and ~Slot sends DONE.
ReleaseSlot(c) ==
  /\ client[c] = "running"
  /\ client' = [client EXCEPT ![c] = "returning"]
  /\ line' = [line EXCEPT ![c] = "DONE"]
  /\ UNCHANGED <<slotVars, serveVars>>

\* A DONE on a connection that holds no token, which serve answers with OK.
StrayDone(c) ==
  /\ client[c] = "idle"
  /\ client' = [client EXCEPT ![c] = "returning"]
  /\ line' = [line EXCEPT ![c] = "DONE"]
  /\ UNCHANGED <<slotVars, serveVars>>

\* A compiler that runs without a token is done.
FinishAlone(c) ==
  /\ client[c] = "alone"
  /\ client' = [client EXCEPT ![c] = "off"]
  /\ UNCHANGED <<slotVars, serveVars, line>>

\* The process exits or is killed, wherever it is.  What it wrote before stays
\* in the socket.
HangUp(c) ==
  /\ client[c] \in {"idle", "asking", "running", "returning"}
  /\ client' = [client EXCEPT ![c] = "dead"]
  /\ UNCHANGED <<slotVars, serveVars, line>>

----------------------------------------------------------------------------
(* The daemon: Slots *)

\* The fast path of Acquire.
Free == out < Limit /\ waiting = <<>>

\* Acquire: take a token at once or queue up.
Acquire(c) ==
  \/ /\ Free
     /\ out' = out + 1
     /\ held' = [held EXCEPT ![BuildOf[c]] = @ + 1]
     /\ serve' = [serve EXCEPT ![c] = "granted"]
     /\ UNCHANGED waiting
  \/ /\ ~Free
     /\ waiting' = Append(waiting, c)
     /\ serve' = [serve EXCEPT ![c] = "acquire"]
     /\ UNCHANGED <<out, held>>

\* The part of Release before it calls grant; the goroutine keeps the mutex.
Release(c) ==
  /\ out' = out - 1
  /\ held' = [held EXCEPT ![BuildOf[c]] = IF @ <= 1 THEN 0 ELSE @ - 1]
  /\ mu' = c

\* Mutant of IsBest: the build that holds the most tokens goes first.
IsBestMost(i) ==
  /\ i \in DOMAIN waiting
  /\ \A j \in DOMAIN waiting :
       /\ held[BuildOf[waiting[i]]] >= held[BuildOf[waiting[j]]]
       /\ j < i => held[BuildOf[waiting[i]]] > held[BuildOf[waiting[j]]]

\* The waiter grant's inner loop settles on: the first of those whose build
\* holds the fewest tokens.
IsBest(i) ==
  /\ i \in DOMAIN waiting
  /\ \A j \in DOMAIN waiting :
       /\ held[BuildOf[waiting[i]]] <= held[BuildOf[waiting[j]]]
       /\ j < i => held[BuildOf[waiting[i]]] < held[BuildOf[waiting[j]]]

\* Mutants of Grantable: Release does not call grant; grant gives one token too many.
GrantForgotten == FALSE
GrantableOffByOne == out <= Limit /\ waiting # <<>>

\* The condition of grant's outer loop.
Grantable == out < Limit /\ waiting # <<>>

\* One iteration of grant's outer loop.
Grant(c) ==
  /\ mu = c
  /\ Grantable
  /\ \E i \in DOMAIN waiting :
       /\ IsBest(i)
       /\ waiting' = RemoveAt(waiting, i)
       /\ out' = out + 1
       /\ held' = [held EXCEPT ![BuildOf[waiting[i]]] = @ + 1]
       /\ serve' = [serve EXCEPT ![waiting[i]] = "granted"]
  /\ UNCHANGED <<mu, mine, line, client>>

\* grant's loop is over and Release unlocks.  After a DONE, serve answers OK; it
\* finds out there that the client is gone.
Unlock(c) ==
  /\ mu = c
  /\ ~Grantable
  /\ mu' = Nobody
  /\ \/ /\ serve[c] = "release"
        /\ client[c] = "dead"
        /\ serve' = [serve EXCEPT ![c] = "closing"]
        /\ UNCHANGED client
     \/ /\ serve[c] = "release"
        /\ client[c] # "dead"
        /\ serve' = [serve EXCEPT ![c] = "read"]
        /\ client' = [client EXCEPT ![c] = "idle"]
     \/ /\ serve[c] = "closing"
        /\ UNCHANGED <<serve, client>>
  /\ UNCHANGED <<out, held, waiting, mine, line>>

----------------------------------------------------------------------------
(* The daemon: serve *)

\* serve reads a SLOT line and calls Acquire.
ReadSlot(c) ==
  /\ serve[c] = "read"
  /\ line[c] = "SLOT"
  /\ mu = Nobody
  /\ line' = [line EXCEPT ![c] = "none"]
  /\ Acquire(c)
  /\ UNCHANGED <<mu, mine, client>>

\* Acquire returns: serve counts the token and answers OK.  If the client is
\* gone the write fails and the goroutine returns.
Granted(c) ==
  /\ serve[c] = "granted"
  /\ mine' = [mine EXCEPT ![c] = @ + 1]
  /\ \/ /\ client[c] = "dead"
        /\ serve' = [serve EXCEPT ![c] = "closing"]
        /\ UNCHANGED client
     \/ /\ client[c] # "dead"
        /\ serve' = [serve EXCEPT ![c] = "read"]
        /\ client' = [client EXCEPT ![c] = "running"]
  /\ UNCHANGED <<slotVars, line>>

\* serve reads a DONE line and the connection holds a token.
ReadDone(c) ==
  /\ serve[c] = "read"
  /\ line[c] = "DONE"
  /\ mine[c] > 0
  /\ mu = Nobody
  /\ line' = [line EXCEPT ![c] = "none"]
  /\ mine' = [mine EXCEPT ![c] = @ - 1]
  /\ serve' = [serve EXCEPT ![c] = "release"]
  /\ Release(c)
  /\ UNCHANGED <<waiting, client>>

\* serve reads a DONE line and the connection holds none: it only answers.
ReadStrayDone(c) ==
  /\ serve[c] = "read"
  /\ line[c] = "DONE"
  /\ mine[c] = 0
  /\ line' = [line EXCEPT ![c] = "none"]
  /\ \/ /\ client[c] = "dead"
        /\ serve' = [serve EXCEPT ![c] = "closing"]
        /\ UNCHANGED client
     \/ /\ client[c] # "dead"
        /\ client' = [client EXCEPT ![c] = "idle"]
        /\ UNCHANGED serve
  /\ UNCHANGED <<slotVars, mine>>

\* readLine fails: everything the client wrote is read and it has hung up.
ReadEOF(c) ==
  /\ serve[c] = "read"
  /\ line[c] = "none"
  /\ client[c] = "dead"
  /\ serve' = [serve EXCEPT ![c] = "closing"]
  /\ UNCHANGED <<slotVars, mine, line, client>>

\* Mutant of CloseRelease: the deferred loop stops one token early.
CloseReleaseShort(c) ==
  /\ serve[c] = "closing"
  /\ mine[c] > 1
  /\ mu = Nobody
  /\ mine' = [mine EXCEPT ![c] = @ - 1]
  /\ Release(c)
  /\ UNCHANGED <<waiting, serve, line, client>>

\* One iteration of the deferred function: a token of the connection goes back.
CloseRelease(c) ==
  /\ serve[c] = "closing"
  /\ mine[c] > 0
  /\ mu = Nobody
  /\ mine' = [mine EXCEPT ![c] = @ - 1]
  /\ Release(c)
  /\ UNCHANGED <<waiting, serve, line, client>>

\* Mutant of Closed: the deferred function drops the tokens without Release.
ClosedLeaking(c) ==
  /\ serve[c] = "closing"
  /\ mu # c
  /\ mine' = [mine EXCEPT ![c] = 0]
  /\ serve' = [serve EXCEPT ![c] = "none"]
  /\ client' = [client EXCEPT ![c] = "off"]
  /\ UNCHANGED <<slotVars, line>>

\* The goroutine ends and the connection is closed.
Closed(c) ==
  /\ serve[c] = "closing"
  /\ mine[c] = 0
  /\ mu # c
  /\ serve' = [serve EXCEPT ![c] = "none"]
  /\ client' = [client EXCEPT ![c] = "off"]
  /\ UNCHANGED <<slotVars, mine, line>>

\* The daemon stops (SIGTERM, crash) and a new one starts with NewSlots.  Every
\* connection breaks: an AcquireSlot in flight returns false and the client runs
\* its compiler without a token; a compiler that runs keeps running.
Restart ==
  /\ out' = 0
  /\ held' = [b \in Builds |-> 0]
  /\ waiting' = <<>>
  /\ mu' = Nobody
  /\ serve' = [c \in Conns |-> "none"]
  /\ mine' = [c \in Conns |-> 0]
  /\ line' = [c \in Conns |-> "none"]
  /\ client' = [c \in Conns |->
       IF client[c] \in {"asking", "running", "alone"} THEN "alone" ELSE "off"]

ServeStep(c) ==
  \/ ReadSlot(c) \/ Granted(c) \/ ReadDone(c) \/ ReadStrayDone(c)
  \/ ReadEOF(c) \/ CloseRelease(c) \/ Closed(c) \/ Grant(c) \/ Unlock(c)

ClientStep(c) ==
  \/ Connect(c) \/ RunAlone(c) \/ AcquireSlot(c) \/ ReleaseSlot(c)
  \/ StrayDone(c) \/ FinishAlone(c) \/ HangUp(c)

Next == Restart \/ \E c \in Conns : ServeStep(c) \/ ClientStep(c)

Spec == Init /\ [][Next]_vars

\* The Go scheduler runs every goroutine that can run.  A goroutine that wants
\* Slots.mu competes for it with others; sync.Mutex hands it to the oldest
\* waiter after a millisecond, hence strong fairness.  Compilers end.
Fairness ==
  \A c \in Conns : SF_vars(ServeStep(c)) /\ WF_vars(ReleaseSlot(c))

FairSpec == Spec /\ Fairness

----------------------------------------------------------------------------
(* Properties *)

\* The connections that own a token: serve has counted it, or Acquire has
\* taken it for a goroutine that has not woken up yet.
Owners == {c \in Conns : mine[c] > 0 \/ serve[c] = "granted"}

OwnersOf(b) == {c \in Owners : BuildOf[c] = b}

\* Every variable of Slots, serve and the client stays in its type; a counter
\* never goes below zero.
TypeOK ==
  /\ out \in Nat
  /\ held \in [Builds -> Nat]
  /\ waiting \in Seq(Conns)
  /\ mu \in Conns \cup {Nobody}
  /\ serve \in [Conns -> ServeStates]
  /\ mine \in [Conns -> Nat]
  /\ line \in [Conns -> {"none", "SLOT", "DONE"}]
  /\ client \in [Conns -> ClientStates]

\* Slots.out and Slots.held count exactly the tokens that connections own,
\* whatever hang-ups, stray DONEs and deferred releases happened: a token is
\* neither leaked nor returned twice.
TokensAccounted ==
  /\ out = Cardinality(Owners)
  /\ \A b \in Builds : held[b] = Cardinality(OwnersOf(b))

\* The daemon admits at most Limit compilers at a time (slots.go: it "keeps the
\* number of running compilers at `limit`").  Compilers that run without a token
\* are not the daemon's.
RunningAtMostLimit == Cardinality({c \in Conns : client[c] = "running"}) <= Limit

\* A slot is never left idle while somebody waits for one: outside Release,
\* waiters mean that all tokens are out.
NoIdleSlot == mu = Nobody /\ waiting # <<>> => out = Limit

\* A connection waits in the queue exactly once while its goroutine is blocked
\* in Acquire, and never otherwise: no wake-up is lost, none is delivered twice.
QueueSound ==
  /\ \A i \in DOMAIN waiting : serve[waiting[i]] = "acquire"
  /\ \A c \in Conns : serve[c] = "acquire" => \E i \in DOMAIN waiting : waiting[i] = c
  /\ \A i, j \in DOMAIN waiting : waiting[i] = waiting[j] => i = j

\* Client and goroutine agree on where their conversation is.  In particular a
\* compiler that was told OK owns a token until it sends DONE, a connection that
\* waits owns none, and whoever is inside Release has already given its token up.
Conversation ==
  \A c \in Conns :
    /\ mine[c] \in {0, 1}
    /\ line[c] # "none" => serve[c] = "read" /\ client[c] # "running"
    /\ line[c] = "SLOT" => mine[c] = 0
    /\ serve[c] = "none" <=> client[c] \in {"off", "alone"}
    /\ serve[c] \in {"none", "acquire", "granted", "release"} => mine[c] = 0
    /\ serve[c] \in {"acquire", "granted"} => client[c] \in {"asking", "dead"}
    /\ serve[c] = "release" => client[c] \in {"returning", "dead"} /\ mu = c
    /\ serve[c] = "closing" => client[c] = "dead"
    /\ client[c] = "idle" => line[c] = "none" /\ mine[c] = 0 /\ serve[c] = "read"
    /\ client[c] = "asking" => line[c] = "SLOT" \/ serve[c] \in {"acquire", "granted"}
    /\ client[c] = "running" => mine[c] = 1 /\ serve[c] = "read"
    /\ client[c] = "returning" => line[c] = "DONE" \/ serve[c] = "release"
    /\ mu = c => serve[c] \in {"release", "closing"} /\ mine[c] = 0

\* A request that waits is answered in the end, however many other builds keep
\* asking (slots.go: one build's burst "cannot starve another's serial configure
\* probes").
WaiterServed == \A c \in Conns : serve[c] = "acquire" ~> serve[c] # "acquire"

\* The token of a client that was killed comes back.
DeadReclaimed == \A c \in Conns : client[c] = "dead" ~> client[c] # "dead"

\* The daemon with its queue, mutex and protocol is a counting semaphore whose
\* holders are the connections that own a token.
Sem == INSTANCE Semaphore WITH Holders <- Conns, admitted <- Owners

ImplementsSemaphore == Sem!Spec

\* While a build waits, a token never goes to a build that holds more tokens
\* than it does: the order grant promises.
FewestHeldFirst ==
  [][\A c \in Conns :
       serve[c] = "acquire" /\ serve'[c] = "granted" =>
         \A d \in Conns : serve[d] = "acquire" =>
           held[BuildOf[c]] <= held[BuildOf[d]]]_vars
=============================================================================
