---------------------------- MODULE SlotsProofs ----------------------------
(***************************************************************************)
(* Proofs about Slots, for any number of connections, builds and tokens.   *)
(*                                                                         *)
(* SlotsInv is the inductive invariant.  The token count needs to know who *)
(* owns a token when a step starts (Conversation: whoever releases owns    *)
(* one, whoever is granted one owns none), the queue must hold exactly the *)
(* goroutines blocked in Acquire (QueueSound), and NoIdleSlot needs that   *)
(* out never passes Limit.                                                 *)
(***************************************************************************)
EXTENDS Slots, FiniteSetTheorems, SequenceTheorems, TLAPS

SlotsInv ==
  /\ TypeOK
  /\ TokensAccounted
  /\ out <= Limit
  /\ NoIdleSlot
  /\ QueueSound
  /\ Conversation

----------------------------------------------------------------------------
(* Sequences and counting *)

\* What the queue is after grant has taken out the waiter at i.
LEMMA RemoveAtProperties ==
  ASSUME NEW S, NEW s \in Seq(S), NEW i \in 1 .. Len(s)
  PROVE  /\ RemoveAt(s, i) \in Seq(S)
         /\ Len(RemoveAt(s, i)) = Len(s) - 1
         /\ \A j \in 1 .. Len(s) - 1 :
              RemoveAt(s, i)[j] = IF j < i THEN s[j] ELSE s[j + 1]
<1> DEFINE front == SubSeq(s, 1, i - 1)
           back == SubSeq(s, i + 1, Len(s))
<1>1. /\ Len(s) \in Nat
      /\ \A k \in 1 .. Len(s) : s[k] \in S
  BY ElementOfSeq, LenProperties, Zenon
<1>2. /\ front \in Seq(S)
      /\ Len(front) = i - 1
      /\ \A j \in 1 .. i - 1 : front[j] = s[j]
  <2>1. \A k \in 1 .. i - 1 : s[k] \in S
    BY <1>1
  <2> QED
    BY <1>1, <2>1, SubSeqProperties
<1>3. /\ back \in Seq(S)
      /\ Len(back) = Len(s) - i
      /\ \A j \in 1 .. Len(s) - i : back[j] = s[i + j]
  <2>1. \A k \in i + 1 .. Len(s) : s[k] \in S
    BY <1>1
  <2>2. /\ back \in Seq(S)
        /\ Len(back) = IF i + 1 <= Len(s) THEN Len(s) - (i + 1) + 1 ELSE 0
        /\ \A j \in 1 .. Len(s) - (i + 1) + 1 : back[j] = s[(i + 1) + j - 1]
    BY <1>1, <2>1, SubSeqProperties
  <2> QED
    BY <1>1, <2>2
<1> HIDE DEF front, back
<1>4. /\ front \o back \in Seq(S)
      /\ Len(front \o back) = Len(front) + Len(back)
      /\ \A j \in 1 .. Len(front) + Len(back) :
           (front \o back)[j] = IF j <= Len(front) THEN front[j] ELSE back[j - Len(front)]
  BY <1>2, <1>3, ConcatProperties, Zenon
<1>5. ASSUME NEW j \in 1 .. Len(s) - 1
      PROVE  (front \o back)[j] = IF j < i THEN s[j] ELSE s[j + 1]
  <2>1. CASE j < i
    <3>1. j \in 1 .. i - 1 /\ j <= Len(front) /\ j \in 1 .. Len(front) + Len(back)
      BY <1>1, <1>2, <1>3, <2>1
    <3> QED
      BY <3>1, <1>2, <1>4, <2>1, Zenon
  <2>2. CASE ~(j < i)
    <3>1. /\ j - (i - 1) \in 1 .. Len(s) - i
          /\ i + (j - (i - 1)) = j + 1
          /\ ~(j <= Len(front))
          /\ j \in 1 .. Len(front) + Len(back)
      BY <1>1, <1>2, <1>3, <2>2
    <3>2. (front \o back)[j] = back[j - Len(front)]
      BY <3>1, <1>4, Zenon
    <3> QED
      BY <3>1, <3>2, <1>2, <1>3, <2>2, Zenon
  <2> QED
    BY <2>1, <2>2, Zenon
<1>6. RemoveAt(s, i) = front \o back
  BY Zenon DEF RemoveAt, front, back
<1>7. Len(front) + Len(back) = Len(s) - 1
  BY <1>1, <1>2, <1>3
<1> QED
  BY <1>4, <1>5, <1>6, <1>7, Zenon

\* Owners and the owners of one build are finite sets of connections.
LEMMA OwnersFinite ==
  /\ IsFiniteSet(Owners)
  /\ Cardinality(Owners) \in Nat
  /\ \A b \in Builds : IsFiniteSet(OwnersOf(b)) /\ Cardinality(OwnersOf(b)) \in Nat
<1>1. Owners \subseteq Conns /\ \A b \in Builds : OwnersOf(b) \subseteq Conns
  BY Zenon DEF Owners, OwnersOf
<1> QED
  BY <1>1, FS_Subset, FS_CardinalityType, SlotsAssumption, Zenon

\* Taking a token keeps out and held counters.
LEMMA CountedUp ==
  ASSUME NEW n \in Nat, NEW f \in [Builds -> Nat], NEW b \in Builds
  PROVE  n + 1 \in Nat /\ [f EXCEPT ![b] = @ + 1] \in [Builds -> Nat]
  OBVIOUS

\* Release's clamped decrement keeps held a counter.
LEMMA CountedDown ==
  ASSUME NEW f \in [Builds -> Nat], NEW b \in Builds
  PROVE  [f EXCEPT ![b] = IF @ <= 1 THEN 0 ELSE @ - 1] \in [Builds -> Nat]
<1> DEFINE less == IF f[b] <= 1 THEN 0 ELSE f[b] - 1
<1>1. f[b] \in Nat
  BY Zenon
<1>2. less \in Nat
  BY <1>1
<1> HIDE DEF less
<1>3. [f EXCEPT ![b] = less] \in [Builds -> Nat]
  BY <1>2, Zenon
<1> QED
  BY <1>3, Zenon DEF less

\* A step that hands a token to c: the counters go up by one for c's build.
LEMMA TokenTaken ==
  ASSUME TypeOK, TokensAccounted, NEW c \in Conns,
         c \notin Owners, Owners' = Owners \cup {c},
         out' = out + 1, held' = [held EXCEPT ![BuildOf[c]] = @ + 1]
  PROVE  TokensAccounted'
<1>1. out' = Cardinality(Owners')
  BY OwnersFinite, FS_AddElement, Zenon DEF TokensAccounted, TypeOK
<1>2. ASSUME NEW b \in Builds
      PROVE  held'[b] = Cardinality(OwnersOf(b)')
  <2>1. CASE b = BuildOf[c]
    <3>1. OwnersOf(b)' = OwnersOf(b) \cup {c} /\ c \notin OwnersOf(b)
      BY <2>1, Zenon DEF OwnersOf
    <3>2. Cardinality(OwnersOf(b)') = Cardinality(OwnersOf(b)) + 1
      BY <3>1, OwnersFinite, FS_AddElement, Zenon
    <3> QED
      BY <3>2, <2>1, OwnersFinite, SlotsAssumption, Zenon DEF TokensAccounted, TypeOK
  <2>2. CASE b # BuildOf[c]
    <3>1. OwnersOf(b)' = OwnersOf(b)
      BY <2>2, Zenon DEF OwnersOf
    <3> QED
      BY <3>1, <2>2, Zenon DEF TokensAccounted, TypeOK
  <2> QED
    BY <2>1, <2>2, Zenon
<1> QED
  BY <1>1, <1>2, Zenon DEF TokensAccounted

\* A step that takes the token of c back: the counters go down by one for c's
\* build, and Release's clamp at zero is not needed.
LEMMA TokenReturned ==
  ASSUME TypeOK, TokensAccounted, NEW c \in Conns,
         c \in Owners, Owners' = Owners \ {c}, Release(c)
  PROVE  TokensAccounted' /\ out' \in Nat /\ out' <= out
<1>1. /\ Cardinality(Owners') = Cardinality(Owners) - 1
      /\ Cardinality(Owners) - 1 \in Nat
  <2>1. IsFiniteSet(Owners') /\ Cardinality(Owners') \in Nat
    BY OwnersFinite, FS_RemoveElement, FS_CardinalityType, Zenon
  <2>2. Cardinality(Owners') = Cardinality(Owners) - 1
    BY OwnersFinite, FS_RemoveElement, Zenon
  <2> QED
    BY <2>1, <2>2, Zenon
<1>2. out' = Cardinality(Owners') /\ out' \in Nat /\ out' <= out
  BY <1>1, OwnersFinite DEF TokensAccounted, TypeOK, Release
<1>3. ASSUME NEW b \in Builds
      PROVE  held'[b] = Cardinality(OwnersOf(b)')
  <2>1. CASE b = BuildOf[c]
    <3>1. OwnersOf(b)' = OwnersOf(b) \ {c} /\ c \in OwnersOf(b)
      BY <2>1, Zenon DEF OwnersOf
    <3>2. Cardinality(OwnersOf(b)') = Cardinality(OwnersOf(b)) - 1
      BY <3>1, OwnersFinite, FS_RemoveElement, Zenon
    <3>3. Cardinality(OwnersOf(b)') \in Nat
      BY <3>1, OwnersFinite, FS_RemoveElement, FS_CardinalityType, Zenon
    <3>4. held[b] = Cardinality(OwnersOf(b)) /\ held[b] \in Nat
      BY Zenon DEF TokensAccounted, TypeOK
    <3>5. held'[b] = IF held[b] <= 1 THEN 0 ELSE held[b] - 1
      BY <2>1, Zenon DEF Release, TypeOK
    <3> QED
      BY <3>2, <3>3, <3>4, <3>5
  <2>2. CASE b # BuildOf[c]
    <3>1. OwnersOf(b)' = OwnersOf(b)
      BY <2>2, Zenon DEF OwnersOf
    <3> QED
      BY <3>1, <2>2, Zenon DEF TokensAccounted, TypeOK, Release
  <2> QED
    BY <2>1, <2>2, Zenon
<1> QED
  BY <1>2, <1>3, Zenon DEF TokensAccounted

----------------------------------------------------------------------------
(* The invariant holds initially and is preserved by every action *)

\* NewSlots without connections satisfies the invariant.
LEMMA InitInv == Init => SlotsInv
<1> SUFFICES ASSUME Init PROVE SlotsInv
  BY Zenon
<1> USE SlotsAssumption DEF Init
<1>1. TypeOK
  BY DEF TypeOK, ServeStates, ClientStates
<1>2. TokensAccounted
  <2>1. Owners = {} /\ \A b \in Builds : OwnersOf(b) = {}
    BY DEF Owners, OwnersOf
  <2> QED
    BY <2>1, FS_EmptySet, Zenon DEF TokensAccounted
<1>3. out <= Limit /\ NoIdleSlot
  BY DEF NoIdleSlot
<1>4. QueueSound
  BY DEF QueueSound
<1>5. Conversation
  BY Zenon DEF Conversation
<1> QED
  BY <1>1, <1>2, <1>3, <1>4, <1>5, Zenon DEF SlotsInv

\* Steps that leave the daemon's counters, queue and mutex alone and change
\* nobody's ownership.
LEMMA TokensUntouched ==
  ASSUME TokensAccounted, Owners' = Owners, UNCHANGED <<out, held>>
  PROVE  TokensAccounted'
<1>1. \A b \in Builds : OwnersOf(b)' = OwnersOf(b)
  BY Zenon DEF OwnersOf
<1> QED
  BY <1>1, Zenon DEF TokensAccounted

\* What a client does on its own touches no token.
LEMMA ClientStepInv ==
  ASSUME SlotsInv, NEW c \in Conns, ClientStep(c)
  PROVE  SlotsInv'
<1> USE DEF SlotsInv, slotVars, serveVars
<1>1. CASE Connect(c)
  <2>1. Owners' = Owners
    BY <1>1, Zenon DEF Owners, Connect, TypeOK
  <2>2. TokensAccounted'
    BY <1>1, <2>1, TokensUntouched, Zenon DEF Connect
  <2>3. TypeOK' /\ (out <= Limit)' /\ NoIdleSlot'
    BY <1>1, Zenon DEF Connect, TypeOK, NoIdleSlot, ServeStates, ClientStates
  <2>4. QueueSound'
    BY <1>1 DEF Connect, TypeOK, QueueSound
  <2>5. Conversation'
    BY <1>1 DEF Connect, TypeOK, Conversation
  <2> QED
    BY <2>2, <2>3, <2>4, <2>5, Zenon
<1>2. ASSUME RunAlone(c) \/ AcquireSlot(c) \/ ReleaseSlot(c) \/ StrayDone(c)
              \/ FinishAlone(c) \/ HangUp(c)
      PROVE  SlotsInv'
  <2>1. UNCHANGED <<slotVars, serveVars>>
    BY <1>2, Zenon DEF RunAlone, AcquireSlot, ReleaseSlot, StrayDone, FinishAlone, HangUp
  <2>2. TokensAccounted'
    BY <2>1, TokensUntouched, Zenon DEF Owners
  <2>3. (out <= Limit)' /\ NoIdleSlot' /\ QueueSound'
    BY <2>1, Zenon DEF NoIdleSlot, QueueSound
  <2>4. TypeOK'
    BY <1>2, <2>1, Zenon DEF TypeOK, ClientStates, RunAlone, AcquireSlot, ReleaseSlot,
                             StrayDone, FinishAlone, HangUp
  <2>5. Conversation'
    <3>1. CASE RunAlone(c)
      BY <3>1 DEF RunAlone, TypeOK, Conversation
    <3>2. CASE AcquireSlot(c)
      BY <3>2 DEF AcquireSlot, TypeOK, Conversation
    <3>3. CASE ReleaseSlot(c)
      BY <3>3 DEF ReleaseSlot, TypeOK, Conversation
    <3>4. CASE StrayDone(c)
      BY <3>4 DEF StrayDone, TypeOK, Conversation
    <3>5. CASE FinishAlone(c)
      BY <3>5 DEF FinishAlone, TypeOK, Conversation
    <3>6. CASE HangUp(c)
      BY <3>6 DEF HangUp, TypeOK, Conversation
    <3> QED
      BY <1>2, <3>1, <3>2, <3>3, <3>4, <3>5, <3>6, Zenon
  <2> QED
    BY <2>2, <2>3, <2>4, <2>5, Zenon
<1> QED
  BY <1>1, <1>2, Zenon DEF ClientStep

\* The goroutine reads SLOT and either takes a token or joins the queue.
LEMMA ReadSlotInv ==
  ASSUME SlotsInv, NEW c \in Conns, ReadSlot(c)
  PROVE  SlotsInv'
<1> USE DEF SlotsInv
<1>1. CASE Free /\ serve' = [serve EXCEPT ![c] = "granted"]
  <2>1. /\ out' = out + 1
        /\ held' = [held EXCEPT ![BuildOf[c]] = @ + 1]
        /\ UNCHANGED <<waiting, mu, mine, client>>
        /\ line' = [line EXCEPT ![c] = "none"]
        /\ serve[c] = "read" /\ line[c] = "SLOT"
    BY <1>1, Zenon DEF ReadSlot, Acquire, TypeOK
  <2>2. c \notin Owners /\ Owners' = Owners \cup {c}
    BY <1>1, <2>1 DEF ReadSlot, Owners, TypeOK, Conversation
  <2>3. TokensAccounted'
    BY <2>1, <2>2, TokenTaken, Zenon
  <2>4. TypeOK'
    <3>1. out' \in Nat /\ held' \in [Builds -> Nat]
      <4>1. BuildOf[c] \in Builds /\ out \in Nat /\ held \in [Builds -> Nat]
        BY SlotsAssumption, Zenon DEF TypeOK
      <4> QED
        BY <2>1, <4>1, CountedUp, Zenon
    <3> QED
      BY <1>1, <2>1, <3>1, Zenon DEF TypeOK, ServeStates
  <2>5. (out <= Limit)' /\ NoIdleSlot'
    BY <1>1, <2>1, SlotsAssumption DEF Free, NoIdleSlot, TypeOK
  <2>6. QueueSound'
    BY <1>1, <2>1 DEF ReadSlot, QueueSound, TypeOK, Free
  <2>7. Conversation'
    <3> SUFFICES ASSUME NEW d \in Conns PROVE Conversation!(d)'
      BY Zenon DEF Conversation
    <3>0. client[c] \in {"asking", "dead"} /\ mine[c] = 0 /\ mu # c
      BY <2>1, Zenon DEF Conversation, TypeOK, ClientStates
    <3>1. CASE d = c
      BY <3>0, <3>1, <1>1, <2>1 DEF Conversation, TypeOK
    <3>2. CASE d # c
      BY <3>2, <1>1, <2>1, Zenon DEF Conversation, TypeOK
    <3> QED
      BY <3>1, <3>2, Zenon
  <2> QED
    BY <2>3, <2>4, <2>5, <2>6, <2>7, Zenon
<1>2. CASE ~Free /\ serve' = [serve EXCEPT ![c] = "acquire"]
  <2>1. /\ waiting' = Append(waiting, c)
        /\ UNCHANGED <<out, held, mu, mine, client>>
        /\ line' = [line EXCEPT ![c] = "none"]
        /\ serve[c] = "read" /\ line[c] = "SLOT"
    BY <1>2, Zenon DEF ReadSlot, Acquire, TypeOK
  <2>2. Owners' = Owners
    BY <1>2, <2>1, Zenon DEF ReadSlot, Owners, TypeOK
  <2>3. TokensAccounted'
    BY <2>1, <2>2, TokensUntouched, Zenon
  <2>4. TypeOK'
    BY <1>2, <2>1 DEF ReadSlot, TypeOK, ServeStates
  <2>5. (out <= Limit)' /\ NoIdleSlot'
    BY <1>2, <2>1, SlotsAssumption DEF ReadSlot, Free, NoIdleSlot, TypeOK
  <2>6. QueueSound'
    <3>1. /\ Len(waiting) \in Nat
          /\ DOMAIN waiting = 1 .. Len(waiting)
          /\ DOMAIN waiting' = 1 .. Len(waiting) + 1
          /\ \A i \in 1 .. Len(waiting) : waiting'[i] = waiting[i]
          /\ waiting'[Len(waiting) + 1] = c
      BY <2>1 DEF TypeOK
    <3>2. \A i \in 1 .. Len(waiting) : waiting[i] # c
      BY <3>1, Zenon DEF ReadSlot, QueueSound
    <3>3. \A i \in DOMAIN waiting' : serve'[waiting'[i]] = "acquire"
      <4> TAKE i \in DOMAIN waiting'
      <4>1. CASE i = Len(waiting) + 1
        BY <4>1, <1>2, <3>1, Zenon DEF TypeOK
      <4>2. CASE i # Len(waiting) + 1
        <5>1. i \in 1 .. Len(waiting)
          BY <3>1, <4>2
        <5> QED
          BY <5>1, <1>2, <3>1, <3>2 DEF QueueSound, TypeOK
      <4> QED
        BY <4>1, <4>2, Zenon
    <3>4. \A d \in Conns : serve'[d] = "acquire" => \E i \in DOMAIN waiting' : waiting'[i] = d
      <4> TAKE d \in Conns
      <4>1. CASE d = c
        BY <4>1, <3>1
      <4>2. CASE d # c
        BY <4>2, <1>2, <3>1 DEF QueueSound, TypeOK
      <4> QED
        BY <4>1, <4>2, Zenon
    <3>5. \A i, j \in DOMAIN waiting' : waiting'[i] = waiting'[j] => i = j
      BY <3>1, <3>2 DEF QueueSound
    <3> QED
      BY <3>3, <3>4, <3>5, Zenon DEF QueueSound
  <2>7. Conversation'
    <3> SUFFICES ASSUME NEW d \in Conns PROVE Conversation!(d)'
      BY Zenon DEF Conversation
    <3>0. client[c] \in {"asking", "dead"} /\ mine[c] = 0 /\ mu # c
      BY <2>1, Zenon DEF Conversation, TypeOK, ClientStates
    <3>1. CASE d = c
      BY <3>0, <3>1, <1>2, <2>1, Zenon DEF Conversation, TypeOK
    <3>2. CASE d # c
      BY <3>2, <1>2, <2>1, Zenon DEF Conversation, TypeOK
    <3> QED
      BY <3>1, <3>2, Zenon
  <2> QED
    BY <2>3, <2>4, <2>5, <2>6, <2>7, Zenon
<1> QED
  BY <1>1, <1>2, Zenon DEF ReadSlot, Acquire

\* grant hands a token to the waiter it picked.
LEMMA GrantInv ==
  ASSUME SlotsInv, NEW c \in Conns, Grant(c)
  PROVE  SlotsInv'
<1> USE DEF SlotsInv
<1>1. PICK i \in DOMAIN waiting :
        /\ waiting' = RemoveAt(waiting, i)
        /\ out' = out + 1
        /\ held' = [held EXCEPT ![BuildOf[waiting[i]]] = @ + 1]
        /\ serve' = [serve EXCEPT ![waiting[i]] = "granted"]
  BY Zenon DEF Grant
<1> DEFINE w == waiting[i]
           n == Len(waiting)
<1>2. /\ n \in Nat
      /\ DOMAIN waiting = 1 .. n
      /\ i \in 1 .. n
      /\ w \in Conns
      /\ serve[w] = "acquire"
  BY DEF TypeOK, QueueSound
<1>3. UNCHANGED <<mu, mine, line, client>> /\ mu = c /\ out < Limit
  BY Zenon DEF Grant, Grantable
<1>4. w \notin Owners /\ Owners' = Owners \cup {w}
  BY <1>1, <1>2, <1>3 DEF Owners, TypeOK, Conversation
<1>5. TokensAccounted'
  BY <1>1, <1>2, <1>4, TokenTaken, Zenon
<1>6. /\ waiting' \in Seq(Conns)
      /\ Len(waiting') = n - 1
      /\ \A j \in 1 .. n - 1 : waiting'[j] = IF j < i THEN waiting[j] ELSE waiting[j + 1]
  BY <1>1, <1>2, RemoveAtProperties, Zenon DEF TypeOK
<1>7. TypeOK'
  <2>1. out' \in Nat /\ held' \in [Builds -> Nat]
    <3>1. BuildOf[w] \in Builds /\ out \in Nat /\ held \in [Builds -> Nat]
      BY <1>2, SlotsAssumption, Zenon DEF TypeOK
    <3> QED
      BY <1>1, <3>1, CountedUp, Zenon
  <2>2. serve' \in [Conns -> ServeStates]
    BY <1>1, <1>2, Zenon DEF TypeOK, ServeStates
  <2> QED
    BY <1>3, <1>6, <2>1, <2>2, Zenon DEF TypeOK
<1>8. (out <= Limit)' /\ NoIdleSlot'
  BY <1>1, <1>3, SlotsAssumption DEF NoIdleSlot, TypeOK
<1>9. QueueSound'
  <2>1. DOMAIN waiting' = 1 .. n - 1
    BY <1>6
  <2>2. \A j \in 1 .. n - 1 : waiting'[j] # w
    BY <1>2, <1>6 DEF QueueSound
  <2>3. \A j \in DOMAIN waiting' : serve'[waiting'[j]] = "acquire"
    <3> TAKE j \in DOMAIN waiting'
    <3>1. waiting'[j] \in Conns /\ waiting'[j] # w
      BY <1>6, <2>1, <2>2
    <3>2. serve[waiting'[j]] = "acquire"
      BY <1>2, <1>6, <2>1 DEF QueueSound
    <3> QED
      BY <1>1, <3>1, <3>2, Zenon DEF TypeOK
  <2>4. ASSUME NEW d \in Conns, serve'[d] = "acquire"
        PROVE  \E j \in DOMAIN waiting' : waiting'[j] = d
    <3>1. d # w /\ serve[d] = "acquire"
      BY <1>1, <1>2, <2>4, Zenon DEF TypeOK
    <3>2. PICK k \in 1 .. n : waiting[k] = d
      BY <1>2, <3>1, Zenon DEF QueueSound
    <3>3. CASE k < i
      BY <1>2, <1>6, <2>1, <3>2, <3>3
    <3>4. CASE k > i
      <4>1. k - 1 \in 1 .. n - 1 /\ ~(k - 1 < i) /\ (k - 1) + 1 = k
        BY <1>2, <3>4
      <4> QED
        BY <4>1, <1>6, <2>1, <3>2, Zenon
    <3> QED
      BY <1>2, <3>1, <3>2, <3>3, <3>4
  <2>5. ASSUME NEW j \in DOMAIN waiting', NEW k \in DOMAIN waiting', waiting'[j] = waiting'[k]
        PROVE  j = k
    <3> DEFINE At(x) == IF x < i THEN x ELSE x + 1
    <3>1. j \in 1 .. n - 1 /\ k \in 1 .. n - 1
      BY <2>1, Zenon
    <3>2. At(j) \in DOMAIN waiting /\ At(k) \in DOMAIN waiting
      BY <1>2, <3>1
    <3>3. waiting'[j] = waiting[At(j)] /\ waiting'[k] = waiting[At(k)]
      BY <1>6, <3>1, Zenon
    <3>4. At(j) = At(k)
      <4> HIDE DEF At
      <4> QED
        BY <1>2, <2>5, <3>2, <3>3, Zenon DEF QueueSound
    <3> QED
      BY <1>2, <3>1, <3>4
  <2> QED
    BY <2>3, <2>4, <2>5, Zenon DEF QueueSound
<1>10. Conversation'
  BY <1>1, <1>2, <1>3 DEF Conversation, TypeOK
<1> QED
  BY <1>5, <1>7, <1>8, <1>9, <1>10, Zenon

\* A token goes back: serve reads DONE, or the deferred function runs.
LEMMA ReleaseInv ==
  ASSUME SlotsInv, NEW c \in Conns, ReadDone(c) \/ CloseRelease(c)
  PROVE  SlotsInv'
<1> USE DEF SlotsInv
<1>1. /\ mine[c] = 1 /\ mine' = [mine EXCEPT ![c] = 0]
      /\ Release(c) /\ mu = Nobody /\ UNCHANGED <<waiting, client>>
  <2>1. /\ mine[c] > 0 /\ mine' = [mine EXCEPT ![c] = @ - 1]
        /\ Release(c) /\ mu = Nobody /\ UNCHANGED <<waiting, client>>
    BY Zenon DEF ReadDone, CloseRelease
  <2>2. mine[c] = 1
    BY <2>1 DEF Conversation
  <2> QED
    BY <2>1, <2>2 DEF TypeOK
<1>2. \/ /\ serve[c] = "read" /\ line[c] = "DONE"
         /\ serve' = [serve EXCEPT ![c] = "release"]
         /\ line' = [line EXCEPT ![c] = "none"]
      \/ serve[c] = "closing" /\ UNCHANGED <<serve, line>>
  BY Zenon DEF ReadDone, CloseRelease
<1>3. c \in Owners /\ Owners' = Owners \ {c}
  BY <1>1, <1>2 DEF Owners, TypeOK
<1>4. TokensAccounted' /\ out' \in Nat /\ out' <= out
  BY <1>1, <1>3, TokenReturned, Zenon
<1>5. TypeOK'
  <2>1. held' \in [Builds -> Nat]
    BY <1>1, CountedDown, SlotsAssumption, Zenon DEF Release, TypeOK
  <2>2. mu' \in Conns \cup {Nobody} /\ mine' \in [Conns -> Nat]
    BY <1>1, Zenon DEF Release, TypeOK
  <2>3. serve' \in [Conns -> ServeStates] /\ line' \in [Conns -> {"none", "SLOT", "DONE"}]
    BY <1>2, Zenon DEF TypeOK, ServeStates
  <2> QED
    BY <1>1, <1>4, <2>1, <2>2, <2>3, Zenon DEF TypeOK
<1>6. (out <= Limit)' /\ NoIdleSlot'
  <2>1. (out <= Limit)'
    BY <1>4, SlotsAssumption DEF TypeOK
  <2>2. mu' = c /\ c # Nobody
    BY <1>1, SlotsAssumption, Zenon DEF Release
  <2> QED
    BY <2>1, <2>2, Zenon DEF NoIdleSlot
<1>7. QueueSound'
  <2>1. \A d \in Conns : serve'[d] = "acquire" <=> serve[d] = "acquire"
    BY <1>2, Zenon DEF TypeOK
  <2>2. \A i \in DOMAIN waiting : waiting[i] \in Conns
    BY DEF TypeOK
  <2> QED
    BY <1>1, <2>1, <2>2, Zenon DEF QueueSound
<1>8. Conversation'
  <2> SUFFICES ASSUME NEW d \in Conns PROVE Conversation!(d)'
    BY Zenon DEF Conversation
  <2>1. mu' = c
    BY <1>1, Zenon DEF Release
  <2>2. CASE d = c
    <3>1. client[c] \in {"returning", "dead"} /\ (serve[c] = "closing" => client[c] = "dead" /\ line[c] = "none")
      BY <1>1, <1>2 DEF Conversation, TypeOK, ClientStates
    <3> QED
      BY <1>1, <1>2, <2>1, <2>2, <3>1, Zenon DEF Conversation, TypeOK
  <2>3. CASE d # c
    <3>1. serve[d] # "release"
      BY <1>1, SlotsAssumption, Zenon DEF Conversation
    <3> QED
      BY <1>1, <1>2, <2>1, <2>3, <3>1 DEF Conversation, TypeOK
  <2> QED
    BY <2>2, <2>3, Zenon
<1> QED
  BY <1>4, <1>5, <1>6, <1>7, <1>8, Zenon

\* Release unlocks and, after a DONE, serve answers.
LEMMA UnlockInv ==
  ASSUME SlotsInv, NEW c \in Conns, Unlock(c)
  PROVE  SlotsInv'
<1> USE DEF SlotsInv
<1>1. /\ mu = c /\ ~Grantable /\ mu' = Nobody
      /\ UNCHANGED <<out, held, waiting, mine, line>>
  BY Zenon DEF Unlock
<1>2. \/ /\ serve[c] = "release" /\ client[c] = "dead"
         /\ serve' = [serve EXCEPT ![c] = "closing"] /\ UNCHANGED client
      \/ /\ serve[c] = "release" /\ client[c] = "returning"
         /\ serve' = [serve EXCEPT ![c] = "read"]
         /\ client' = [client EXCEPT ![c] = "idle"]
      \/ serve[c] = "closing" /\ UNCHANGED <<serve, client>>
  BY Zenon DEF Unlock, Conversation
<1>3. Owners' = Owners
  BY <1>1, <1>2, Zenon DEF Owners, TypeOK
<1>4. TokensAccounted'
  BY <1>1, <1>3, TokensUntouched, Zenon
<1>5. TypeOK'
  <2>1. serve' \in [Conns -> ServeStates] /\ client' \in [Conns -> ClientStates]
    BY <1>2, Zenon DEF TypeOK, ServeStates, ClientStates
  <2> QED
    BY <1>1, <2>1, Zenon DEF TypeOK
<1>6. (out <= Limit)' /\ NoIdleSlot'
  BY <1>1, SlotsAssumption DEF NoIdleSlot, Grantable, TypeOK
<1>7. QueueSound'
  <2>1. \A d \in Conns : serve'[d] = "acquire" <=> serve[d] = "acquire"
    BY <1>2, Zenon DEF TypeOK
  <2>2. \A i \in DOMAIN waiting : waiting[i] \in Conns
    BY DEF TypeOK
  <2> QED
    BY <1>1, <2>1, <2>2, Zenon DEF QueueSound
<1>8. Conversation'
  <2> SUFFICES ASSUME NEW d \in Conns PROVE Conversation!(d)'
    BY Zenon DEF Conversation
  <2>1. mu' # d
    BY <1>1, SlotsAssumption, Zenon
  <2>2. CASE d = c
    <3>1. mine[c] = 0 /\ line[c] = "none"
      BY <1>1, Zenon DEF Conversation, TypeOK
    <3> QED
      BY <1>1, <1>2, <2>1, <2>2, <3>1 DEF Conversation, TypeOK
  <2>3. CASE d # c
    <3>1. serve[d] # "release"
      BY <1>1, <2>3, Zenon DEF Conversation
    <3> QED
      BY <1>1, <1>2, <2>1, <2>3, <3>1 DEF Conversation, TypeOK
  <2> QED
    BY <2>2, <2>3, Zenon
<1> QED
  BY <1>4, <1>5, <1>6, <1>7, <1>8, Zenon

\* Acquire returns and serve counts the token it was given.
LEMMA GrantedInv ==
  ASSUME SlotsInv, NEW c \in Conns, Granted(c)
  PROVE  SlotsInv'
<1> USE DEF SlotsInv, slotVars
<1>1. /\ serve[c] = "granted" /\ mine[c] = 0 /\ mine' = [mine EXCEPT ![c] = 1]
      /\ UNCHANGED <<out, held, waiting, mu, line>>
  <2>1. mine[c] = 0
    BY Zenon DEF Granted, Conversation
  <2>2. serve[c] = "granted" /\ mine' = [mine EXCEPT ![c] = @ + 1]
        /\ UNCHANGED <<out, held, waiting, mu, line>>
    BY Zenon DEF Granted
  <2> QED
    BY <2>1, <2>2
<1>2. \/ /\ client[c] = "dead" /\ UNCHANGED client
         /\ serve' = [serve EXCEPT ![c] = "closing"]
      \/ /\ client[c] = "asking"
         /\ serve' = [serve EXCEPT ![c] = "read"]
         /\ client' = [client EXCEPT ![c] = "running"]
  BY Zenon DEF Granted, Conversation
<1>3. Owners' = Owners
  BY <1>1, <1>2 DEF Owners, TypeOK
<1>4. TokensAccounted'
  BY <1>1, <1>3, TokensUntouched, Zenon
<1>5. TypeOK'
  <2>1. serve' \in [Conns -> ServeStates] /\ client' \in [Conns -> ClientStates]
    BY <1>2, Zenon DEF TypeOK, ServeStates, ClientStates
  <2> QED
    BY <1>1, <2>1, Zenon DEF TypeOK
<1>6. (out <= Limit)' /\ NoIdleSlot'
  BY <1>1, Zenon DEF NoIdleSlot
<1>7. QueueSound'
  <2>1. \A d \in Conns : serve'[d] = "acquire" <=> serve[d] = "acquire"
    BY <1>1, <1>2, Zenon DEF TypeOK
  <2>2. \A i \in DOMAIN waiting : waiting[i] \in Conns
    BY DEF TypeOK
  <2> QED
    BY <1>1, <2>1, <2>2, Zenon DEF QueueSound
<1>8. Conversation'
  <2> SUFFICES ASSUME NEW d \in Conns PROVE Conversation!(d)'
    BY Zenon DEF Conversation
  <2>1. CASE d = c
    <3>1. line[c] = "none" /\ mu # c
      BY <1>1, Zenon DEF Conversation, TypeOK
    <3> QED
      BY <1>1, <1>2, <2>1, <3>1, Zenon DEF Conversation, TypeOK
  <2>2. CASE d # c
    BY <1>1, <1>2, <2>2 DEF Conversation, TypeOK
  <2> QED
    BY <2>1, <2>2, Zenon
<1> QED
  BY <1>4, <1>5, <1>6, <1>7, <1>8, Zenon

\* serve answers a stray DONE, sees the end of the stream, or returns.
LEMMA QuietServeInv ==
  ASSUME SlotsInv, NEW c \in Conns, ReadStrayDone(c) \/ ReadEOF(c) \/ Closed(c)
  PROVE  SlotsInv' /\ Owners' = Owners
<1> USE DEF SlotsInv, slotVars
<1>1. UNCHANGED <<out, held, waiting, mu, mine>> /\ serve[c] \in {"read", "closing"}
  BY Zenon DEF ReadStrayDone, ReadEOF, Closed
<1>2. /\ serve' \in [Conns -> ServeStates] /\ client' \in [Conns -> ClientStates]
      /\ line' \in [Conns -> {"none", "SLOT", "DONE"}]
  BY Zenon DEF ReadStrayDone, ReadEOF, Closed, TypeOK, ServeStates, ClientStates
<1>3. /\ serve'[c] \in {"none", "read", "closing"}
      /\ \A d \in Conns \ {c} : serve'[d] = serve[d]
  BY Zenon DEF ReadStrayDone, ReadEOF, Closed, TypeOK
<1>4. Owners' = Owners
  BY <1>1, <1>3, Zenon DEF Owners
<1>5. TokensAccounted'
  BY <1>1, <1>4, TokensUntouched, Zenon
<1>6. TypeOK' /\ (out <= Limit)' /\ NoIdleSlot'
  BY <1>1, <1>2, Zenon DEF TypeOK, NoIdleSlot
<1>7. QueueSound'
  <2>1. \A d \in Conns : serve'[d] = "acquire" <=> serve[d] = "acquire"
    BY <1>1, <1>3, Zenon
  <2>2. \A i \in DOMAIN waiting : waiting[i] \in Conns
    BY DEF TypeOK
  <2> QED
    BY <1>1, <2>1, <2>2, Zenon DEF QueueSound
<1>8. Conversation'
  <2>1. CASE ReadStrayDone(c)
    <3>1. client[c] \in {"returning", "dead"} /\ mu # c
      BY <2>1, Zenon DEF ReadStrayDone, Conversation, TypeOK, ClientStates
    <3> QED
      BY <2>1, <3>1 DEF ReadStrayDone, Conversation, TypeOK
  <2>2. CASE ReadEOF(c)
    BY <2>2, Zenon DEF ReadEOF, Conversation, TypeOK
  <2>3. CASE Closed(c)
    BY <2>3 DEF Closed, Conversation, TypeOK
  <2> QED
    BY <2>1, <2>2, <2>3, Zenon
<1> QED
  BY <1>4, <1>5, <1>6, <1>7, <1>8, Zenon

\* A new daemon starts from NewSlots.
LEMMA RestartInv ==
  ASSUME SlotsInv, Restart
  PROVE  SlotsInv' /\ Owners' = {}
<1> USE SlotsAssumption DEF Restart, SlotsInv
<1>1. TypeOK'
  BY DEF TypeOK, ServeStates, ClientStates
<1>2. Owners' = {} /\ \A b \in Builds : OwnersOf(b)' = {}
  BY DEF Owners, OwnersOf
<1>3. TokensAccounted'
  BY <1>2, FS_EmptySet, Zenon DEF TokensAccounted
<1>4. (out <= Limit)' /\ NoIdleSlot' /\ QueueSound'
  BY DEF NoIdleSlot, QueueSound
<1>5. Conversation'
  BY Zenon DEF Conversation
<1> QED
  BY <1>1, <1>2, <1>3, <1>4, <1>5, Zenon

\* SlotsInv is inductive.
LEMMA NextInv == SlotsInv /\ [Next]_vars => SlotsInv'
<1> SUFFICES ASSUME SlotsInv, [Next]_vars PROVE SlotsInv'
  BY Zenon
<1>1. CASE Restart
  BY <1>1, RestartInv, Zenon
<1>2. ASSUME NEW c \in Conns, ServeStep(c)
      PROVE  SlotsInv'
  BY <1>2, ReadSlotInv, GrantInv, ReleaseInv, UnlockInv, GrantedInv, QuietServeInv, Zenon
     DEF ServeStep
<1>3. ASSUME NEW c \in Conns, ClientStep(c)
      PROVE  SlotsInv'
  BY <1>3, ClientStepInv, Zenon
<1>4. CASE UNCHANGED vars
  <2>1. Owners' = Owners
    BY <1>4, Zenon DEF Owners, vars
  <2>2. TokensAccounted'
    BY <1>4, <2>1, TokensUntouched, Zenon DEF vars, SlotsInv
  <2> QED
    BY <1>4, <2>2 DEF vars, SlotsInv, TypeOK, NoIdleSlot, QueueSound, Conversation
<1> QED
  BY <1>1, <1>2, <1>3, <1>4, Zenon DEF Next

\* SlotsInv holds in every reachable state.
THEOREM Invariance == Spec => []SlotsInv
  BY InitInv, NextInv, PTL DEF Spec

----------------------------------------------------------------------------
(* What follows from it *)

\* Every variable stays in its type, the daemon's counters never go negative.
THEOREM TypeCorrect == Spec => []TypeOK
<1>1. SlotsInv => TypeOK
  BY Zenon DEF SlotsInv
<1> QED
  BY <1>1, Invariance, PTL

\* Slots.out and Slots.held are exactly the tokens the connections own.
THEOREM TokensAreAccounted == Spec => []TokensAccounted
<1>1. SlotsInv => TokensAccounted
  BY Zenon DEF SlotsInv
<1> QED
  BY <1>1, Invariance, PTL

\* Never more than Limit compilers run with a token.
THEOREM AdmissionLimit == Spec => []RunningAtMostLimit
<1>1. SlotsInv => RunningAtMostLimit
  <2> SUFFICES ASSUME SlotsInv PROVE RunningAtMostLimit
    BY Zenon
  <2> DEFINE running == {c \in Conns : client[c] = "running"}
  <2>1. running \subseteq Owners
    BY DEF SlotsInv, Owners, Conversation
  <2>2. Cardinality(running) <= Cardinality(Owners) /\ Cardinality(running) \in Nat
    BY <2>1, OwnersFinite, FS_Subset, FS_CardinalityType, Zenon
  <2> QED
    BY <2>2, OwnersFinite, SlotsAssumption
       DEF RunningAtMostLimit, SlotsInv, TokensAccounted, TypeOK
<1> QED
  BY <1>1, Invariance, PTL

\* No slot is idle while a goroutine waits in Acquire, outside Release.
THEOREM WorkConserving == Spec => []NoIdleSlot
<1>1. SlotsInv => NoIdleSlot
  BY Zenon DEF SlotsInv
<1> QED
  BY <1>1, Invariance, PTL

\* The queue is exactly the set of goroutines blocked in Acquire.
THEOREM QueueIsSound == Spec => []QueueSound
<1>1. SlotsInv => QueueSound
  BY Zenon DEF SlotsInv
<1> QED
  BY <1>1, Invariance, PTL

\* A waiter that is woken never belongs to a build that holds more tokens than
\* another waiter's build.
THEOREM FairGrant == Spec => FewestHeldFirst
<1> DEFINE Fair(c) == serve[c] = "acquire" /\ serve'[c] = "granted" =>
                        \A d \in Conns : serve[d] = "acquire" =>
                          held[BuildOf[c]] <= held[BuildOf[d]]
<1>1. ASSUME SlotsInv, [Next]_vars, NEW c \in Conns
      PROVE  Fair(c)
  <2> SUFFICES ASSUME serve[c] = "acquire", serve'[c] = "granted",
                      NEW d \in Conns, serve[d] = "acquire"
               PROVE  held[BuildOf[c]] <= held[BuildOf[d]]
    BY Zenon
  <2> USE <1>1 DEF SlotsInv
  <2>1. PICK e \in Conns : Grant(e)
    <3>1. ~Restart /\ ~UNCHANGED vars
      BY Zenon DEF Restart, vars, TypeOK
    <3>2. PICK e \in Conns : ServeStep(e) \/ ClientStep(e)
      BY <3>1, Zenon DEF Next
    <3>3. ~ClientStep(e)
      BY Zenon DEF ClientStep, Connect, RunAlone, AcquireSlot, ReleaseSlot, StrayDone,
             FinishAlone, HangUp, serveVars, TypeOK
    <3>4. ~(ReadSlot(e) \/ Granted(e) \/ ReadDone(e) \/ ReadStrayDone(e)
            \/ ReadEOF(e) \/ CloseRelease(e) \/ Closed(e) \/ Unlock(e))
      BY Zenon DEF ReadSlot, Acquire, Granted, ReadDone, ReadStrayDone, ReadEOF,
             CloseRelease, Closed, Unlock, TypeOK
    <3> QED
      BY <3>2, <3>3, <3>4, Zenon DEF ServeStep
  <2>2. PICK i \in DOMAIN waiting :
          IsBest(i) /\ serve' = [serve EXCEPT ![waiting[i]] = "granted"]
    BY <2>1, Zenon DEF Grant
  <2>3. waiting[i] = c
    BY <2>2, Zenon DEF TypeOK
  <2>4. PICK j \in DOMAIN waiting : waiting[j] = d
    BY Zenon DEF QueueSound
  <2> QED
    BY <2>2, <2>3, <2>4, Zenon DEF IsBest
<1>2. SlotsInv /\ [Next]_vars =>
        [\A c \in Conns : Fair(c)]_vars
  BY <1>1, Zenon
<1> QED
  BY <1>2, Invariance, PTL DEF Spec, FewestHeldFirst

\* The daemon implements a counting semaphore: its initial state is an empty
\* one and every step admits one connection, takes one token back, forgets all
\* of them at a restart, or changes nothing a semaphore shows.
THEOREM Refinement == Spec => ImplementsSemaphore
<1>1. Init => Sem!Init
  BY DEF Init, Sem!Init, Owners
<1>2. ASSUME SlotsInv, [Next]_vars
      PROVE  [Sem!Next]_Owners
  <2> USE <1>2
  <2>1. CASE Restart
    BY <2>1, RestartInv, Zenon DEF Sem!Next, Sem!Forget
  <2>2. ASSUME NEW c \in Conns, ServeStep(c)
        PROVE  [Sem!Next]_Owners
    <3>1. ASSUME NEW d \in Conns, d \notin Owners, Owners' = Owners \cup {d}, out < Limit
          PROVE  Sem!Next
      <4>1. Cardinality(Owners) < Limit
        BY <3>1, Zenon DEF SlotsInv, TokensAccounted
      <4>2. Sem!Cardinality(Owners) = Cardinality(Owners)
        BY Zenon DEF Cardinality, Sem!Cardinality
      <4>3. Sem!Admit(d)
        BY <3>1, <4>1, <4>2, Zenon DEF Sem!Admit
      <4> QED
        BY <4>3, Zenon DEF Sem!Next
    <3>2. CASE ReadSlot(c)
      <4>1. mine' = mine /\ mine[c] = 0 /\ serve[c] = "read"
        BY <3>2, Zenon DEF ReadSlot, SlotsInv, Conversation
      <4>2. CASE Free /\ serve' = [serve EXCEPT ![c] = "granted"]
        <5>1. c \notin Owners /\ Owners' = Owners \cup {c}
          BY <4>1, <4>2 DEF Owners, SlotsInv, TypeOK
        <5> QED
          BY <3>1, <4>2, <5>1, Zenon DEF Free
      <4>3. CASE serve' = [serve EXCEPT ![c] = "acquire"]
        BY <4>1, <4>3, Zenon DEF Owners, SlotsInv, TypeOK
      <4> QED
        BY <3>2, <4>2, <4>3, Zenon DEF ReadSlot, Acquire
    <3>3. CASE Grant(c)
      <4>1. PICK i \in DOMAIN waiting : serve' = [serve EXCEPT ![waiting[i]] = "granted"]
        BY <3>3, Zenon DEF Grant
      <4> DEFINE w == waiting[i]
      <4>2. w \in Conns /\ serve[w] = "acquire" /\ mine[w] = 0 /\ mine' = mine
        BY <3>3 DEF Grant, SlotsInv, TypeOK, QueueSound, Conversation
      <4>3. w \notin Owners /\ Owners' = Owners \cup {w}
        BY <4>1, <4>2 DEF Owners, SlotsInv, TypeOK
      <4> QED
        BY <3>1, <3>3, <4>2, <4>3, Zenon DEF Grant, Grantable
    <3>4. CASE ReadDone(c) \/ CloseRelease(c)
      <4>1. /\ mine[c] > 0 /\ mine' = [mine EXCEPT ![c] = @ - 1]
            /\ serve' = serve \/ serve' = [serve EXCEPT ![c] = "release"]
            /\ serve[c] \in {"read", "closing"}
        BY <3>4, Zenon DEF ReadDone, CloseRelease
      <4>2. mine[c] = 1 /\ mine'[c] = 0
        BY <4>1 DEF SlotsInv, Conversation, TypeOK
      <4>3. c \in Owners /\ Owners' = Owners \ {c}
        BY <4>1, <4>2 DEF Owners, SlotsInv, TypeOK
      <4> QED
        BY <4>3, Zenon DEF Sem!Next, Sem!Leave
    <3>5. CASE Granted(c)
      <4>1. mine'[c] > 0 /\ serve[c] = "granted"
        BY <3>5 DEF Granted, SlotsInv, Conversation, TypeOK
      <4>2. \A d \in Conns \ {c} : mine'[d] = mine[d] /\ serve'[d] = serve[d]
        BY <3>5, Zenon DEF Granted, SlotsInv, TypeOK
      <4> QED
        BY <4>1, <4>2, Zenon DEF Owners
    <3>6. CASE Unlock(c)
      <4>1. /\ mine' = mine /\ serve[c] # "granted" /\ serve'[c] # "granted"
            /\ \A d \in Conns \ {c} : serve'[d] = serve[d]
        BY <3>6, Zenon DEF Unlock, SlotsInv, TypeOK
      <4> QED
        BY <4>1, Zenon DEF Owners
    <3>7. CASE ReadStrayDone(c) \/ ReadEOF(c) \/ Closed(c)
      BY <3>7, QuietServeInv, Zenon
    <3> QED
      BY <2>2, <3>2, <3>3, <3>4, <3>5, <3>6, <3>7, Zenon DEF ServeStep
  <2>3. ASSUME NEW c \in Conns, ClientStep(c)
        PROVE  Owners' = Owners
    <3>1. CASE Connect(c)
      BY <3>1, Zenon DEF Connect, Owners, SlotsInv, TypeOK
    <3>2. CASE UNCHANGED serveVars
      BY <3>2, Zenon DEF serveVars, Owners
    <3> QED
      BY <2>3, <3>1, <3>2, Zenon DEF ClientStep, RunAlone, AcquireSlot, ReleaseSlot,
                              StrayDone, FinishAlone, HangUp
  <2>4. CASE UNCHANGED vars
    BY <2>4, Zenon DEF vars, Owners
  <2> QED
    BY <2>1, <2>2, <2>3, <2>4, Zenon DEF Next
<1> QED
  BY <1>1, <1>2, Invariance, PTL DEF Spec, ImplementsSemaphore, Sem!Spec
=============================================================================
