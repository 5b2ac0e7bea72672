-------------------------- MODULE ToolCachesProofs --------------------------
(***************************************************************************)
(* The caches that jig lends to go and to cargo: a hit is the output go    *)
(* gave for that action, and a unit is in the out-dir as rustc makes it,   *)
(* for any outputs, crates and trees, any number of processes, and         *)
(* whatever the daemon evicts, the connections lose or a writer leaves     *)
(* torn.  Also: the caches of Artifacts, on one daemon, do not meet.       *)
(*                                                                         *)
(* GoInv is the inductive invariant of go's cache.  An answer is right     *)
(* because an action leads to an id that go gave for it (EntriesInv), and  *)
(* this because a put reaches its second entry only with the whole body    *)
(* (HandlingInv).  RustInv is that of cargo's: an object is the output of  *)
(* some unit in some tree, under the key and the manifest of that tree     *)
(* (ObjectsInv), so a unit that finds it by its own key and by a manifest  *)
(* that is valid now would make the same (SameMade).                       *)
(***************************************************************************)
EXTENDS Artifacts, TLAPS

----------------------------------------------------------------------------
(* The go cache: what holds in every state *)

GetRequest(a) == [command |-> "get", action |-> RFC4648(a)]
PutRequest(a, o) ==
  [command |-> "put", action |-> RFC4648(a), output |-> RFC4648(OutputId(o)), size |-> Len(o)]
CloseRequest == [command |-> "close"]

\* What is left on stdin of a put: the body, whole only if go has given the output.
BodyLeft(a, o, lines) ==
  IF o = <<>> THEN lines = <<>> /\ <<a, o>> \in given
  ELSE \/ lines = <<>>
       \/ \E n \in 1..Len(BodyLine(o)) :
            /\ lines = <<SubSeq(BodyLine(o), 1, n)>>
            /\ n = Len(BodyLine(o)) => <<a, o>> \in given

\* What go has sent, by how far it is handled.
Unread(g) ==
  \/ input[g] \in {<<>>, <<CloseRequest>>}
  \/ \E a \in Actions : input[g] = <<GetRequest(a)>>
  \/ \E a \in Actions, o \in Outputs :
       input[g] # <<>> /\ Head(input[g]) = PutRequest(a, o) /\ BodyLeft(a, o, Tail(input[g]))
Getting(g) == input[g] = <<>> /\ \E a \in Actions : req[g] = GetRequest(a)
Finding(g) ==
  /\ input[g] = <<>>
  /\ \E a \in Actions, o \in Outputs : req[g] = GetRequest(a) /\ found[g] = OutputId(o) /\ <<a, o>> \in given
Putting(g) == \E a \in Actions, o \in Outputs : req[g] = PutRequest(a, o) /\ BodyLeft(a, o, input[g])
Storing(g) ==
  /\ input[g] = <<>>
  /\ \E a \in Actions, o \in Outputs : req[g] = PutRequest(a, o) /\ <<a, o>> \in given

HandlingInv(g) ==
  /\ gpc[g] = "idle" => Unread(g)
  /\ gpc[g] = "get" => Getting(g)
  /\ gpc[g] = "output" => Finding(g)
  /\ gpc[g] = "put" => Putting(g)
  /\ gpc[g] = "action" => Storing(g)

\* A hit is of an output that go has given for the action.
AnswerInv(g) ==
  answer[g] # None /\ answer[g].kind = "hit" =>
    \E o \in Outputs :
      /\ <<answer[g].action, o>> \in given
      /\ answer[g].id = RFC4648(OutputId(o)) /\ answer[g].path = OutputId(o)
      /\ answer[g].size = Len(o)

\* An action leads to an output that go has given for it, an id to the output it is of.
EntriesInv ==
  /\ \A a \in Actions : GoAction(a) \in DOMAIN cache =>
       \E o \in Outputs : cache[GoAction(a)] = OutputId(o) /\ <<a, o>> \in given
  /\ \A o \in Outputs : GoOutput(OutputId(o)) \in DOMAIN cache => cache[GoOutput(OutputId(o))] = o
FilesInv ==
  /\ DOMAIN disk = {DiskOf[g] : g \in Gos}
  /\ \A d \in DOMAIN disk : \A o \in Outputs :
       OutputId(o) \in DOMAIN disk[d] => disk[d][OutputId(o)] = o

GoDomains ==
  DOMAIN gpc = Gos /\ DOMAIN input = Gos /\ DOMAIN req = Gos /\ DOMAIN found = Gos /\ DOMAIN answer = Gos

GoInv ==
  /\ GoDomains
  /\ \A g \in Gos : HandlingInv(g) /\ AnswerInv(g)
  /\ EntriesInv /\ FilesInv

----------------------------------------------------------------------------
(* Lemmas *)

\* What base64 does for the ids and bodies of go, from the assumption on it.
LEMMA CodecIs ==
  /\ \A a \in Actions : Base64Decode(RFC4648(a)) = a
  /\ \A o \in Outputs :
       /\ o \in Seq(0..255) /\ RFC4648(o) \in Seq(0..64) /\ Base64Decode(RFC4648(o)) = o
       /\ Base64Decode(RFC4648(OutputId(o))) = OutputId(o)
       /\ Base64Encode(OutputId(o)) = RFC4648(OutputId(o))
  BY GoAssumption, Zenon DEF Agreed, Pad

\* Keys of actions are not keys of outputs, and each key is of one id.
LEMMA GoKeys ==
  /\ \A x, y : GoAction(x) # GoOutput(y)
  /\ \A x, y : GoAction(x) = GoAction(y) => x = y
  /\ \A x, y : GoOutput(x) = GoOutput(y) => x = y
  /\ \A x : GoKey(GoAction(x)) /\ GoKey(GoOutput(x))
  BY Zenon DEF GoAction, GoOutput, GoKey

\* An element of a sequence.
LEMMA Element ==
  ASSUME NEW X, NEW s \in Seq(X), NEW i \in 1..Len(s)
  PROVE  s[i] \in X
OBVIOUS

\* Sequences with the same elements.
LEMMA SameSeq ==
  ASSUME NEW X, NEW s \in Seq(X), NEW t \in Seq(X), Len(s) = Len(t), \A i \in 1..Len(s) : s[i] = t[i]
  PROVE  s = t
OBVIOUS

\* A part of a sequence.
LEMMA Parts ==
  ASSUME NEW X, NEW s \in Seq(X), NEW m \in 1..Len(s) + 1, NEW n \in m - 1..Len(s)
  PROVE  /\ SubSeq(s, m, n) \in Seq(X) /\ Len(SubSeq(s, m, n)) = n - m + 1
         /\ \A i \in 1..(n - m + 1) : SubSeq(s, m, n)[i] = s[m + i - 1]
OBVIOUS

\* The line of a body with its parts.
LEMMA BodyLineIs ==
  ASSUME NEW o \in Outputs
  PROVE  /\ BodyLine(o) \in Seq(0..65)
         /\ Len(RFC4648(o)) \in Nat /\ Len(BodyLine(o)) = Len(RFC4648(o)) + 2
         /\ BodyLine(o)[1] = 65 /\ BodyLine(o)[Len(BodyLine(o))] = 65
         /\ \A i \in 1..Len(RFC4648(o)) : BodyLine(o)[i + 1] = RFC4648(o)[i] /\ BodyLine(o)[i + 1] # 65
<1> DEFINE text == RFC4648(o)
           q == <<65>>
           open == q \o text
<1>1. text \in Seq(0..64) /\ text \in Seq(0..65) /\ Len(text) \in Nat
  BY CodecIs
<1>2. BodyLine(o) = open \o q
  BY Zenon DEF BodyLine, Quote
<1>q. q \in Seq(0..65)
  OBVIOUS
<1>3. Len(q) = 1 /\ q[1] = 65
  OBVIOUS
<1> HIDE DEF text, q
<1>4. /\ q \o text \in Seq(0..65) /\ Len(q \o text) = Len(q) + Len(text)
      /\ \A i \in 1..Len(q) : (q \o text)[i] = q[i]
      /\ \A i \in 1..Len(text) : (q \o text)[Len(q) + i] = text[i]
  BY <1>1, <1>q
<1>o. /\ open \in Seq(0..65) /\ Len(open) = Len(q) + Len(text)
      /\ \A i \in 1..Len(q) : open[i] = q[i]
      /\ \A i \in 1..Len(text) : open[Len(q) + i] = text[i]
  BY <1>4, Zenon DEF open
<1> HIDE DEF open
<1>5. /\ open \o q \in Seq(0..65) /\ Len(open \o q) = Len(open) + Len(q)
      /\ \A i \in 1..Len(open) : (open \o q)[i] = open[i]
      /\ \A i \in 1..Len(q) : (open \o q)[Len(open) + i] = q[i]
  <2>1. open \in Seq(0..65)
    BY <1>o, Zenon
  <2>2. QED
    BY <1>q, <2>1
<1> DEFINE line == BodyLine(o)
<1>6. /\ line \in Seq(0..65) /\ Len(line) = Len(open) + Len(q)
      /\ \A i \in 1..Len(open) : line[i] = open[i]
      /\ \A i \in 1..Len(q) : line[Len(open) + i] = q[i]
  BY <1>2, <1>5, Zenon
<1> HIDE DEF line
<1>7. Len(open) = Len(text) + 1 /\ Len(line) = Len(text) + 2
  BY <1>1, <1>3, <1>o, <1>6
<1>8. line[1] = 65 /\ line[Len(line)] = 65
  BY <1>1, <1>3, <1>o, <1>6, <1>7
<1>9. \A i \in 1..Len(text) : line[i + 1] = text[i] /\ line[i + 1] # 65
  <2> SUFFICES ASSUME NEW i \in 1..Len(text) PROVE line[i + 1] = text[i] /\ line[i + 1] # 65
    OBVIOUS
  <2>1. open[i + 1] = text[i]
    BY <1>1, <1>3, <1>o
  <2>2. line[i + 1] = open[i + 1]
    BY <1>1, <1>6, <1>7
  <2>3. text[i] # 65
    <3>1. text \in Seq(0..64)
      BY <1>1, Zenon
    <3>2. text[i] \in 0..64
      BY <3>1, Element, Zenon
    <3>3. \A x \in 0..64 : x # 65
      OBVIOUS
    <3> QED
      BY <3>2, <3>3, Zenon
  <2> QED
    BY <2>1, <2>2, <2>3, Zenon
<1>10. QED
  BY <1>1, <1>6, <1>7, <1>8, <1>9, Zenon DEF line, text

\* A body that is not torn is the output, and go has given it.
LEMMA BodyIs ==
  ASSUME NEW g, NEW a, NEW o \in Outputs, o # <<>>, BodyLeft(a, o, input[g]),
         req[g].size = Len(o), ~Torn(g)
  PROVE  Len(o) > 0 /\ Body(g) = o /\ <<a, o>> \in given
<1>1. o \in Seq(0..255) /\ Len(o) \in Nat /\ Len(o) > 0
  BY CodecIs
<1>2. Len(Body(g)) = Len(o)
  BY <1>1, Zenon DEF Torn
<1>3. ASSUME Body(g) = <<>> PROVE FALSE
  BY <1>1, <1>2, <1>3
<1>4. input[g] # <<>>
  BY <1>3 DEF Body
<1>5. PICK n \in 1..Len(BodyLine(o)) :
        /\ input[g] = <<SubSeq(BodyLine(o), 1, n)>>
        /\ n = Len(BodyLine(o)) => <<a, o>> \in given
  BY <1>4, Zenon DEF BodyLeft
<1> DEFINE line == SubSeq(BodyLine(o), 1, n)
<1>6. line \in Seq(0..65) /\ Len(line) = n /\ \A i \in 1..n : line[i] = BodyLine(o)[i]
  <2>1. BodyLine(o) \in Seq(0..65) /\ Len(BodyLine(o)) \in Nat
    BY BodyLineIs
  <2>2. 1 \in 1..Len(BodyLine(o)) + 1 /\ n \in 1 - 1..Len(BodyLine(o))
    BY <2>1
  <2>3. /\ line \in Seq(0..65) /\ Len(line) = n - 1 + 1
        /\ \A i \in 1..(n - 1 + 1) : line[i] = BodyLine(o)[1 + i - 1]
    BY <2>1, <2>2, Parts, Zenon
  <2> HIDE DEF line
  <2>4. QED
    BY <2>3
<1>7. Head(input[g]) = line /\ input[g] # <<>>
  BY <1>5
<1> HIDE DEF line
<1>8. n >= 2 /\ line[n] = 65
  <2>1. Len(line) >= 2 /\ line[1] = Quote /\ line[Len(line)] = Quote
    BY <1>3, <1>7, Zenon DEF Body
  <2>2. QED
    BY <1>6, <2>1, Zenon DEF Quote
<1>9. n = Len(BodyLine(o))
  <2>1. Len(BodyLine(o)) = Len(RFC4648(o)) + 2 /\ Len(RFC4648(o)) \in Nat /\ line[n] = BodyLine(o)[n]
    BY <1>6, BodyLineIs
  <2>2. ASSUME n # Len(BodyLine(o)) PROVE n - 1 \in 1..Len(RFC4648(o)) /\ (n - 1) + 1 = n
    BY <1>8, <2>1, <2>2
  <2>3. QED
    BY <1>8, <2>1, <2>2, BodyLineIs, Zenon
<1>10. SubSeq(line, 2, n - 1) = RFC4648(o)
  <2> DEFINE inner == SubSeq(line, 2, n - 1)
             text == RFC4648(o)
  <2>1. text \in Seq(0..65) /\ Len(text) \in Nat /\ n = Len(text) + 2
    <3>1. text \in Seq(0..64) /\ Len(text) \in Nat /\ n = Len(text) + 2
      BY <1>9, BodyLineIs, CodecIs, Zenon
    <3> HIDE DEF text
    <3> QED
      BY <3>1
  <2>2. \A i \in 1..Len(text) : BodyLine(o)[i + 1] = text[i]
    BY BodyLineIs, Zenon
  <2> HIDE DEF text
  <2>3. \A i \in 1..Len(text) : line[i + 1] = text[i]
    BY <1>6, <2>1, <2>2
  <2>4. 2 \in 1..Len(line) + 1 /\ n - 1 \in 2 - 1..Len(line)
    BY <1>6, <1>8
  <2>5. /\ inner \in Seq(0..65) /\ Len(inner) = (n - 1) - 2 + 1
        /\ \A i \in 1..((n - 1) - 2 + 1) : inner[i] = line[2 + i - 1]
    BY <1>6, <2>4, Parts, Zenon
  <2> HIDE DEF inner
  <2>6. Len(inner) = Len(text) /\ \A i \in 1..Len(inner) : inner[i] = text[i]
    BY <2>1, <2>3, <2>5
  <2>7. inner = text
    BY <2>1, <2>5, <2>6, SameSeq, Zenon
  <2>8. QED
    BY <2>7, Zenon DEF inner, text
<1>11. Len(line) >= 2 /\ line[1] = Quote /\ line[Len(line)] = Quote /\ Len(line) = n
  BY <1>6, <1>8, BodyLineIs DEF Quote
<1>12. Body(g) = Base64Decode(RFC4648(o))
  <2>1. Body(g) = Base64Decode(SubSeq(line, 2, Len(line) - 1))
    BY <1>7, <1>11, Zenon DEF Body
  <2>2. QED
    BY <1>10, <1>11, <2>1, Zenon
<1>13. QED
  BY <1>1, <1>5, <1>9, <1>12, CodecIs, Zenon

----------------------------------------------------------------------------
(* The steps *)

\* A process does not notice what the others do.
LEMMA OtherGo ==
  ASSUME NEW h, HandlingInv(h), AnswerInv(h), given \subseteq given',
         gpc'[h] = gpc[h], input'[h] = input[h], req'[h] = req[h], found'[h] = found[h],
         answer'[h] = answer[h]
  PROVE  HandlingInv(h)' /\ AnswerInv(h)'
<1>1. \A a, o, lines : BodyLeft(a, o, lines) => BodyLeft(a, o, lines)'
  BY Zenon DEF BodyLeft
<1>2. (Unread(h) => Unread(h)') /\ (Getting(h) => Getting(h)')
  BY <1>1, Zenon DEF Unread, Getting
<1>3. (Finding(h) => Finding(h)') /\ (Putting(h) => Putting(h)') /\ (Storing(h) => Storing(h)')
  BY <1>1, Zenon DEF Finding, Putting, Storing
<1>4. HandlingInv(h)'
  BY <1>2, <1>3, Zenon DEF HandlingInv
<1>5. AnswerInv(h)'
  BY Zenon DEF AnswerInv
<1> QED
  BY <1>4, <1>5, Zenon

OnlyGo(g) ==
  \A h \in Gos \ {g} :
    /\ gpc'[h] = gpc[h] /\ input'[h] = input[h] /\ req'[h] = req[h] /\ found'[h] = found[h]
    /\ answer'[h] = answer[h]

\* A step of g has to keep the facts of g, the entries and the files.
LEMMA OwnGoStep ==
  ASSUME GoInv, NEW g \in Gos, OnlyGo(g), given \subseteq given', GoDomains',
         HandlingInv(g)', AnswerInv(g)', EntriesInv', FilesInv'
  PROVE  GoInv'
<1>1. \A h \in Gos \ {g} : HandlingInv(h)' /\ AnswerInv(h)'
  BY OtherGo, Zenon DEF GoInv, OnlyGo
<1> QED
  BY <1>1, Zenon DEF GoInv

\* Entries and files that stay, or go, stay right.
LEMMA SameEntries ==
  ASSUME EntriesInv, given \subseteq given',
         \A k \in DOMAIN cache' : GoKey(k) => k \in DOMAIN cache /\ cache'[k] = cache[k]
  PROVE  EntriesInv'
  BY GoKeys, Zenon DEF EntriesInv

\* The same for the files.
LEMMA SameFiles ==
  ASSUME FilesInv, UNCHANGED disk
  PROVE  FilesInv'
  BY Zenon DEF FilesInv

\* An output under its id.
LEMMA OutputPut ==
  ASSUME EntriesInv, NEW c, NEW o \in Outputs, given \subseteq given',
         Put(c, GoOutput(OutputId(o)), o)
  PROVE  EntriesInv'
<1>1. CASE ~up[c]
  BY <1>1, Zenon DEF Put, EntriesInv
<1>2. CASE up[c]
  <2>1. cache' = Overlay([x \in {GoOutput(OutputId(o))} |-> o], cache)
    BY <1>2, Zenon DEF Put
  <2>2. /\ DOMAIN cache' = DOMAIN cache \cup {GoOutput(OutputId(o))}
        /\ cache'[GoOutput(OutputId(o))] = o /\ \A x \in DOMAIN cache \ {GoOutput(OutputId(o))} : cache'[x] = cache[x]
    BY <2>1, Zenon DEF Overlay
  <2>3. QED
    BY <2>2, GoKeys, GoAssumption, Zenon DEF EntriesInv
<1> QED
  BY <1>1, <1>2, Zenon

\* The id of an output that was given, under the action.
LEMMA ActionPut ==
  ASSUME EntriesInv, NEW c, NEW a \in Actions, NEW o \in Outputs, <<a, o>> \in given, UNCHANGED given,
         Put(c, GoAction(a), OutputId(o))
  PROVE  EntriesInv'
<1>1. CASE ~up[c]
  BY <1>1, Zenon DEF Put, EntriesInv
<1>2. CASE up[c]
  <2>1. cache' = Overlay([x \in {GoAction(a)} |-> OutputId(o)], cache)
    BY <1>2, Zenon DEF Put
  <2>2. /\ DOMAIN cache' = DOMAIN cache \cup {GoAction(a)}
        /\ cache'[GoAction(a)] = OutputId(o) /\ \A x \in DOMAIN cache \ {GoAction(a)} : cache'[x] = cache[x]
    BY <2>1, Zenon DEF Overlay
  <2>3. QED
    BY <2>2, GoKeys, Zenon DEF EntriesInv
<1> QED
  BY <1>1, <1>2, Zenon

\* An output in its file, or no write.
LEMMA FileWritten ==
  ASSUME FilesInv, NEW g \in Gos, NEW o \in Outputs, Write(DiskOf[g], OutputId(o), o)
  PROVE  FilesInv'
<1>1. CASE UNCHANGED disk
  BY <1>1, SameFiles, Zenon
<1>2. CASE disk' = [disk EXCEPT ![DiskOf[g]] = Overlay([x \in {OutputId(o)} |-> o], @)]
  <2> DEFINE d == DiskOf[g]
  <2>1. d \in DOMAIN disk /\ DOMAIN disk' = DOMAIN disk
    BY <1>2, Zenon DEF FilesInv
  <2>2. disk'[d] = Overlay([x \in {OutputId(o)} |-> o], disk[d]) /\ \A e \in DOMAIN disk \ {d} : disk'[e] = disk[e]
    BY <1>2, <2>1, Zenon
  <2>3. /\ DOMAIN disk'[d] = DOMAIN disk[d] \cup {OutputId(o)}
        /\ disk'[d][OutputId(o)] = o /\ \A x \in DOMAIN disk[d] \ {OutputId(o)} : disk'[d][x] = disk[d][x]
    BY <2>2, Zenon DEF Overlay
  <2> HIDE DEF d
  <2>4. QED
    BY <2>1, <2>2, <2>3, GoAssumption, Zenon DEF FilesInv
<1> QED
  BY <1>1, <1>2, Zenon DEF Write

\* A request that go sends is whole, up to its body.
LEMMA GoSendsInv ==
  ASSUME GoInv, NEW g \in Gos, GoSends(g)
  PROVE  GoInv'
<1>1. given \subseteq given'
  BY Zenon DEF GoSends
<1>2. PICK lines : input' = [input EXCEPT ![g] = lines]
  BY Zenon DEF GoSends
<1>3. OnlyGo(g) /\ GoDomains' /\ input'[g] = lines /\ answer'[g] = answer[g] /\ gpc'[g] = "idle"
  BY <1>2, Zenon DEF OnlyGo, GoDomains, GoInv, GoSends
<1>4. Unread(g)'
  <2>1. CASE \E a \in Actions : input' = [input EXCEPT ![g] = <<GetRequest(a)>>]
    BY <1>3, <2>1, Zenon DEF Unread, GoInv, GoDomains
  <2>2. CASE input' = [input EXCEPT ![g] = <<CloseRequest>>]
    BY <1>3, <2>2, Zenon DEF Unread, GoInv, GoDomains
  <2>3. ASSUME NEW a \in Actions, NEW o \in Outputs, o = <<>>,
               input' = [input EXCEPT ![g] = <<PutRequest(a, o)>>], given' = given \cup {<<a, o>>}
        PROVE  Unread(g)'
    <3>1. input'[g] = <<PutRequest(a, o)>>
      BY <2>3, Zenon DEF GoInv, GoDomains
    <3>2. input'[g] # <<>> /\ Head(input'[g]) = PutRequest(a, o) /\ Tail(input'[g]) = <<>>
      BY <3>1
    <3>3. BodyLeft(a, o, Tail(input[g]))'
      BY <2>3, <3>2, Zenon DEF BodyLeft
    <3>4. QED
      BY <3>2, <3>3, Zenon DEF Unread
  <2>4. ASSUME NEW a \in Actions, NEW o \in Outputs, o # <<>>, NEW n \in 0..Len(BodyLine(o)),
               input' = [input EXCEPT ![g] = IF n = 0 THEN <<PutRequest(a, o)>>
                                             ELSE <<PutRequest(a, o), SubSeq(BodyLine(o), 1, n)>>],
               given' = IF n = Len(BodyLine(o)) THEN given \cup {<<a, o>>} ELSE given
        PROVE  Unread(g)'
    <3>1. input'[g] = IF n = 0 THEN <<PutRequest(a, o)>> ELSE <<PutRequest(a, o), SubSeq(BodyLine(o), 1, n)>>
      BY <2>4, Zenon DEF GoInv, GoDomains
    <3>2. /\ input'[g] # <<>> /\ Head(input'[g]) = PutRequest(a, o)
          /\ Tail(input'[g]) = IF n = 0 THEN <<>> ELSE <<SubSeq(BodyLine(o), 1, n)>>
      BY <3>1
    <3>3. n # 0 => n \in 1..Len(BodyLine(o))
      BY BodyLineIs
    <3>4. BodyLeft(a, o, Tail(input[g]))'
      BY <2>4, <3>2, <3>3, Zenon DEF BodyLeft
    <3>5. QED
      BY <3>2, <3>4, Zenon DEF Unread
  <2>5. QED
    BY <2>1, <2>2, <2>3, <2>4, Zenon DEF GoSends, GetRequest, PutRequest, CloseRequest
<1>5. HandlingInv(g)'
  BY <1>3, <1>4, Zenon DEF HandlingInv
<1>6. AnswerInv(g)'
  BY <1>1, <1>3, Zenon DEF AnswerInv, GoInv
<1>7. EntriesInv'
  BY <1>1, SameEntries, Zenon DEF GoInv, GoSends, storeVars
<1>8. FilesInv'
  BY SameFiles, Zenon DEF GoInv, GoSends
<1>9. QED
  BY <1>1, <1>3, <1>5, <1>6, <1>7, <1>8, OwnGoStep, Zenon

\* A request that is read is one that go sent.
LEMMA ReadRequestInv ==
  ASSUME GoInv, NEW g \in Gos, ReadRequest(g)
  PROVE  GoInv'
<1>1. OnlyGo(g) /\ GoDomains' /\ UNCHANGED <<given, cache, disk>>
  BY Zenon DEF OnlyGo, GoDomains, GoInv, ReadRequest, storeVars
<1>2. /\ gpc[g] = "idle" /\ input[g] # <<>> /\ req'[g] = Head(input[g]) /\ input'[g] = Tail(input[g])
      /\ gpc'[g] = IF req'[g].command = "close" THEN "done" ELSE req'[g].command
      /\ answer'[g] = None
  BY Zenon DEF GoInv, GoDomains, ReadRequest
<1>3. Unread(g)
  BY <1>2, Zenon DEF GoInv, HandlingInv
<1>4. HandlingInv(g)'
  <2>1. CASE input[g] = <<CloseRequest>>
    <3>1. gpc'[g] = "done"
      BY <1>2, <2>1 DEF CloseRequest
    <3>2. QED
      BY <3>1, Zenon DEF HandlingInv
  <2>2. ASSUME NEW a \in Actions, input[g] = <<GetRequest(a)>> PROVE HandlingInv(g)'
    <3>1. req'[g] = GetRequest(a) /\ input'[g] = <<>> /\ gpc'[g] = "get"
      BY <1>2, <2>2 DEF GetRequest
    <3>2. QED
      BY <3>1, Zenon DEF HandlingInv, Getting
  <2>3. ASSUME NEW a \in Actions, NEW o \in Outputs, Head(input[g]) = PutRequest(a, o),
               BodyLeft(a, o, Tail(input[g]))
        PROVE  HandlingInv(g)'
    <3>1. req'[g] = PutRequest(a, o) /\ gpc'[g] = "put"
      BY <1>2, <2>3 DEF PutRequest
    <3>2. BodyLeft(a, o, input[g])'
      BY <1>1, <1>2, <2>3, Zenon DEF BodyLeft
    <3>3. Putting(g)'
      BY <3>1, <3>2, Zenon DEF Putting
    <3>4. QED
      BY <3>1, <3>3, Zenon DEF HandlingInv
  <2>4. QED
    BY <1>2, <1>3, <2>1, <2>2, <2>3, Zenon DEF Unread
<1>5. AnswerInv(g)'
  BY <1>2, Zenon DEF AnswerInv
<1>6. EntriesInv' /\ FilesInv'
  BY <1>1, Zenon DEF EntriesInv, FilesInv, GoInv
<1>7. QED
  BY <1>1, <1>4, <1>5, <1>6, OwnGoStep, Zenon

\* What an answer leaves.
LEMMA AnswerIs ==
  ASSUME GoInv, NEW g \in Gos, NEW a, Answer(g, a),
         \A h \in Gos \ {g} : input'[h] = input[h], DOMAIN input' = Gos
  PROVE  /\ OnlyGo(g) /\ GoDomains' /\ gpc'[g] = "idle" /\ answer'[g] = a
  BY Zenon DEF Answer, OnlyGo, GoDomains, GoInv

\* After an answer that is no hit nothing is unread.
LEMMA NoHitInv ==
  ASSUME GoInv, NEW g \in Gos, NEW a, Answer(g, a), a.kind # "hit", input'[g] = <<>>,
         \A h \in Gos \ {g} : input'[h] = input[h], DOMAIN input' = Gos,
         given \subseteq given', EntriesInv', FilesInv'
  PROVE  GoInv'
<1>1. OnlyGo(g) /\ GoDomains' /\ gpc'[g] = "idle" /\ answer'[g] = a
  BY AnswerIs, Zenon
<1>2. HandlingInv(g)'
  BY <1>1, Zenon DEF HandlingInv, Unread
<1>3. AnswerInv(g)'
  BY <1>1, Zenon DEF AnswerInv
<1>4. QED
  BY <1>1, <1>2, <1>3, OwnGoStep, Zenon

\* An action that is there leads to an output that go gave for it.
LEMMA GetActionInv ==
  ASSUME GoInv, NEW g \in Gos, GetAction(g)
  PROVE  GoInv'
<1>1. UNCHANGED <<cache, disk, given, input>> /\ gpc[g] = "get" /\ Getting(g)
  BY Zenon DEF GetAction, GoInv, HandlingInv, storeVars
<1>2. EntriesInv' /\ FilesInv' /\ DOMAIN input' = Gos /\ given \subseteq given'
  BY <1>1, Zenon DEF EntriesInv, FilesInv, GoInv, GoDomains
<1>3. PICK a \in Actions : req[g] = GetRequest(a)
  BY <1>1, Zenon DEF Getting
<1>4. ActionOf(g) = a
  BY <1>3, CodecIs DEF ActionOf, GetRequest
<1> DEFINE entry == IF live[g] THEN Get(g, GoAction(a)) ELSE None
<1>5. CASE entry = None
  <2>1. Answer(g, Miss)
    BY <1>4, <1>5, Zenon DEF GetAction
  <2>2. Miss.kind # "hit" /\ input'[g] = <<>>
    BY <1>1, Zenon DEF Miss, Getting
  <2>3. QED
    BY <1>1, <1>2, <2>1, <2>2, NoHitInv, Zenon
<1>6. CASE entry # None
  <2>1. /\ gpc' = [gpc EXCEPT ![g] = "output"] /\ found' = [found EXCEPT ![g] = entry]
        /\ UNCHANGED <<req, answer>>
    BY <1>4, <1>6, Zenon DEF GetAction
  <2>2. PICK o \in Outputs : entry = OutputId(o) /\ <<a, o>> \in given
    BY <1>6, Zenon DEF Get, GoInv, EntriesInv
  <2>3. OnlyGo(g) /\ GoDomains' /\ gpc'[g] = "output" /\ found'[g] = OutputId(o) /\ req'[g] = GetRequest(a)
    BY <1>1, <1>3, <2>1, <2>2, Zenon DEF OnlyGo, GoDomains, GoInv
  <2>4. HandlingInv(g)'
    BY <1>1, <2>2, <2>3, Zenon DEF HandlingInv, Finding, Getting
  <2>5. AnswerInv(g)'
    BY <1>1, <2>1, Zenon DEF AnswerInv, GoInv
  <2>6. QED
    BY <1>2, <2>3, <2>4, <2>5, OwnGoStep, Zenon
<1>7. QED
  BY <1>5, <1>6, Zenon

\* A hit: the file is of the output that the action led to.
LEMMA GetOutputInv ==
  ASSUME GoInv, NEW g \in Gos, GetOutput(g)
  PROVE  GoInv'
<1>1. UNCHANGED <<cache, given, input>> /\ gpc[g] = "output" /\ Finding(g)
  BY Zenon DEF GetOutput, GoInv, HandlingInv
<1>2. EntriesInv' /\ DOMAIN input' = Gos /\ given \subseteq given'
  BY <1>1, Zenon DEF EntriesInv, GoInv, GoDomains
<1>3. PICK a \in Actions, o \in Outputs :
        input[g] = <<>> /\ req[g] = GetRequest(a) /\ found[g] = OutputId(o) /\ <<a, o>> \in given
  BY <1>1, Zenon DEF Finding
<1>4. ActionOf(g) = a /\ Base64Encode(found[g]) = RFC4648(OutputId(o))
  BY <1>3, CodecIs DEF ActionOf, GetRequest
<1> DEFINE body == Get(g, GoOutput(found[g]))
<1>5. CASE body = None
  <2>1. Answer(g, Miss) /\ UNCHANGED disk
    BY <1>5, Zenon DEF GetOutput
  <2>2. Miss.kind # "hit" /\ input'[g] = <<>>
    BY <1>1, <1>3, Zenon DEF Miss
  <2>3. FilesInv'
    BY <2>1, SameFiles, Zenon DEF GoInv
  <2>4. QED
    BY <1>1, <1>2, <2>1, <2>2, <2>3, NoHitInv, Zenon
<1>6. CASE body # None
  <2>1. body = o
    BY <1>3, <1>6, Zenon DEF Get, GoInv, EntriesInv
  <2> DEFINE hit == [kind |-> "hit", action |-> a, id |-> RFC4648(OutputId(o)), size |-> Len(o), path |-> OutputId(o)]
  <2>2. /\ IF found[g] \in DOMAIN disk[DiskOf[g]] THEN UNCHANGED <<disk, faults>>
           ELSE Write(DiskOf[g], found[g], body)
        /\ Answer(g, [kind |-> "hit", action |-> ActionOf(g), id |-> Base64Encode(found[g]),
                       size |-> Len(body), path |-> found[g]])
    BY <1>6, Zenon DEF GetOutput
  <2>3. Answer(g, hit)
    BY <1>3, <1>4, <2>1, <2>2, Zenon
  <2>4. FilesInv'
    BY <1>3, <2>1, <2>2, SameFiles, FileWritten, Zenon DEF GoInv
  <2> HIDE DEF hit
  <2>5. OnlyGo(g) /\ GoDomains' /\ gpc'[g] = "idle" /\ answer'[g] = hit
    BY <1>1, <1>2, <2>3, AnswerIs, Zenon
  <2>6. HandlingInv(g)'
    BY <1>1, <1>3, <2>5, Zenon DEF HandlingInv, Unread
  <2>7. AnswerInv(g)'
    <3>1. /\ <<hit.action, o>> \in given' /\ hit.id = RFC4648(OutputId(o))
          /\ hit.path = OutputId(o) /\ hit.size = Len(o)
      BY <1>1, <1>3, Zenon DEF hit
    <3>2. QED
      BY <2>5, <3>1, Zenon DEF AnswerInv
  <2>8. QED
    BY <1>2, <2>4, <2>5, <2>6, <2>7, OwnGoStep, Zenon
<1>7. QED
  BY <1>5, <1>6, Zenon

\* Only a whole body is stored, under the id of the output.
LEMMA PutBodyInv ==
  ASSUME GoInv, NEW g \in Gos, PutBody(g)
  PROVE  GoInv'
<1>1. /\ UNCHANGED given /\ gpc[g] = "put" /\ Putting(g)
      /\ input' = [input EXCEPT ![g] = IF req[g].size = 0 \/ @ = <<>> THEN @ ELSE Tail(@)]
  BY Zenon DEF PutBody, GoInv, HandlingInv
<1>2. PICK a \in Actions, o \in Outputs : req[g] = PutRequest(a, o) /\ BodyLeft(a, o, input[g])
  BY <1>1, Zenon DEF Putting
<1>3. req[g].size = Len(o) /\ Base64Decode(req[g].output) = OutputId(o)
  BY <1>2, CodecIs DEF PutRequest
<1>4. o \in Seq(0..255) /\ Len(o) \in Nat /\ (Len(o) = 0 <=> o = <<>>)
  BY CodecIs
<1>5. input'[g] = <<>>
  <2>1. input'[g] = IF Len(o) = 0 \/ input[g] = <<>> THEN input[g] ELSE Tail(input[g])
    BY <1>1, <1>3, Zenon DEF GoInv, GoDomains
  <2>2. CASE o = <<>>
    BY <1>2, <1>4, <2>1, <2>2, Zenon DEF BodyLeft
  <2>3. CASE o # <<>> /\ input[g] = <<>>
    BY <2>1, <2>3, Zenon
  <2>4. CASE o # <<>> /\ input[g] # <<>>
    <3>1. PICK line : input[g] = <<line>>
      BY <1>2, <2>4, Zenon DEF BodyLeft
    <3>2. QED
      BY <1>4, <2>1, <2>4, <3>1
  <2>5. QED
    BY <2>2, <2>3, <2>4, Zenon
<1>6. (\A h \in Gos \ {g} : input'[h] = input[h]) /\ DOMAIN input' = Gos /\ given \subseteq given'
  BY <1>1, Zenon DEF GoInv, GoDomains
<1>7. CASE Torn(g)
  <2> DEFINE err == [kind |-> "err"]
  <2>1. Answer(g, err) /\ UNCHANGED <<cache, disk>>
    BY <1>7, Zenon DEF PutBody
  <2>2. EntriesInv' /\ FilesInv'
    BY <1>1, <2>1, Zenon DEF EntriesInv, FilesInv, GoInv
  <2>3. err.kind # "hit"
    OBVIOUS
  <2> HIDE DEF err
  <2>4. QED
    BY <1>5, <1>6, <2>1, <2>2, <2>3, NoHitInv, Zenon
<1>8. CASE ~Torn(g)
  <2>1. <<a, o>> \in given /\ (IF req[g].size = 0 THEN <<>> ELSE Body(g)) = o
    <3>1. CASE o = <<>>
      BY <1>2, <1>3, <1>4, <3>1, Zenon DEF BodyLeft
    <3>2. CASE o # <<>>
      <4>1. Body(g) = o /\ <<a, o>> \in given
        BY <1>2, <1>3, <1>8, <3>2, BodyIs, Zenon
      <4>2. QED
        BY <1>3, <1>4, <3>2, <4>1, Zenon
    <3>3. QED
      BY <3>1, <3>2, Zenon
  <2>2. /\ Write(DiskOf[g], OutputId(o), o)
        /\ IF live[g] THEN Put(g, GoOutput(OutputId(o)), o) ELSE UNCHANGED cache
        /\ gpc' = [gpc EXCEPT ![g] = "action"] /\ UNCHANGED <<req, found, answer>>
    BY <1>3, <1>8, <2>1, Zenon DEF PutBody
  <2>3. FilesInv'
    BY <2>2, FileWritten, Zenon DEF GoInv
  <2>4. EntriesInv'
    <3>1. CASE live[g]
      BY <1>6, <2>2, <3>1, OutputPut, Zenon DEF GoInv
    <3>2. CASE ~live[g]
      BY <1>1, <2>2, <3>2, Zenon DEF GoInv, EntriesInv
    <3>3. QED
      BY <3>1, <3>2, Zenon
  <2>5. OnlyGo(g) /\ GoDomains' /\ gpc'[g] = "action" /\ req'[g] = PutRequest(a, o) /\ answer'[g] = answer[g]
    BY <1>2, <1>6, <2>2, Zenon DEF OnlyGo, GoDomains, GoInv
  <2>6. HandlingInv(g)'
    BY <1>1, <1>5, <2>1, <2>5, Zenon DEF HandlingInv, Storing
  <2>7. AnswerInv(g)'
    BY <1>1, <2>5, Zenon DEF AnswerInv, GoInv
  <2>8. QED
    BY <1>6, <2>3, <2>4, <2>5, <2>6, <2>7, OwnGoStep, Zenon
<1>9. QED
  BY <1>7, <1>8, Zenon

\* The action, after its output.
LEMMA PutActionInv ==
  ASSUME GoInv, NEW g \in Gos, PutAction(g)
  PROVE  GoInv'
<1>1. UNCHANGED <<given, disk, input>> /\ gpc[g] = "action" /\ Storing(g)
  BY Zenon DEF PutAction, GoInv, HandlingInv
<1>2. PICK a \in Actions, o \in Outputs : req[g] = PutRequest(a, o) /\ <<a, o>> \in given
  BY <1>1, Zenon DEF Storing
<1>3. ActionOf(g) = a /\ Base64Decode(req[g].output) = OutputId(o)
  BY <1>2, CodecIs DEF ActionOf, PutRequest
<1>4. EntriesInv'
  <2>1. IF live[g] THEN Put(g, GoAction(a), OutputId(o)) ELSE UNCHANGED cache
    BY <1>3, Zenon DEF PutAction
  <2>2. CASE live[g]
    BY <1>1, <1>2, <2>1, <2>2, ActionPut, Zenon DEF GoInv
  <2>3. CASE ~live[g]
    BY <1>1, <2>1, <2>3, Zenon DEF GoInv, EntriesInv
  <2>4. QED
    BY <2>2, <2>3, Zenon
<1>5. FilesInv' /\ input'[g] = <<>> /\ DOMAIN input' = Gos /\ given \subseteq given'
  BY <1>1, SameFiles, Zenon DEF GoInv, GoDomains, Storing
<1> DEFINE stored == [kind |-> "put", path |-> Base64Decode(req[g].output)]
<1>6. Answer(g, stored) /\ stored.kind # "hit"
  BY Zenon DEF PutAction
<1> HIDE DEF stored
<1>7. QED
  BY <1>1, <1>4, <1>5, <1>6, NoHitInv, Zenon

\* What happens elsewhere takes entries away at most.
LEMMA GoElsewhereInv ==
  ASSUME GoInv, GoElsewhere
  PROVE  GoInv'
<1>1. UNCHANGED <<gpc, input, req, found, disk, answer, given>>
  BY Zenon DEF GoElsewhere, goVars
<1>2. EntriesInv'
  BY <1>1, SameEntries, Zenon DEF GoInv, GoElsewhere
<1>3. FilesInv' /\ GoDomains'
  BY <1>1, SameFiles, Zenon DEF GoInv, GoDomains
<1>4. \A h \in Gos : HandlingInv(h)' /\ AnswerInv(h)'
  BY <1>1, OtherGo, Zenon DEF GoInv
<1>5. QED
  BY <1>2, <1>3, <1>4, Zenon DEF GoInv

\* The invariant is inductive.
LEMMA GoNextInv == GoInv /\ [GoNext \/ GoElsewhere]_<<storeVars, goVars>> => GoInv'
<1> SUFFICES ASSUME GoInv, [GoNext \/ GoElsewhere]_<<storeVars, goVars>> PROVE GoInv'
  OBVIOUS
<1>1. ASSUME NEW g \in Gos, Break(g), UNCHANGED goVars PROVE GoElsewhere
  BY <1>1, Zenon DEF Break, GoElsewhere
<1>2. ASSUME UNCHANGED <<storeVars, goVars>> PROVE GoElsewhere
  BY <1>2, Zenon DEF storeVars, GoElsewhere
<1>3. QED
  BY <1>1, <1>2, GoSendsInv, ReadRequestInv, GetActionInv, GetOutputInv, PutBodyInv, PutActionInv,
     GoElsewhereInv, Zenon DEF GoNext, GoStep

\* go has sent nothing.
LEMMA GoInitInv == cache = <<>> /\ GoInit => GoInv
<1> SUFFICES ASSUME cache = <<>>, GoInit PROVE GoInv
  OBVIOUS
<1>1. GoDomains /\ EntriesInv /\ FilesInv
  BY DEF GoInit, GoDomains, EntriesInv, FilesInv
<1>2. \A g \in Gos : HandlingInv(g) /\ AnswerInv(g)
  BY Zenon DEF GoInit, HandlingInv, AnswerInv, Unread
<1>3. QED
  BY <1>1, <1>2, Zenon DEF GoInv

\* Every entry, every file and every answer of gocacheprog is of an output that go gave
\* whole, whatever is evicted, torn or lost.
THEOREM GoIsSound == GoSpec => []GoInv
  BY GoInitInv, GoNextInv, PTL DEF GoSpec

\* A hit is the output that go gave for that action: a torn body never "would poison the
\* action for every build" (HandlePut).
THEOREM HitsAreGiven == GoSpec => []HitsWereGiven
<1>1. GoInv => HitsWereGiven
  <2> SUFFICES ASSUME GoInv PROVE HitsWereGiven
    OBVIOUS
  <2>1. \A g \in Gos : DiskOf[g] \in DOMAIN disk
    BY Zenon DEF GoInv, FilesInv
  <2>2. QED
    BY <2>1, Zenon DEF GoInv, AnswerInv, FilesInv, HitsWereGiven
<1>2. QED
  BY <1>1, GoIsSound, PTL

----------------------------------------------------------------------------
(* The rustc cache: what holds in every state *)

Trees == RustTrees \cup {Unedited}

\* The key, the manifest and the output of a unit in a tree.
KeyIn(r, t) ==
  [stdlib |-> Std[buildOf[r]], args |-> Inv(r).keyArgs,
   externs |-> {<<e, t[e]>> : e \in Inv(r).externs}, src |-> t.src]
ManifestIn(t) == {<<"mod", t.mod>>}
MadeIn(r, t) ==
  [features |-> crate[r].features, src |-> t.src, mod |-> t.mod, rlib |-> t.rlib,
   std |-> Std[buildOf[r]], closure |-> IF crate[r].type = "lib" THEN None ELSE Closure[buildOf[r]]]
Buildable(t) == t.src \notin {None, "bad"} /\ t.mod # None /\ t.rlib # None

BlobNames == {<<"@", e>> : e \in Extensions}

\* A manifest is of some tree; an object has all files of a unit that could be cached,
\* under its own key, as they are made of some tree.
ManifestsInv ==
  \A k : <<"m/rs", k>> \in DOMAIN cache => \E t \in Trees : cache[<<"m/rs", k>>] = ManifestIn(t)
IsObject(k, m, blob) ==
  \E r \in Rustcs, t \in Trees :
    /\ Inv(r).cacheable /\ Buildable(t) /\ k = KeyIn(r, t) /\ m = ManifestIn(t)
    /\ blob = [n \in BlobNames |-> MadeIn(r, t)]
ObjectsInv == \A k, m : <<"o", k, m>> \in DOMAIN cache => IsObject(k, m, cache[<<"o", k, m>>])

\* The files of a unit are as rustc makes them.
Written(r) ==
  \A n \in Names(crate[r].stem) : n \in DOMAIN deps[buildOf[r]] /\ deps[buildOf[r]][n] = Made(r)

UnitInv(r) ==
  /\ rpc[r] \in {"lookup", "fetch", "compile", "m/rs", "o", "e"} => Inv(r).cacheable /\ key[r] = RequestKey(r)
  /\ rpc[r] = "fetch" => Valid(r, man[r]) /\ \E t \in Trees : man[r] = ManifestIn(t)
  /\ rpc[r] \in {"m/rs", "o", "e"} => ~Fails(r) /\ man[r] = Manifest(r) /\ Written(r)
  /\ result[r] = "ok" => rpc[r] = "idle" /\ ~Fails(r) /\ Written(r)

RustDomains ==
  /\ DOMAIN rpc = Rustcs /\ DOMAIN key = Rustcs /\ DOMAIN man = Rustcs /\ DOMAIN result = Rustcs
  /\ files \in [Builds -> Trees] /\ DOMAIN deps = Builds

RustInv ==
  /\ RustDomains /\ Cargo(buildOf, crate, args)
  /\ ManifestsInv /\ ObjectsInv
  /\ \A r \in Rustcs : UnitInv(r)
  /\ VariantsApart

----------------------------------------------------------------------------
(* Keys and units *)

\* What a key and a manifest tell of the tree they were made in.
LEMMA SameTree ==
  ASSUME NEW t, NEW u, NEW X, NEW Y, "rlib" \in X, "rlib" \in Y,
         {<<e, t[e]>> : e \in X} = {<<e, u[e]>> : e \in Y}
  PROVE  t.rlib = u.rlib
<1>1. <<"rlib", t["rlib"]>> \in {<<e, t[e]>> : e \in X}
  BY Zenon
<1>2. <<"rlib", t["rlib"]>> \in {<<e, u[e]>> : e \in Y}
  BY <1>1, Zenon
<1>3. PICK e \in Y : <<"rlib", t["rlib"]>> = <<e, u[e]>>
  BY <1>2, Zenon
<1>4. e = "rlib" /\ t["rlib"] = u[e]
  BY <1>3, Zenon
<1>5. t["rlib"] = u["rlib"]
  BY <1>4, Zenon
<1>6. QED
  BY <1>5, Zenon

\* What cargo passes.
LEMMA UnitIs ==
  ASSUME Cargo(buildOf, crate, args), NEW r \in Rustcs
  PROVE  /\ buildOf[r] \in Builds
         /\ Inv(r).cacheable => /\ Inv(r).stem = crate[r].stem /\ Inv(r).stem # "" /\ crate[r].type = "lib"
                                /\ ~crate[r].probe /\ "rlib" \in Inv(r).externs
         /\ \A s \in Rustcs :
              /\ r # s /\ buildOf[r] = buildOf[s] => crate[r].stem # crate[s].stem
              /\ Inv(r).cacheable /\ Inv(s).cacheable /\ Inv(r).keyArgs = Inv(s).keyArgs
                   => crate[r].features = crate[s].features
  BY Zenon DEF Cargo, Inv

\* The definitions over the tree at hand.
LEMMA AtHand ==
  ASSUME NEW r
  PROVE  /\ RequestKey(r) = KeyIn(r, View(r)) /\ Manifest(r) = ManifestIn(View(r))
         /\ Made(r) = MadeIn(r, View(r)) /\ (~Fails(r) <=> Buildable(View(r)))
<1>1. RequestKey(r) = KeyIn(r, View(r)) /\ Manifest(r) = ManifestIn(View(r)) /\ Made(r) = MadeIn(r, View(r))
  BY Zenon DEF RequestKey, KeyIn, Manifest, ManifestIn, Made, MadeIn
<1>2. ~Fails(r) <=> Buildable(View(r))
  BY Zenon DEF Fails, Buildable
<1> QED
  BY <1>1, <1>2, Zenon

\* Two units with the same key, where the manifest of one is valid for the other, are
\* made alike.
LEMMA SameMade ==
  ASSUME Cargo(buildOf, crate, args), NEW r \in Rustcs, NEW s \in Rustcs, NEW t, NEW u,
         Inv(r).cacheable, Inv(s).cacheable, KeyIn(r, t) = KeyIn(s, u), t.mod = u.mod, Buildable(t)
  PROVE  MadeIn(r, t) = MadeIn(s, u) /\ Buildable(u)
<1>1. /\ Std[buildOf[r]] = Std[buildOf[s]] /\ Inv(r).keyArgs = Inv(s).keyArgs /\ t.src = u.src
      /\ {<<e, t[e]>> : e \in Inv(r).externs} = {<<e, u[e]>> : e \in Inv(s).externs}
  <2> DEFINE X == {<<e, t[e]>> : e \in Inv(r).externs}
             Y == {<<e, u[e]>> : e \in Inv(s).externs}
  <2>1. [stdlib |-> Std[buildOf[r]], args |-> Inv(r).keyArgs, externs |-> X, src |-> t.src]
          = [stdlib |-> Std[buildOf[s]], args |-> Inv(s).keyArgs, externs |-> Y, src |-> u.src]
    BY Zenon DEF KeyIn
  <2> HIDE DEF X, Y
  <2>2. Std[buildOf[r]] = Std[buildOf[s]] /\ Inv(r).keyArgs = Inv(s).keyArgs /\ t.src = u.src /\ X = Y
    BY <2>1, Zenon
  <2>3. QED
    BY <2>2, Zenon DEF X, Y
<1>2. t.rlib = u.rlib
  BY <1>1, UnitIs, SameTree, Zenon
<1>3. crate[r].features = crate[s].features /\ crate[r].type = "lib" /\ crate[s].type = "lib"
  BY <1>1, UnitIs, Zenon
<1>4. QED
  BY <1>1, <1>2, <1>3, Zenon DEF MadeIn, Buildable

----------------------------------------------------------------------------
(* Files *)

\* A step of unit s writes no files, or some of its own as rustc would make them.
Wrote(s) ==
  \/ UNCHANGED deps
  \/ \E W :
       /\ DOMAIN W \subseteq Names(crate[s].stem) /\ \A n \in DOMAIN W : W[n] = Made(s)
       /\ deps' = [deps EXCEPT ![buildOf[s]] = Overlay(W, @)]

\* What is made stays so as long as the sources do.
LEMMA MadeKept ==
  ASSUME UNCHANGED <<unitVars, files>>, NEW r
  PROVE  /\ Made(r)' = Made(r) /\ (Fails(r)' <=> Fails(r)) /\ Inv(r)' = Inv(r) /\ View(r)' = View(r)
         /\ RequestKey(r)' = RequestKey(r) /\ Manifest(r)' = Manifest(r)
         /\ \A t : KeyIn(r, t)' = KeyIn(r, t) /\ MadeIn(r, t)' = MadeIn(r, t)
<1>1. buildOf' = buildOf /\ crate' = crate /\ args' = args /\ files' = files
  BY Zenon DEF unitVars
<1>2. Inv(r)' = Inv(r) /\ View(r)' = View(r) /\ Made(r)' = Made(r)
  BY <1>1, Zenon DEF Inv, View, Made
<1>3. RequestKey(r)' = RequestKey(r) /\ Manifest(r)' = Manifest(r)
  BY <1>1, <1>2, Zenon DEF RequestKey, Manifest
<1>4. \A t : KeyIn(r, t)' = KeyIn(r, t) /\ MadeIn(r, t)' = MadeIn(r, t)
  BY <1>1, <1>2, Zenon DEF KeyIn, MadeIn
<1>5. Fails(r)' <=> Fails(r)
  BY <1>2, Zenon DEF Fails
<1> QED
  BY <1>2, <1>3, <1>4, <1>5, Zenon

\* Names carry the stem.
LEMMA NamesAre ==
  ASSUME NEW stem, NEW n \in Names(stem)
  PROVE  n[1] = stem /\ \E e \in Extensions : n = <<stem, e>>
  BY DEF Names

\* Files of one unit are in nobody's way.
LEMMA WroteKeeps ==
  ASSUME RustInv, NEW s \in Rustcs, UNCHANGED <<unitVars, files>>, Wrote(s)
  PROVE  DOMAIN deps' = Builds /\ VariantsApart' /\ \A r \in Rustcs : Written(r) => Written(r)'
<1>0. /\ buildOf' = buildOf /\ crate' = crate /\ \A r : Made(r)' = Made(r)
  BY MadeKept, Zenon DEF unitVars
<1>1. CASE UNCHANGED deps
  <2>1. DOMAIN deps' = Builds
    BY <1>1, Zenon DEF RustInv, RustDomains
  <2>2. VariantsApart'
    BY <1>0, <1>1, Zenon DEF RustInv, VariantsApart, Builds
  <2>3. \A r \in Rustcs : Written(r) => Written(r)'
    BY <1>0, <1>1, Zenon DEF Written
  <2> QED
    BY <2>1, <2>2, <2>3, Zenon
<1>2. ASSUME NEW W, DOMAIN W \subseteq Names(crate[s].stem), \A n \in DOMAIN W : W[n] = Made(s),
             deps' = [deps EXCEPT ![buildOf[s]] = Overlay(W, @)]
      PROVE  DOMAIN deps' = Builds /\ VariantsApart' /\ \A r \in Rustcs : Written(r) => Written(r)'
  <2> DEFINE b == buildOf[s]
  <2>1. b \in Builds /\ DOMAIN deps = Builds
    BY UnitIs, Zenon DEF RustInv, RustDomains
  <2>2. /\ DOMAIN deps' = Builds /\ \A c \in Builds \ {b} : deps'[c] = deps[c]
        /\ deps'[b] = Overlay(W, deps[b])
    BY <1>2, <2>1, Zenon
  <2>3. /\ DOMAIN deps'[b] = DOMAIN W \cup DOMAIN deps[b]
        /\ \A n \in DOMAIN W : deps'[b][n] = Made(s)
        /\ \A n \in DOMAIN deps[b] \ DOMAIN W : deps'[b][n] = deps[b][n]
    BY <1>2, <2>2, Zenon DEF Overlay
  <2>4. Made(s).features = crate[s].features
    BY Zenon DEF Made
  <2>5. VariantsApart'
    <3> SUFFICES ASSUME NEW c \in Builds, NEW n \in DOMAIN deps'[c]
                 PROVE  \E r \in Rustcs : buildOf[r] = c /\ crate[r].stem = n[1]
                                         /\ deps'[c][n].features = crate[r].features
      BY <1>0, Zenon DEF VariantsApart, Builds
    <3>1. CASE c = b /\ n \in DOMAIN W
      BY <1>2, <2>3, <2>4, <3>1, NamesAre, Zenon
    <3>2. CASE ~(c = b /\ n \in DOMAIN W)
      <4>1. n \in DOMAIN deps[c] /\ deps'[c][n] = deps[c][n]
        BY <2>2, <2>3, <3>2, Zenon
      <4>2. PICK r \in Rustcs : buildOf[r] = c /\ crate[r].stem = n[1] /\ deps[c][n].features = crate[r].features
        BY <4>1, Zenon DEF RustInv, VariantsApart
      <4>3. QED
        BY <4>1, <4>2, Zenon
    <3>3. QED
      BY <3>1, <3>2, Zenon
  <2>6. ASSUME NEW r \in Rustcs, Written(r) PROVE Written(r)'
    <3> SUFFICES ASSUME NEW n \in Names(crate[r].stem)
                 PROVE  n \in DOMAIN deps'[buildOf[r]] /\ deps'[buildOf[r]][n] = Made(r)
      BY <1>0, Zenon DEF Written
    <3>1. n \in DOMAIN deps[buildOf[r]] /\ deps[buildOf[r]][n] = Made(r) /\ buildOf[r] \in Builds
      BY <2>6, UnitIs, Zenon DEF Written, RustInv
    <3>2. CASE buildOf[r] # b
      BY <2>2, <3>1, <3>2, Zenon
    <3>3. CASE r = s
      BY <2>3, <3>1, <3>3, Zenon
    <3>4. CASE buildOf[r] = b /\ r # s
      <4>1. n \notin DOMAIN W
        <5>1. n[1] = crate[r].stem /\ crate[r].stem # crate[s].stem
          BY <3>4, UnitIs, NamesAre, Zenon DEF RustInv
        <5>2. \A x \in DOMAIN W : x[1] = crate[s].stem
          BY <1>2, NamesAre, Zenon
        <5>3. QED
          BY <5>1, <5>2, Zenon
      <4>2. QED
        BY <2>3, <3>1, <3>4, <4>1, Zenon
    <3>5. QED
      BY <3>2, <3>3, <3>4, Zenon
  <2>7. QED
    BY <2>2, <2>5, <2>6, Zenon
<1>3. QED
  BY <1>1, <1>2, Zenon DEF Wrote

----------------------------------------------------------------------------
(* The steps *)

OnlyUnit(s) ==
  \A r \in Rustcs \ {s} :
    rpc'[r] = rpc[r] /\ key'[r] = key[r] /\ man'[r] = man[r] /\ result'[r] = result[r]

UnitDomains ==
  DOMAIN rpc = Rustcs /\ DOMAIN key = Rustcs /\ DOMAIN man = Rustcs /\ DOMAIN result = Rustcs

\* A unit does not notice what the others do.
LEMMA OtherUnit ==
  ASSUME NEW r \in Rustcs, UnitInv(r), UNCHANGED <<unitVars, files>>, Written(r) => Written(r)',
         rpc'[r] = rpc[r] /\ key'[r] = key[r] /\ man'[r] = man[r] /\ result'[r] = result[r]
  PROVE  UnitInv(r)'
<1>1. /\ (Fails(r)' <=> Fails(r)) /\ Inv(r)' = Inv(r) /\ View(r)' = View(r)
      /\ RequestKey(r)' = RequestKey(r) /\ Manifest(r)' = Manifest(r)
  BY MadeKept, Zenon
<1>2. Valid(r, man[r]) => Valid(r, man[r])'
  BY <1>1, Zenon DEF Valid
<1>3. QED
  BY <1>1, <1>2, Zenon DEF UnitInv, ManifestIn

\* Manifests that are there or were put.
LEMMA ManifestsKept ==
  ASSUME ManifestsInv,
         \A k : <<"m/rs", k>> \in DOMAIN cache' =>
           \/ <<"m/rs", k>> \in DOMAIN cache /\ cache'[<<"m/rs", k>>] = cache[<<"m/rs", k>>]
           \/ \E t \in Trees : cache'[<<"m/rs", k>>] = ManifestIn(t)
  PROVE  ManifestsInv'
<1> SUFFICES ASSUME NEW k, <<"m/rs", k>> \in DOMAIN cache'
             PROVE  \E t \in Trees : cache'[<<"m/rs", k>>] = ManifestIn(t)
  BY Zenon DEF ManifestsInv, ManifestIn
<1>1. CASE <<"m/rs", k>> \in DOMAIN cache /\ cache'[<<"m/rs", k>>] = cache[<<"m/rs", k>>]
  <2>1. PICK t \in Trees : cache[<<"m/rs", k>>] = ManifestIn(t)
    BY <1>1, Zenon DEF ManifestsInv
  <2>2. QED
    BY <1>1, <2>1, Zenon
<1>2. QED
  BY <1>1, Zenon

\* Objects that are there or were put.
LEMMA ObjectsKept ==
  ASSUME ObjectsInv, UNCHANGED unitVars,
         \A k, m : <<"o", k, m>> \in DOMAIN cache' =>
           \/ <<"o", k, m>> \in DOMAIN cache /\ cache'[<<"o", k, m>>] = cache[<<"o", k, m>>]
           \/ IsObject(k, m, cache'[<<"o", k, m>>])
  PROVE  ObjectsInv'
<1>1. /\ buildOf' = buildOf /\ crate' = crate /\ \A r : Inv(r)' = Inv(r)
  BY Zenon DEF unitVars, Inv
<1>2. \A r, t : KeyIn(r, t)' = KeyIn(r, t) /\ MadeIn(r, t)' = MadeIn(r, t)
  BY <1>1, Zenon DEF KeyIn, MadeIn
<1>3. ASSUME NEW k, NEW m, NEW blob, IsObject(k, m, blob) PROVE IsObject(k, m, blob)'
  <2>1. PICK r \in Rustcs, t \in Trees :
          /\ Inv(r).cacheable /\ Buildable(t) /\ k = KeyIn(r, t) /\ m = ManifestIn(t)
          /\ blob = [n \in BlobNames |-> MadeIn(r, t)]
    BY <1>3, Zenon DEF IsObject
  <2>2. /\ Inv(r)'.cacheable /\ Buildable(t) /\ k = KeyIn(r, t)' /\ m = ManifestIn(t)
        /\ blob = [n \in BlobNames |-> MadeIn(r, t)']
    BY <1>1, <1>2, <2>1, Zenon
  <2>3. QED
    BY <2>2, Zenon DEF IsObject
<1>4. QED
  <2> SUFFICES ASSUME NEW k, NEW m, <<"o", k, m>> \in DOMAIN cache'
               PROVE  IsObject(k, m, cache[<<"o", k, m>>])'
    BY Zenon DEF ObjectsInv
  <2>1. PICK blob : blob = cache'[<<"o", k, m>>] /\ IsObject(k, m, blob)
    BY Zenon DEF ObjectsInv
  <2>2. IsObject(k, m, blob)'
    BY <1>3, <2>1, Zenon
  <2>3. QED
    BY <2>1, <2>2, Zenon DEF IsObject

\* A step of s has to keep the facts of s and the entries.
LEMMA OwnUnitStep ==
  ASSUME RustInv, NEW s \in Rustcs, UNCHANGED <<unitVars, files>>, Wrote(s), OnlyUnit(s), UnitDomains',
         ManifestsInv', ObjectsInv', UnitInv(s)'
  PROVE  RustInv'
<1>1. DOMAIN deps' = Builds /\ VariantsApart' /\ \A r \in Rustcs : Written(r) => Written(r)'
  BY WroteKeeps, Zenon
<1>2. \A r \in Rustcs \ {s} : UnitInv(r)'
  BY <1>1, OtherUnit, Zenon DEF RustInv, OnlyUnit
<1>3. \A r \in Rustcs : UnitInv(r)'
  BY <1>2, Zenon
<1>4. RustDomains' /\ Cargo(buildOf, crate, args)'
  BY <1>1, Zenon DEF RustInv, RustDomains, UnitDomains, unitVars, Builds, Trees, Cargo
<1> QED
  BY <1>1, <1>3, <1>4, Zenon DEF RustInv

\* What a return leaves.
LEMMA ReturnIs ==
  ASSUME RustInv, NEW s \in Rustcs, NEW status, RustReturn(s, status)
  PROVE  OnlyUnit(s) /\ UnitDomains' /\ rpc'[s] = "idle" /\ result'[s] = status
  BY Zenon DEF RustReturn, OnlyUnit, UnitDomains, RustInv, RustDomains

\* A return that succeeds needs the files.
LEMMA ReturnKeeps ==
  ASSUME RustInv, NEW s \in Rustcs, NEW status, RustReturn(s, status), UNCHANGED <<unitVars, files>>,
         Wrote(s), ManifestsInv', ObjectsInv', status = "ok" => ~Fails(s) /\ Written(s)'
  PROVE  RustInv'
<1>1. OnlyUnit(s) /\ UnitDomains' /\ rpc'[s] = "idle" /\ result'[s] = status
  BY ReturnIs, Zenon
<1>2. Fails(s)' <=> Fails(s)
  BY MadeKept, Zenon
<1>3. UnitInv(s)'
  BY <1>1, <1>2, Zenon DEF UnitInv
<1>4. QED
  BY <1>1, <1>3, OwnUnitStep, Zenon

\* The entries are not touched.
LEMMA NoPut ==
  ASSUME RustInv, UNCHANGED <<cache, unitVars>>
  PROVE  ManifestsInv' /\ ObjectsInv'
<1>1. ManifestsInv'
  BY ManifestsKept, Zenon DEF RustInv
<1>2. ObjectsInv'
  BY ObjectsKept, Zenon DEF RustInv
<1> QED
  BY <1>1, <1>2, Zenon

\* The run of rustc.
LEMMA RustcRunsIs ==
  ASSUME RustInv, NEW s \in Rustcs, UNCHANGED <<unitVars, files>>, RustcRuns(s)
  PROVE  Wrote(s) /\ (~Fails(s) => Written(s)')
<1>1. CASE Fails(s)
  BY <1>1, Zenon DEF RustcRuns, Wrote
<1>2. CASE ~Fails(s)
  <2> DEFINE W == RustcWrites(s)
  <2>1. DOMAIN W = Names(crate[s].stem) /\ \A n \in DOMAIN W : W[n] = Made(s)
    BY Zenon DEF RustcWrites
  <2>2. deps' = [deps EXCEPT ![buildOf[s]] = Overlay(W, @)]
    BY <1>2, Zenon DEF RustcRuns
  <2> HIDE DEF W
  <2>3. Wrote(s)
    BY <2>1, <2>2, Zenon DEF Wrote
  <2>4. buildOf[s] \in DOMAIN deps
    BY UnitIs, Zenon DEF RustInv, RustDomains
  <2>5. deps'[buildOf[s]] = Overlay(W, deps[buildOf[s]])
    BY <2>2, <2>4, Zenon
  <2>6. \A n \in Names(crate[s].stem) : n \in DOMAIN deps'[buildOf[s]] /\ deps'[buildOf[s]][n] = Made(s)
    BY <2>1, <2>5, Zenon DEF Overlay
  <2>7. Made(s)' = Made(s) /\ buildOf' = buildOf /\ crate' = crate
    BY MadeKept, Zenon DEF unitVars
  <2>8. Written(s)'
    BY <2>6, <2>7, Zenon DEF Written
  <2>9. QED
    BY <2>3, <2>8, Zenon
<1>3. QED
  BY <1>1, <1>2, Zenon

\* A call asks for its own key.
LEMMA RustBeginInv ==
  ASSUME RustInv, NEW s \in Rustcs, RustBegin(s)
  PROVE  RustInv'
<1>1. UNCHANGED <<unitVars, files, deps, cache, man>> /\ rpc[s] = "idle"
  BY Zenon DEF RustBegin
<1>2. OnlyUnit(s) /\ UnitDomains' /\ result'[s] = None
  BY Zenon DEF RustBegin, OnlyUnit, UnitDomains, RustInv, RustDomains
<1>3. \/ rpc'[s] = "lookup" /\ key'[s] = RequestKey(s) /\ Inv(s).cacheable
      \/ rpc'[s] = "plain"
  BY Zenon DEF RustBegin, RustInv, RustDomains
<1>4. result'[s] # "ok"
  BY <1>2, NoneAssumption, Zenon
<1>5. RequestKey(s)' = RequestKey(s) /\ Inv(s)' = Inv(s)
  BY <1>1, MadeKept, Zenon
<1>6. UnitInv(s)'
  BY <1>3, <1>4, <1>5, Zenon DEF UnitInv
<1>7. ManifestsInv' /\ ObjectsInv' /\ Wrote(s)
  BY <1>1, NoPut, Zenon DEF Wrote
<1>8. QED
  BY <1>1, <1>2, <1>6, <1>7, OwnUnitStep, Zenon

\* Without the cache.
LEMMA RunUncachedInv ==
  ASSUME RustInv, NEW s \in Rustcs, RunUncached(s)
  PROVE  RustInv'
<1>1. UNCHANGED <<cache, unitVars, files>>
  BY Zenon DEF RunUncached
<1>2. ManifestsInv' /\ ObjectsInv'
  BY <1>1, NoPut, Zenon
<1>3. CASE crate[s].probe
  <2>1. Wrote(s) /\ RustReturn(s, "answered")
    BY <1>3, Zenon DEF RunUncached, Wrote
  <2>2. "answered" # "ok"
    OBVIOUS
  <2>3. QED
    BY <1>1, <1>2, <2>1, <2>2, ReturnKeeps, Zenon
<1>4. CASE ~crate[s].probe
  <2>1. RustcRuns(s) /\ RustReturn(s, IF Fails(s) THEN "failed" ELSE "ok")
    BY <1>4, Zenon DEF RunUncached
  <2>2. Wrote(s) /\ (~Fails(s) => Written(s)')
    BY <1>1, <2>1, RustcRunsIs, Zenon
  <2>3. (IF Fails(s) THEN "failed" ELSE "ok") = "ok" => ~Fails(s)
    OBVIOUS
  <2>4. QED
    BY <1>1, <1>2, <2>1, <2>2, <2>3, ReturnKeeps, Zenon
<1>5. QED
  BY <1>3, <1>4, Zenon

\* A manifest that is valid here.
LEMMA FindResultInv ==
  ASSUME RustInv, NEW s \in Rustcs, FindResult(s)
  PROVE  RustInv'
<1>1. /\ UNCHANGED <<cache, unitVars, files, deps, key, result>> /\ rpc[s] = "lookup"
      /\ Inv(s).cacheable /\ key[s] = RequestKey(s) /\ result[s] # "ok"
  BY Zenon DEF FindResult, RustInv, UnitInv, storeVars
<1>2. OnlyUnit(s) /\ UnitDomains' /\ (rpc'[s] = "fetch" \/ rpc'[s] = "compile")
  BY Zenon DEF FindResult, OnlyUnit, UnitDomains, RustInv, RustDomains
<1>3. rpc'[s] = "fetch" => Valid(s, man'[s]) /\ \E t \in Trees : man'[s] = ManifestIn(t)
  <2> DEFINE m == Get(s, <<"m/rs", key[s]>>)
  <2>1. CASE m # None /\ Valid(s, m)
    <3>1. man'[s] = m
      BY <2>1, Zenon DEF FindResult, RustInv, RustDomains
    <3>2. \E t \in Trees : m = ManifestIn(t)
      BY <2>1, Zenon DEF Get, RustInv, ManifestsInv
    <3>3. QED
      BY <2>1, <3>1, <3>2, Zenon
  <2>2. CASE ~(m # None /\ Valid(s, m))
    BY <2>2, Zenon DEF FindResult, RustInv, RustDomains
  <2>3. QED
    BY <2>1, <2>2, Zenon
<1>4. RequestKey(s)' = RequestKey(s) /\ Inv(s)' = Inv(s) /\ View(s)' = View(s)
  BY <1>1, MadeKept, Zenon
<1>5. rpc'[s] = "fetch" => Valid(s, man[s])'
  BY <1>3, <1>4, Zenon DEF Valid
<1>6. UnitInv(s)'
  BY <1>1, <1>2, <1>3, <1>4, <1>5, Zenon DEF UnitInv, ManifestIn
<1>7. ManifestsInv' /\ ObjectsInv' /\ Wrote(s)
  BY <1>1, NoPut, Zenon DEF Wrote
<1>8. QED
  BY <1>1, <1>2, <1>6, <1>7, OwnUnitStep, Zenon

\* The files of a blob get the names of the unit.
LEMMA UnpackedIs ==
  ASSUME NEW s, NEW v, NEW names \in SUBSET BlobNames, NEW blob, blob = [n \in BlobNames |-> v]
  PROVE  /\ DOMAIN Unpacked(s, blob, names) \subseteq Names(Inv(s).stem)
         /\ names = BlobNames => DOMAIN Unpacked(s, blob, names) = Names(Inv(s).stem)
         /\ \A n \in DOMAIN Unpacked(s, blob, names) : Unpacked(s, blob, names)[n] = v
<1> DEFINE W == Unpacked(s, blob, names)
           stem == Inv(s).stem
<1>1. \A e \in Extensions : Replace(<<"@", e>>, "@", stem) = <<stem, e>>
  BY Zenon DEF Replace
<1>2. DOMAIN W = {Replace(x, "@", stem) : x \in names}
  BY Zenon DEF Unpacked
<1>3. \A n \in DOMAIN W : W[n] = blob[CHOOSE x \in names : Replace(x, "@", stem) = n]
  BY Zenon DEF Unpacked
<1>4. \A n \in DOMAIN W : W[n] = v
  <2> SUFFICES ASSUME NEW n \in DOMAIN W PROVE W[n] = v
    BY Zenon
  <2>1. \E x \in names : Replace(x, "@", stem) = n
    BY <1>2, Zenon
  <2>2. (CHOOSE x \in names : Replace(x, "@", stem) = n) \in names
    BY <2>1, Zenon
  <2>3. PICK x \in BlobNames : W[n] = blob[x]
    BY <1>3, <2>2, Zenon
  <2>4. QED
    BY <2>3, Zenon
<1>5. DOMAIN W \subseteq Names(stem)
  <2> SUFFICES ASSUME NEW n \in DOMAIN W PROVE n \in Names(stem)
    BY Zenon
  <2>1. PICK x \in names : n = Replace(x, "@", stem)
    BY <1>2, Zenon
  <2>2. PICK e \in Extensions : x = <<"@", e>>
    BY Zenon DEF BlobNames
  <2>3. n = <<stem, e>>
    BY <1>1, <2>1, <2>2, Zenon
  <2>4. QED
    BY <2>3, Zenon DEF Names
<1>6. ASSUME names = BlobNames, NEW n \in Names(stem) PROVE n \in DOMAIN W
  <2>1. PICK e \in Extensions : n = <<stem, e>>
    BY <1>6, NamesAre, Zenon
  <2>2. <<"@", e>> \in names /\ Replace(<<"@", e>>, "@", stem) = n
    BY <1>1, <1>6, <2>1, Zenon DEF BlobNames
  <2>3. QED
    BY <1>2, <2>2, Zenon
<1>7. QED
  BY <1>4, <1>5, <1>6, Zenon

\* A replay writes what rustc would write.
LEMMA ReplayInv ==
  ASSUME RustInv, NEW s \in Rustcs, Replay(s)
  PROVE  RustInv'
<1>1. /\ UNCHANGED <<cache, unitVars, files>> /\ rpc[s] = "fetch"
      /\ Inv(s).cacheable /\ key[s] = RequestKey(s) /\ result[s] # "ok"
      /\ Valid(s, man[s]) /\ \E t \in Trees : man[s] = ManifestIn(t)
  BY Zenon DEF Replay, RustInv, UnitInv
<1>2. ManifestsInv' /\ ObjectsInv'
  BY <1>1, NoPut, Zenon
<1>3. ASSUME rpc' = [rpc EXCEPT ![s] = "compile"], UNCHANGED <<key, man, result>>, Wrote(s)
      PROVE  RustInv'
  <2>1. OnlyUnit(s) /\ UnitDomains' /\ rpc'[s] = "compile"
    BY <1>3, Zenon DEF OnlyUnit, UnitDomains, RustInv, RustDomains
  <2>2. RequestKey(s)' = RequestKey(s) /\ Inv(s)' = Inv(s)
    BY <1>1, MadeKept, Zenon
  <2>3. UnitInv(s)'
    BY <1>1, <1>3, <2>1, <2>2, Zenon DEF UnitInv
  <2>4. QED
    BY <1>1, <1>2, <1>3, <2>1, <2>3, OwnUnitStep, Zenon
<1> DEFINE blob == Get(s, <<"o", key[s], man[s]>>)
<1>4. CASE blob = None
  <2>1. rpc' = [rpc EXCEPT ![s] = "compile"] /\ UNCHANGED <<key, man, result, deps>>
    BY <1>4, Zenon DEF Replay
  <2>2. QED
    BY <1>3, <2>1, Zenon DEF Wrote
<1>5. CASE blob # None
  <2>1. IsObject(key[s], man[s], blob)
    BY <1>5, Zenon DEF Get, RustInv, ObjectsInv
  <2>2. PICK r \in Rustcs, t \in Trees :
          /\ Inv(r).cacheable /\ Buildable(t) /\ key[s] = KeyIn(r, t) /\ man[s] = ManifestIn(t)
          /\ blob = [n \in BlobNames |-> MadeIn(r, t)]
    BY <2>1, Zenon DEF IsObject
  <2>3. KeyIn(r, t) = KeyIn(s, View(s))
    BY <1>1, <2>2, AtHand, Zenon
  <2>4. t.mod = View(s).mod
    <3>1. \A l \in {<<"mod", t.mod>>} : View(s)[l[1]] = l[2]
      BY <1>1, <2>2, Zenon DEF Valid, ManifestIn
    <3>2. QED
      BY <3>1, Zenon
  <2>5. MadeIn(r, t) = MadeIn(s, View(s)) /\ Buildable(View(s))
    BY <1>1, <2>2, <2>3, <2>4, SameMade, Zenon DEF RustInv
  <2>6. MadeIn(r, t) = Made(s) /\ ~Fails(s)
    BY <2>5, AtHand, Zenon
  <2>7. blob = [n \in BlobNames |-> Made(s)]
    BY <2>2, <2>6, Zenon
  <2>8. DOMAIN blob = BlobNames
    BY <2>7, Zenon
  <2>9. PICK names \in SUBSET DOMAIN blob :
          /\ deps' = [deps EXCEPT ![buildOf[s]] = Overlay(Unpacked(s, blob, names), @)]
          /\ IF names = DOMAIN blob THEN RustReturn(s, "ok")
             ELSE rpc' = [rpc EXCEPT ![s] = "compile"] /\ UNCHANGED <<up, key, man, result>>
    BY <1>5, Zenon DEF Replay
  <2> HIDE DEF blob
  <2> DEFINE W == Unpacked(s, blob, names)
  <2>10. /\ DOMAIN W \subseteq Names(crate[s].stem) /\ \A n \in DOMAIN W : W[n] = Made(s)
         /\ names = BlobNames => DOMAIN W = Names(crate[s].stem)
    <3>1. Inv(s).stem = crate[s].stem
      BY <1>1, UnitIs, Zenon DEF RustInv
    <3>2. names \in SUBSET BlobNames
      BY <2>8, Zenon
    <3>3. /\ DOMAIN W \subseteq Names(Inv(s).stem) /\ \A n \in DOMAIN W : W[n] = Made(s)
          /\ names = BlobNames => DOMAIN W = Names(Inv(s).stem)
      <4>1. \A v : blob = [n \in BlobNames |-> v] =>
              /\ DOMAIN W \subseteq Names(Inv(s).stem) /\ \A n \in DOMAIN W : W[n] = v
              /\ names = BlobNames => DOMAIN W = Names(Inv(s).stem)
        BY <3>2, UnpackedIs, Zenon
      <4>2. QED
        BY <2>7, <4>1, Zenon
    <3> HIDE DEF W
    <3>4. QED
      BY <3>1, <3>3, Zenon
  <2> HIDE DEF W
  <2>11. deps' = [deps EXCEPT ![buildOf[s]] = Overlay(W, @)]
    BY <2>9, Zenon DEF W
  <2>12. Wrote(s)
    BY <2>10, <2>11, Zenon DEF Wrote
  <2>13. CASE names = DOMAIN blob
    <3>1. DOMAIN W = Names(crate[s].stem)
      BY <2>8, <2>10, <2>13, Zenon
    <3>2. buildOf[s] \in DOMAIN deps
      BY UnitIs, Zenon DEF RustInv, RustDomains
    <3>3. deps'[buildOf[s]] = Overlay(W, deps[buildOf[s]])
      BY <2>11, <3>2, Zenon
    <3>4. \A n \in Names(crate[s].stem) : n \in DOMAIN deps'[buildOf[s]] /\ deps'[buildOf[s]][n] = Made(s)
      BY <2>10, <3>1, <3>3, Zenon DEF Overlay
    <3>5. Made(s)' = Made(s) /\ buildOf' = buildOf /\ crate' = crate
      BY <1>1, MadeKept, Zenon DEF unitVars
    <3>6. Written(s)'
      BY <3>4, <3>5, Zenon DEF Written
    <3>7. QED
      BY <1>1, <1>2, <2>6, <2>9, <2>12, <2>13, <3>6, ReturnKeeps, Zenon
  <2>14. CASE names # DOMAIN blob
    BY <1>3, <2>9, <2>12, <2>14, Zenon
  <2>15. QED
    BY <2>13, <2>14, Zenon
<1>6. QED
  BY <1>4, <1>5, Zenon

\* A run of rustc on a miss.
LEMMA CompileInv ==
  ASSUME RustInv, NEW s \in Rustcs, Compile(s)
  PROVE  RustInv'
<1>1. /\ UNCHANGED <<cache, unitVars, files>> /\ rpc[s] = "compile"
      /\ Inv(s).cacheable /\ key[s] = RequestKey(s) /\ result[s] # "ok"
  BY Zenon DEF Compile, RustInv, UnitInv
<1>2. ManifestsInv' /\ ObjectsInv'
  BY <1>1, NoPut, Zenon
<1>3. ASSUME RustcRuns(s), Fails(s), RustReturn(s, "failed") PROVE RustInv'
  <2>1. Wrote(s) /\ "failed" # "ok"
    BY <1>1, <1>3, RustcRunsIs, Zenon
  <2>2. QED
    BY <1>1, <1>2, <1>3, <2>1, ReturnKeeps, Zenon
<1>4. ASSUME RustcRuns(s), ~Fails(s), RustReturn(s, "ok") PROVE RustInv'
  <2>1. Wrote(s) /\ Written(s)'
    BY <1>1, <1>4, RustcRunsIs, Zenon
  <2>2. QED
    BY <1>1, <1>2, <1>4, <2>1, ReturnKeeps, Zenon
<1>5. ASSUME UNCHANGED deps, RustReturn(s, "failed") PROVE RustInv'
  <2>1. Wrote(s) /\ "failed" # "ok"
    BY <1>5, Zenon DEF Wrote
  <2>2. QED
    BY <1>1, <1>2, <1>5, <2>1, ReturnKeeps, Zenon
<1>6. ASSUME RustcRuns(s), ~Fails(s), rpc' = [rpc EXCEPT ![s] = "m/rs"], man' = [man EXCEPT ![s] = Manifest(s)],
             UNCHANGED <<key, result>>
      PROVE  RustInv'
  <2>1. Wrote(s) /\ Written(s)'
    BY <1>1, <1>6, RustcRunsIs, Zenon
  <2>2. OnlyUnit(s) /\ UnitDomains' /\ rpc'[s] = "m/rs" /\ man'[s] = Manifest(s)
    BY <1>6, Zenon DEF OnlyUnit, UnitDomains, RustInv, RustDomains
  <2>3. /\ (Fails(s)' <=> Fails(s)) /\ Inv(s)' = Inv(s)
        /\ RequestKey(s)' = RequestKey(s) /\ Manifest(s)' = Manifest(s)
    BY <1>1, MadeKept, Zenon
  <2>4. UnitInv(s)'
    BY <1>1, <1>6, <2>1, <2>2, <2>3, Zenon DEF UnitInv
  <2>5. QED
    BY <1>1, <1>2, <2>1, <2>2, <2>4, OwnUnitStep, Zenon
<1>7. QED
  BY <1>3, <1>4, <1>5, <1>6, Zenon DEF Compile

\* A blob has the files that rustc made, without the stem.
LEMMA PackedIs ==
  ASSUME RustInv, NEW s \in Rustcs, Inv(s).cacheable, Written(s)
  PROVE  PackFiles(s) = [n \in BlobNames |-> Made(s)]
<1> DEFINE stem == crate[s].stem
           there == {n \in Names(stem) : n \in DOMAIN deps[buildOf[s]]}
           names == {Replace(x, stem, "@") : x \in there}
<1>1. Inv(s).stem = stem /\ stem # ""
  BY UnitIs, Zenon DEF RustInv
<1>2. there = Names(stem)
  BY Zenon DEF Written
<1>3. \A e \in Extensions : Replace(<<stem, e>>, stem, "@") = <<"@", e>>
  BY <1>1, Zenon DEF Replace
<1>4. names = BlobNames
  <2>1. ASSUME NEW x \in Names(stem) PROVE Replace(x, stem, "@") \in BlobNames
    <3>1. PICK e \in Extensions : x = <<stem, e>>
      BY <2>1, NamesAre, Zenon
    <3>2. QED
      BY <1>3, <3>1, Zenon DEF BlobNames
  <2>2. ASSUME NEW n \in BlobNames PROVE \E x \in Names(stem) : n = Replace(x, stem, "@")
    <3>1. PICK e \in Extensions : n = <<"@", e>>
      BY <2>2, Zenon DEF BlobNames
    <3>2. <<stem, e>> \in Names(stem)
      BY Zenon DEF Names
    <3>3. QED
      BY <1>3, <3>1, <3>2, Zenon
  <2>3. QED
    BY <1>2, <2>1, <2>2, Zenon
<1>5. \A n \in BlobNames : deps[buildOf[s]][<<stem, n[2]>>] = Made(s)
  <2> SUFFICES ASSUME NEW n \in BlobNames PROVE deps[buildOf[s]][<<stem, n[2]>>] = Made(s)
    BY Zenon
  <2>1. PICK e \in Extensions : n = <<"@", e>>
    BY Zenon DEF BlobNames
  <2>2. n[2] = e
    BY <2>1, Zenon
  <2>3. <<stem, e>> \in Names(stem)
    BY Zenon DEF Names
  <2>4. QED
    BY <2>2, <2>3, Zenon DEF Written
<1>6. PackFiles(s) = [n \in names |-> deps[buildOf[s]][<<stem, n[2]>>]]
  BY <1>1, Zenon DEF PackFiles
<1> HIDE DEF names, there, stem
<1>7. QED
  BY <1>4, <1>5, <1>6, Zenon

\* What a put changes.
LEMMA PutIs ==
  ASSUME NEW c, NEW k, NEW v, Put(c, k, v)
  PROVE  \/ UNCHANGED cache
         \/ /\ DOMAIN cache' = DOMAIN cache \cup {k} /\ cache'[k] = v
            /\ \A x \in DOMAIN cache \ {k} : cache'[x] = cache[x]
  BY Zenon DEF Put, Overlay

\* Manifest, object and stderr.
LEMMA PutNextInv ==
  ASSUME RustInv, NEW s \in Rustcs, PutNext(s)
  PROVE  RustInv'
<1>1. /\ UNCHANGED <<unitVars, files, deps>> /\ rpc[s] \in {"m/rs", "o", "e"}
      /\ Inv(s).cacheable /\ key[s] = RequestKey(s) /\ result[s] # "ok"
      /\ ~Fails(s) /\ man[s] = Manifest(s) /\ Written(s)
  BY Zenon DEF PutNext, RustInv, UnitInv
<1>2. Wrote(s) /\ Written(s)'
  <2>1. Wrote(s)
    BY <1>1, Zenon DEF Wrote
  <2>2. QED
    BY <1>1, <2>1, WroteKeeps, Zenon
<1>3. View(s) \in Trees
  BY <1>1, UnitIs, Zenon DEF RustInv, RustDomains, View
<1>4. /\ (Fails(s)' <=> Fails(s)) /\ Inv(s)' = Inv(s)
      /\ RequestKey(s)' = RequestKey(s) /\ Manifest(s)' = Manifest(s)
  BY <1>1, MadeKept, Zenon
<1>5. ASSUME NEW pc \in {"o", "e"}, rpc' = [rpc EXCEPT ![s] = pc], UNCHANGED <<key, man, result>>,
             ManifestsInv', ObjectsInv'
      PROVE  RustInv'
  <2>1. OnlyUnit(s) /\ UnitDomains' /\ rpc'[s] = pc
    BY <1>5, Zenon DEF OnlyUnit, UnitDomains, RustInv, RustDomains
  <2>2. UnitInv(s)'
    BY <1>1, <1>2, <1>4, <1>5, <2>1, Zenon DEF UnitInv
  <2>3. QED
    BY <1>1, <1>2, <1>5, <2>1, <2>2, OwnUnitStep, Zenon
<1>7. ASSUME NEW k, NEW v,
             \/ k = <<"m/rs", key[s]>> /\ v = man[s]
             \/ k = <<"o", key[s], man[s]>> /\ v = PackFiles(s)
             \/ k = <<"e", key[s], man[s]>>,
             DOMAIN cache' = DOMAIN cache \cup {k}, cache'[k] = v, \A x \in DOMAIN cache \ {k} : cache'[x] = cache[x]
      PROVE  ManifestsInv' /\ ObjectsInv'
  <2>1. man[s] = ManifestIn(View(s)) /\ key[s] = KeyIn(s, View(s)) /\ Made(s) = MadeIn(s, View(s)) /\ Buildable(View(s))
    BY <1>1, AtHand, Zenon
  <2>2. IsObject(key[s], man[s], PackFiles(s))
    <3>1. PackFiles(s) = [n \in BlobNames |-> MadeIn(s, View(s))]
      BY <1>1, <2>1, PackedIs, Zenon
    <3>2. QED
      BY <1>1, <1>3, <2>1, <3>1, Zenon DEF IsObject
  <2>3. \A a : <<"m/rs", a>> \in DOMAIN cache' =>
          \/ <<"m/rs", a>> \in DOMAIN cache /\ cache'[<<"m/rs", a>>] = cache[<<"m/rs", a>>]
          \/ \E t \in Trees : cache'[<<"m/rs", a>>] = ManifestIn(t)
    <3> SUFFICES ASSUME NEW a, <<"m/rs", a>> = k PROVE \E t \in Trees : cache'[<<"m/rs", a>>] = ManifestIn(t)
      BY <1>7, Zenon
    <3>1. v = man[s]
      BY <1>7, Zenon
    <3>2. QED
      BY <1>3, <1>7, <2>1, <3>1, Zenon
  <2>4. \A a, m : <<"o", a, m>> \in DOMAIN cache' =>
          \/ <<"o", a, m>> \in DOMAIN cache /\ cache'[<<"o", a, m>>] = cache[<<"o", a, m>>]
          \/ IsObject(a, m, cache'[<<"o", a, m>>])
    <3> SUFFICES ASSUME NEW a, NEW m, <<"o", a, m>> = k PROVE IsObject(a, m, cache'[<<"o", a, m>>])
      BY <1>7, Zenon
    <3>1. v = PackFiles(s) /\ a = key[s] /\ m = man[s]
      BY <1>7, Zenon
    <3>2. QED
      BY <1>7, <2>2, <3>1, Zenon
  <2>5. ManifestsInv'
    BY <2>3, ManifestsKept, Zenon DEF RustInv
  <2>6. ObjectsInv'
    BY <1>1, <2>4, ObjectsKept, Zenon DEF RustInv
  <2>7. QED
    BY <2>5, <2>6, Zenon
<1>8. ManifestsInv' /\ ObjectsInv'
  BY <1>1, <1>7, NoPut, PutIs, Zenon DEF PutNext
<1>9. "o" \in {"o", "e"} /\ "e" \in {"o", "e"}
  OBVIOUS
<1>10. QED
  BY <1>1, <1>2, <1>5, <1>8, <1>9, ReturnKeeps, Zenon DEF PutNext

\* Sources are edited between calls: no call is under way in that build, and what its
\* units have returned is forgotten.
LEMMA EditInv ==
  ASSUME RustInv, NEW b \in Builds, Edit(b)
  PROVE  RustInv'
<1>1. UNCHANGED <<cache, unitVars, rpc, deps, key, man>>
  BY Zenon DEF Edit, storeVars
<1>2. ManifestsInv' /\ ObjectsInv'
  BY <1>1, NoPut, Zenon
<1>3. RustDomains' /\ \A c \in Builds \ {b} : files'[c] = files[c]
  BY <1>1, Zenon DEF Edit, RustInv, RustDomains, Trees, Builds
<1>4. VariantsApart' /\ Cargo(buildOf, crate, args)'
  <2>1. buildOf' = buildOf /\ crate' = crate /\ args' = args /\ deps' = deps
    BY <1>1, Zenon DEF unitVars
  <2>2. VariantsApart'
    BY <2>1, Zenon DEF RustInv, VariantsApart, Builds
  <2>3. Cargo(buildOf, crate, args)'
    BY <2>1, Zenon DEF RustInv, Cargo, Builds
  <2>4. QED
    BY <2>2, <2>3, Zenon
<1>5. ASSUME NEW r \in Rustcs PROVE UnitInv(r)'
  <2>1. buildOf[r] \in Builds
    BY UnitIs, Zenon DEF RustInv
  <2>2. CASE buildOf[r] = b
    <3>1. rpc'[r] = "idle" /\ result'[r] = None
      BY <1>1, <2>2, Zenon DEF Edit
    <3>2. result'[r] # "ok"
      BY <3>1, NoneAssumption, Zenon
    <3>3. QED
      BY <3>1, <3>2, Zenon DEF UnitInv
  <2>3. CASE buildOf[r] # b
    <3>1. result'[r] = result[r] /\ UnitInv(r)
      BY <2>3, Zenon DEF Edit, RustInv
    <3>2. View(r)' = View(r) /\ Inv(r)' = Inv(r) /\ buildOf' = buildOf /\ crate' = crate
      BY <1>1, <1>3, <2>1, <2>3, Zenon DEF View, Inv, unitVars
    <3>3. Made(r)' = Made(r) /\ RequestKey(r)' = RequestKey(r) /\ Manifest(r)' = Manifest(r)
      BY <3>2, Zenon DEF Made, RequestKey, Manifest
    <3>4. (Fails(r)' <=> Fails(r)) /\ (Valid(r, man[r]) => Valid(r, man[r])') /\ (Written(r) => Written(r)')
      BY <1>1, <3>2, <3>3, Zenon DEF Fails, Valid, Written
    <3>5. QED
      BY <1>1, <3>1, <3>2, <3>3, <3>4, Zenon DEF UnitInv, ManifestIn
  <2>4. QED
    BY <2>2, <2>3, Zenon
<1>6. QED
  BY <1>2, <1>3, <1>4, <1>5, Zenon DEF RustInv

\* What happens elsewhere takes entries away at most.
LEMMA RustElsewhereInv ==
  ASSUME RustInv, RustElsewhere
  PROVE  RustInv'
<1>1. UNCHANGED <<unitVars, files, deps, rpc, key, man, result>>
  BY Zenon DEF RustElsewhere, rustVars, unitVars
<1>2. (\A k : RustKey(<<"m/rs", k>>)) /\ (\A k, m : RustKey(<<"o", k, m>>))
  BY Zenon DEF RustKey
<1>3. ManifestsInv'
  BY <1>2, ManifestsKept, Zenon DEF RustInv, RustElsewhere
<1>4. ObjectsInv'
  BY <1>1, <1>2, ObjectsKept, Zenon DEF RustInv, RustElsewhere
<1>5. RustDomains' /\ VariantsApart' /\ Cargo(buildOf, crate, args)'
  <2>1. buildOf' = buildOf /\ crate' = crate /\ args' = args /\ deps' = deps
    BY <1>1, Zenon DEF unitVars
  <2>2. VariantsApart'
    BY <2>1, Zenon DEF RustInv, VariantsApart, Builds
  <2>3. RustDomains' /\ Cargo(buildOf, crate, args)'
    BY <1>1, <2>1, Zenon DEF RustInv, RustDomains, Cargo, Builds, Trees
  <2>4. QED
    BY <2>2, <2>3, Zenon
<1>6. ASSUME NEW r \in Rustcs PROVE UnitInv(r)'
  <2>1. Made(r)' = Made(r) /\ buildOf' = buildOf /\ crate' = crate
    BY <1>1, MadeKept, Zenon DEF unitVars
  <2>2. Written(r) => Written(r)'
    BY <1>1, <2>1, Zenon DEF Written
  <2>3. QED
    BY <1>1, <2>2, OtherUnit, Zenon DEF RustInv
<1>7. QED
  BY <1>3, <1>4, <1>5, <1>6, Zenon DEF RustInv

\* The invariant is inductive.
LEMMA RustNextInv == RustInv /\ [RustNext \/ RustElsewhere]_<<storeVars, rustVars>> => RustInv'
<1> SUFFICES ASSUME RustInv, [RustNext \/ RustElsewhere]_<<storeVars, rustVars>> PROVE RustInv'
  OBVIOUS
<1>1. ASSUME NEW r \in Rustcs, Break(r), UNCHANGED rustVars PROVE RustElsewhere
  BY <1>1, Zenon DEF Break, RustElsewhere
<1>2. ASSUME UNCHANGED <<storeVars, rustVars>> PROVE RustElsewhere
  BY <1>2, Zenon DEF storeVars, RustElsewhere
<1>3. QED
  BY <1>1, <1>2, RustBeginInv, RunUncachedInv, FindResultInv, ReplayInv, CompileInv, PutNextInv,
     EditInv, RustElsewhereInv, Zenon DEF RustNext, RustStep

\* No call has been made.
LEMMA RustInitInv == cache = <<>> /\ RustInit => RustInv
<1> SUFFICES ASSUME cache = <<>>, RustInit PROVE RustInv
  OBVIOUS
<1>1. Cargo(buildOf, crate, args)
  BY CargoAssumption, Zenon DEF RustInit
<1>2. RustDomains
  BY Zenon DEF RustInit, RustDomains, Trees
<1>3. DOMAIN cache = {} /\ \A b \in Builds : DOMAIN deps[b] = {}
  BY DEF RustInit
<1>4. ManifestsInv /\ ObjectsInv /\ VariantsApart
  BY <1>3, Zenon DEF ManifestsInv, ObjectsInv, VariantsApart
<1>5. ASSUME NEW r \in Rustcs PROVE UnitInv(r)
  <2>1. rpc[r] = "idle" /\ result[r] = None
    BY Zenon DEF RustInit
  <2>2. result[r] # "ok"
    BY <2>1, NoneAssumption, Zenon
  <2>3. QED
    BY <2>1, <2>2, Zenon DEF UnitInv
<1>6. QED
  BY <1>1, <1>2, <1>4, <1>5, Zenon DEF RustInv

\* The inductive invariant of the rustc cache: an object is the output of a unit that could
\* be cached, under the key and the manifest of the tree it was made in.
THEOREM RustIsSound == RustSpec => []RustInv
  BY RustInitInv, RustNextInv, PTL DEF RustSpec

\* After a call that succeeded the out-dir has the files of the unit as rustc makes them.
THEOREM UnitsAreBuilt == RustSpec => []UnitsAsBuilt
<1>1. RustInv => UnitsAsBuilt
  BY Zenon DEF RustInv, UnitInv, Written, UnitsAsBuilt
<1>2. QED
  BY <1>1, RustIsSound, PTL

\* No file of a unit carries the features of a sibling.
THEOREM VariantsStayApart == RustSpec => []VariantsApart
<1>1. RustInv => VariantsApart
  BY Zenon DEF RustInv
<1>2. QED
  BY <1>1, RustIsSound, PTL

----------------------------------------------------------------------------
(* The caches on one daemon *)

\* A step changes nothing under other prefixes than these, but what it takes away.
PutsUnder(prefixes) ==
  \A k \in DOMAIN cache' : k[1] \notin prefixes => k \in DOMAIN cache /\ cache'[k] = cache[k]

\* One Put.
LEMMA OnePut ==
  ASSUME NEW c, NEW k, NEW v, NEW prefixes, Put(c, k, v), k[1] \in prefixes
  PROVE  PutsUnder(prefixes)
  BY Zenon DEF Put, Overlay, PutsUnder

\* No Put.
LEMMA NothingPut ==
  ASSUME NEW prefixes, UNCHANGED cache
  PROVE  PutsUnder(prefixes)
  BY Zenon DEF PutsUnder

\* Keys by their prefix.
LEMMA Prefixes ==
  /\ ListingKey[1] = "build1" /\ \A h : BlobKey(h)[1] = "b"
  /\ \A x : GoAction(x)[1] = "go/a" /\ GoOutput(x)[1] = "go/o"
  /\ \A x, y : <<"m/rs", x>>[1] = "m/rs" /\ <<"o", x, y>>[1] = "o" /\ <<"e", x, y>>[1] = "e"
  BY DEF ListingKey, BlobKey, GoAction, GoOutput

\* A connection breaks.
LEMMA BreakPuts ==
  ASSUME NEW c, NEW prefixes, Break(c)
  PROVE  PutsUnder(prefixes)
  BY NothingPut, Zenon DEF Break

\* What the builds of directory trees put.
LEMMA DirPuts == DirNext => PutsUnder({"build1", "b"})
<1> SUFFICES ASSUME NEW b \in DirBuilds,
                    \/ GetListing(b) \/ RestoreBatch(b) \/ RestoreEnd(b) \/ Build(b) \/ PutVisit(b)
                    \/ UploadHas(b) \/ UploadPut(b) \/ PutListing(b) \/ Scribble(b)
                    \/ Break(b) /\ UNCHANGED dirVars
             PROVE  PutsUnder({"build1", "b"})
  BY Zenon DEF DirNext, DirStep
<1>1. CASE UploadPut(b)
  <2>1. \A k \in DOMAIN cache' :
          (k \in DOMAIN cache /\ cache'[k] = cache[k]) \/ \E h : k = BlobKey(h)
    BY <1>1, Zenon DEF UploadPut, Overlay
  <2> QED
    BY <2>1, Prefixes, Zenon DEF PutsUnder
<1>2. CASE PutListing(b)
  BY <1>2, OnePut, Prefixes, Zenon DEF PutListing
<1>3. CASE ~UploadPut(b) /\ ~PutListing(b) /\ ~Break(b)
  <2>1. UNCHANGED cache
    BY <1>3, Zenon DEF GetListing, RestoreBatch, RestoreEnd, Build, PutVisit, UploadHas, Scribble, storeVars
  <2> QED
    BY <2>1, NothingPut, Zenon
<1> QED
  BY <1>1, <1>2, <1>3, BreakPuts, Zenon

\* What gocacheprog puts.
LEMMA GoPuts == GoNext => PutsUnder({"go/a", "go/o"})
<1> SUFFICES ASSUME NEW g \in Gos,
                    \/ GoSends(g) \/ ReadRequest(g) \/ GetAction(g) \/ GetOutput(g)
                    \/ PutBody(g) \/ PutAction(g)
                    \/ Break(g) /\ UNCHANGED goVars
             PROVE  PutsUnder({"go/a", "go/o"})
  BY Zenon DEF GoNext, GoStep
<1>1. CASE PutBody(g)
  <2>1. UNCHANGED cache \/ \E x, v : Put(g, GoOutput(x), v)
    BY <1>1, Zenon DEF PutBody
  <2> QED
    BY <2>1, OnePut, NothingPut, Prefixes, Zenon
<1>2. CASE PutAction(g)
  <2>1. UNCHANGED cache \/ \E x, v : Put(g, GoAction(x), v)
    BY <1>2, Zenon DEF PutAction
  <2> QED
    BY <2>1, OnePut, NothingPut, Prefixes, Zenon
<1>3. CASE GoSends(g) \/ ReadRequest(g) \/ GetAction(g) \/ GetOutput(g)
  <2>1. UNCHANGED cache
    BY <1>3, Zenon DEF GoSends, ReadRequest, GetAction, GetOutput, storeVars
  <2> QED
    BY <2>1, NothingPut, Zenon
<1> QED
  BY <1>1, <1>2, <1>3, BreakPuts, Zenon

\* What rustcwrap puts.
LEMMA RustPuts == RustNext => PutsUnder({"m/rs", "o", "e"})
<1>1. ASSUME NEW r \in Rustcs, PutNext(r) PROVE PutsUnder({"m/rs", "o", "e"})
  <2>1. \E x, y, v : Put(r, <<"m/rs", x>>, v) \/ Put(r, <<"o", x, y>>, v) \/ Put(r, <<"e", x, y>>, v)
    BY <1>1, Zenon DEF PutNext
  <2> QED
    BY <2>1, OnePut, Prefixes, Zenon
<1>2. ASSUME NEW r \in Rustcs,
             RustBegin(r) \/ RunUncached(r) \/ FindResult(r) \/ Replay(r) \/ Compile(r)
      PROVE  UNCHANGED cache
  BY <1>2, Zenon DEF RustBegin, RunUncached, FindResult, Replay, Compile, storeVars
<1>3. ASSUME NEW b \in Builds, Edit(b) PROVE UNCHANGED cache
  BY <1>3, Zenon DEF Edit, storeVars
<1> QED
  BY <1>1, <1>2, <1>3, NothingPut, BreakPuts, Zenon DEF RustNext, RustStep

\* The daemon forgets.
LEMMA EvictPuts == Evict => PutsUnder({})
  BY Zenon DEF Evict, PutsUnder

\* The caches that share a daemon do not meet in it: what each of them sees of the others
\* is what its own specification allows for (keys.h: prefixes of their own).
THEOREM CachesStayApart == Spec => DirSpec /\ GoSpec /\ RustSpec /\ IdentSpec
<1>1. Init => /\ cache = <<>> /\ DirInit /\ GoInit /\ RustInit /\ IdentInit
  BY Zenon DEF Init
<1>2. /\ Dir => DirNext /\ UNCHANGED <<goVars, rustVars, identVars>>
      /\ Go => GoNext /\ UNCHANGED <<dirVars, rustVars, identVars>>
      /\ Rust => RustNext /\ UNCHANGED <<dirVars, goVars, identVars>>
      /\ Ids => IdentNext /\ UNCHANGED <<storeVars, dirVars, goVars, rustVars>>
      /\ Forget => Evict /\ UNCHANGED <<dirVars, goVars, rustVars, identVars>>
  BY Zenon DEF Dir, Go, Rust, Ids, Forget, DirNext, GoNext, RustNext, IdentNext
<1>3. Next => Dir \/ Go \/ Rust \/ Ids \/ Forget
  BY Zenon DEF Next
<1>4. [Next]_vars => [DirNext \/ Elsewhere]_<<storeVars, dirVars>>
  <2> SUFFICES ASSUME Next, ~DirNext, ~UNCHANGED <<storeVars, dirVars>> PROVE Elsewhere
    BY Zenon DEF vars
  <2>1. UNCHANGED dirVars /\ (GoNext \/ RustNext \/ Evict)
    BY <1>2, <1>3, Zenon
  <2>2. ASSUME NEW k, DirKey(k) PROVE k[1] \notin {"go/a", "go/o", "m/rs", "o", "e"}
    <3>1. k[1] = "build1" \/ k[1] = "b"
      BY <2>2, Prefixes, Zenon DEF DirKey
    <3> QED
      BY <3>1
  <2> QED
    BY <2>1, <2>2, GoPuts, RustPuts, EvictPuts, Zenon DEF Elsewhere, PutsUnder
<1>5. [Next]_vars => [GoNext \/ GoElsewhere]_<<storeVars, goVars>>
  <2> SUFFICES ASSUME Next, ~GoNext, ~UNCHANGED <<storeVars, goVars>> PROVE GoElsewhere
    BY Zenon DEF vars
  <2>1. UNCHANGED goVars /\ (DirNext \/ RustNext \/ Evict)
    BY <1>2, <1>3, Zenon
  <2>2. ASSUME NEW k, GoKey(k) PROVE k[1] \notin {"build1", "b", "m/rs", "o", "e"}
    BY <2>2 DEF GoKey
  <2> QED
    BY <2>1, <2>2, DirPuts, RustPuts, EvictPuts, Zenon DEF GoElsewhere, PutsUnder
<1>6. [Next]_vars => [RustNext \/ RustElsewhere]_<<storeVars, rustVars>>
  <2> SUFFICES ASSUME Next, ~RustNext, ~UNCHANGED <<storeVars, rustVars>> PROVE RustElsewhere
    BY Zenon DEF vars
  <2>1. UNCHANGED rustVars /\ (DirNext \/ GoNext \/ Evict)
    BY <1>2, <1>3, Zenon
  <2>2. ASSUME NEW k, RustKey(k) PROVE k[1] \notin {"build1", "b", "go/a", "go/o"}
    BY <2>2 DEF RustKey
  <2> QED
    BY <2>1, <2>2, DirPuts, GoPuts, EvictPuts, Zenon DEF RustElsewhere, PutsUnder
<1>7. [Next]_vars => [IdentNext]_identVars
  BY <1>2, <1>3, Zenon DEF vars
<1> QED
  BY <1>1, <1>4, <1>5, <1>6, <1>7, PTL DEF Spec, DirSpec, GoSpec, RustSpec, IdentSpec

\* On one daemon with all the others, go gets what it gave, and cargo what rustc makes.
THEOREM ToolCachesAreSound == Spec => [](HitsWereGiven /\ UnitsAsBuilt /\ VariantsApart)
  BY CachesStayApart, HitsAreGiven, UnitsAreBuilt, VariantsStayApart, PTL

=============================================================================
