------------------------------ MODULE GoCache ------------------------------
(***************************************************************************)
(* GOCACHEPROG (pkgs/ji/jig/src/gocache_mode.cc): the go tool asks for an  *)
(* action, or gives the output of one, over stdin and stdout.  An action   *)
(* leads to an output id, the id to the bytes; both are cache entries, and *)
(* the bytes are also put where go can open them.  Ids and bytes travel in *)
(* base64.  A go tool that is killed leaves the last line torn.            *)
(***************************************************************************)
EXTENDS ArtifactStore

CONSTANTS
  Gos,           \* gocacheprog processes
  DiskOf,        \* GOCACHEPROG_DIR of a process
  Actions,       \* action ids
  Outputs,       \* what compilers make, sequences of bytes
  OutputId(_),   \* the id go gives to an output
  MaxRequests

VARIABLES
  gpc,
  input,    \* the lines on stdin that are not read yet
  req,      \* the request at hand
  found,    \* the output id it led to
  live,     \* whether the daemon answered at the start
  disk,     \* disk[d]: the files of a directory by output id
  answer,   \* the last line on stdout
  sent,     \* how many requests go has made
  given     \* the outputs that go has given whole, with their actions

goVars == <<gpc, input, req, found, live, disk, answer, sent, given>>

GoAction(action) == <<"go/a", action>>
GoOutput(id) == <<"go/o", id>>

----------------------------------------------------------------------------
(* Base64: a line is a sequence of sextets, of Pad and of Quote. *)

Pad == 64
Quote == 65

\* The bytes go through acc; of the bits in it, six at a time are written.
TakeOctet(s, byte) ==
  LET acc == s.acc * 256 + byte
      bits == s.bits + 8
  IN  [acc |-> acc % 2^(bits % 6), bits |-> bits % 6,
       out |-> s.out \o [i \in 1..(bits \div 6) |-> (acc \div 2^(bits - 6 * i)) % 64]]

NoBits == [acc |-> 0, bits |-> 0, out |-> <<>>]

Padded(out) == out \o [i \in 1..((4 - (Len(out) % 4)) % 4) |-> Pad]

Base64Encode(bytes) ==
  LET after[i \in 0..Len(bytes)] == IF i = 0 THEN NoBits ELSE TakeOctet(after[i - 1], bytes[i])
      s == after[Len(bytes)]
  IN  Padded(IF s.bits > 0 THEN Append(s.out, (s.acc * 2^(6 - s.bits)) % 64) ELSE s.out)

\* What is no sextet is skipped; of the bits in acc, eight at a time are written.
TakeSextet(s, chr) ==
  LET acc == s.acc * 64 + chr
      bits == s.bits + 6
  IN  IF chr >= 64 THEN s
      ELSE IF bits < 8 THEN [s EXCEPT !.acc = acc % 2^bits, !.bits = bits]
      ELSE [acc |-> acc % 2^(bits - 8), bits |-> bits - 8,
            out |-> Append(s.out, (acc \div 2^(bits - 8)) % 256)]

Base64Decode(text) ==
  LET after[i \in 0..Len(text)] == IF i = 0 THEN NoBits ELSE TakeSextet(after[i - 1], text[i])
  IN  after[Len(text)].out

\* RFC 4648, as go has it: the bytes as one number, in digits of 64.
NumberOf(bytes) ==
  LET n[i \in 0..Len(bytes)] == IF i = 0 THEN 0 ELSE n[i - 1] * 256 + bytes[i]
  IN  n[Len(bytes)]
RFC4648(bytes) ==
  LET n == (Len(bytes) * 8 + 5) \div 6
      v == NumberOf(bytes) * 2^(6 * n - 8 * Len(bytes))
  IN  [i \in 1..(4 * ((n + 3) \div 4)) |-> IF i <= n THEN (v \div 64^(n - i)) % 64 ELSE Pad]

\* What go and the code agree on: they write the same text for the bytes, which has no
\* quote, and the code reads it back.
Agreed(bytes) ==
  /\ RFC4648(bytes) \in Seq(0..Pad)
  /\ Base64Encode(bytes) = RFC4648(bytes)
  /\ Base64Decode(RFC4648(bytes)) = bytes

\* The id of an output is a hash of it, of which two outputs do not share one.
ASSUME GoAssumption ==
  /\ Outputs \subseteq Seq(0..255)
  /\ \A bytes \in Actions \cup Outputs \cup {OutputId(o) : o \in Outputs} : Agreed(bytes)
  /\ \A o, p \in Outputs : OutputId(o) = OutputId(p) => o = p

----------------------------------------------------------------------------

GoInit ==
  /\ gpc = [g \in Gos |-> "idle"]
  /\ input = [g \in Gos |-> <<>>]
  /\ req = [g \in Gos |-> None]
  /\ found = [g \in Gos |-> None]
  /\ live = [g \in Gos |-> up[g]]
  /\ disk = [d \in {DiskOf[g] : g \in Gos} |-> <<>>]
  /\ answer = [g \in Gos |-> None]
  /\ sent = [g \in Gos |-> 0]
  /\ given = {}

\* The go tool: it writes a request whole, in one write to the pipe; a body may take
\* several, of which the last ones are lost when it is killed.
BodyLine(bytes) == <<Quote>> \o RFC4648(bytes) \o <<Quote>>

GoSends(g) ==
  /\ gpc[g] = "idle" /\ input[g] = <<>> /\ sent[g] < MaxRequests
  /\ \/ \E a \in Actions :
          /\ input' = [input EXCEPT ![g] = <<[command |-> "get", action |-> RFC4648(a)]>>]
          /\ sent' = [sent EXCEPT ![g] = @ + 1]
          /\ UNCHANGED given
     \/ \E a \in Actions, o \in Outputs :
          LET r == [command |-> "put", action |-> RFC4648(a),
                    output |-> RFC4648(OutputId(o)), size |-> Len(o)]
          IN  IF o = <<>>
              THEN /\ input' = [input EXCEPT ![g] = <<r>>]
                   /\ given' = given \cup {<<a, o>>}
                   /\ sent' = [sent EXCEPT ![g] = @ + 1]
              ELSE \E n \in 0..Len(BodyLine(o)) :
                     /\ input' = [input EXCEPT ![g] = IF n = 0 THEN <<r>> ELSE <<r, SubSeq(BodyLine(o), 1, n)>>]
                     /\ given' = IF n = Len(BodyLine(o)) THEN given \cup {<<a, o>>} ELSE given
                     /\ sent' = [sent EXCEPT ![g] = IF n = Len(BodyLine(o)) THEN @ + 1 ELSE MaxRequests]
     \/ /\ input' = [input EXCEPT ![g] = <<[command |-> "close"]>>]
        /\ sent' = [sent EXCEPT ![g] = MaxRequests]
        /\ UNCHANGED given
  /\ UNCHANGED <<storeVars, gpc, req, found, live, disk, answer>>

\* RunGoCacheProg takes a line, which JsonField takes apart.
ReadRequest(g) ==
  /\ gpc[g] = "idle" /\ input[g] # <<>>
  /\ req' = [req EXCEPT ![g] = Head(input[g])]
  /\ input' = [input EXCEPT ![g] = Tail(@)]
  /\ gpc' = [gpc EXCEPT ![g] = IF Head(input[g]).command = "close" THEN "done" ELSE Head(input[g]).command]
  /\ answer' = [answer EXCEPT ![g] = None]
  /\ UNCHANGED <<storeVars, found, live, disk, sent, given>>

Answer(g, a) ==
  /\ answer' = [answer EXCEPT ![g] = a]
  /\ gpc' = [gpc EXCEPT ![g] = "idle"]
  /\ req' = [req EXCEPT ![g] = None]
  /\ found' = [found EXCEPT ![g] = None]

Miss == [kind |-> "miss"]
ActionOf(g) == Base64Decode(req[g].action)

\* HandleGet: the action ...
GetAction(g) ==
  /\ gpc[g] = "get"
  /\ LET id == IF live[g] THEN Get(g, GoAction(ActionOf(g))) ELSE None
     IN  IF id = None THEN Answer(g, Miss)
         ELSE /\ gpc' = [gpc EXCEPT ![g] = "output"]
              /\ found' = [found EXCEPT ![g] = id]
              /\ UNCHANGED <<req, answer>>
  /\ UNCHANGED <<storeVars, input, live, disk, sent, given>>

\* WriteFile, atomic under its name; it may fail, which is not looked at.
Write(d, id, body) ==
  \/ disk' = [disk EXCEPT ![d] = Overlay([x \in {id} |-> body], @)] /\ UNCHANGED faults
  \/ UNCHANGED disk /\ Faults(1)

\* ... then the output, which may be gone.
GetOutput(g) ==
  /\ gpc[g] = "output"
  /\ LET body == Get(g, GoOutput(found[g]))
     IN  IF body = None THEN Answer(g, Miss) /\ UNCHANGED <<disk, faults>>
         ELSE /\ IF found[g] \in DOMAIN disk[DiskOf[g]] THEN UNCHANGED <<disk, faults>>
                 ELSE Write(DiskOf[g], found[g], body)
              /\ Answer(g, [kind |-> "hit", action |-> ActionOf(g), id |-> Base64Encode(found[g]),
                            size |-> Len(body), path |-> found[g]])
  /\ UNCHANGED <<cache, up, input, live, sent, given>>

\* The body is what is between the quotes of the next line that is not empty.
Body(g) ==
  LET line == IF input[g] = <<>> THEN <<>> ELSE Head(input[g])
  IN  IF Len(line) >= 2 /\ line[1] = Quote /\ line[Len(line)] = Quote
      THEN Base64Decode(SubSeq(line, 2, Len(line) - 1)) ELSE <<>>

\* Mutant of Torn: a body is taken as it comes.
TornNever(g) == FALSE

\* "a killed go build leaves a torn stream"
Torn(g) == req[g].size > 0 /\ Len(Body(g)) # req[g].size

\* HandlePut: the body, the file, and one after the other the entries.
PutBody(g) ==
  /\ gpc[g] = "put"
  /\ input' = [input EXCEPT ![g] = IF req[g].size = 0 \/ @ = <<>> THEN @ ELSE Tail(@)]
  /\ LET id == Base64Decode(req[g].output)
     IN  IF Torn(g)
         THEN Answer(g, [kind |-> "err"]) /\ UNCHANGED <<cache, faults, disk>>
         ELSE /\ Write(DiskOf[g], id, IF req[g].size = 0 THEN <<>> ELSE Body(g))
              /\ IF live[g] THEN Put(g, GoOutput(id), IF req[g].size = 0 THEN <<>> ELSE Body(g))
                 ELSE UNCHANGED cache
              /\ gpc' = [gpc EXCEPT ![g] = "action"]
              /\ UNCHANGED <<req, found, answer>>
  /\ UNCHANGED <<up, live, sent, given>>

PutAction(g) ==
  /\ gpc[g] = "action"
  /\ IF live[g] THEN Put(g, GoAction(ActionOf(g)), Base64Decode(req[g].output)) ELSE UNCHANGED cache
  /\ Answer(g, [kind |-> "put", path |-> Base64Decode(req[g].output)])
  /\ UNCHANGED <<up, faults, input, live, disk, sent, given>>

GoStep(g) ==
  \/ GoSends(g) \/ ReadRequest(g) \/ GetAction(g) \/ GetOutput(g) \/ PutBody(g) \/ PutAction(g)
  \/ Break(g) /\ UNCHANGED goVars

GoNext == \E g \in Gos : GoStep(g)

\* The keys of go.
GoKey(k) == k[1] \in {"go/a", "go/o"}

\* The daemon evicts, or serves the caches of other languages, which have other keys.
GoElsewhere ==
  /\ \A k \in DOMAIN cache' : GoKey(k) => k \in DOMAIN cache /\ cache'[k] = cache[k]
  /\ UNCHANGED goVars

\* The gocacheprogs, whatever else happens to the daemon.
GoSpec == cache = <<>> /\ GoInit /\ [][GoNext \/ GoElsewhere]_<<storeVars, goVars>>

----------------------------------------------------------------------------
(* Properties *)

\* A hit names an output that go gave, whole, for that very action, with its size, and
\* the file it points to is that output: a torn body "would poison the action for every
\* build".
HitsWereGiven ==
  \A g \in Gos : answer[g] # None /\ answer[g].kind = "hit" =>
    \E o \in Outputs :
      /\ <<answer[g].action, o>> \in given
      /\ answer[g].id = RFC4648(OutputId(o)) /\ answer[g].path = OutputId(o)
      /\ answer[g].size = Len(o)
      /\ OutputId(o) \in DOMAIN disk[DiskOf[g]] => disk[DiskOf[g]][OutputId(o)] = o
=============================================================================
