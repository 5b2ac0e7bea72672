-------------------------------- MODULE Wire --------------------------------
(***************************************************************************)
(* One connection between jig and jigd (pkgs/ji/jig/src/cache_client.cc,   *)
(* serve in pkgs/ji/jigd/src/main.go): the client writes all questions of  *)
(* an operation, then reads all answers.  Both directions are bounded      *)
(* queues of units; a unit is a request line or a part of a value.  An     *)
(* operation is [op, keys], with op one of GET, HAS, PUT and IDS.          *)
(***************************************************************************)
EXTENDS Integers, Sequences

CONSTANTS
  Plans,      \* the operations of a process, in order
  Keys,
  Sizes,      \* the wire sizes of stored values
  kMaxObjectSize,
  UpCap, InCap, DownCap   \* socket, bufio.Reader, socket

Operations == [op : {"GET", "HAS", "PUT", "IDS"}, keys : Seq(Keys) \ {<<>>}]

\* The client asks for something (the functions of CacheClient return at once for an
\* empty list), a value on the wire has a header, and what the socket holds, and so what
\* Fill reads at once, is less than an object that is too large.
ASSUME WireAssumption ==
  /\ \A p \in Plans : p \in Seq(Operations)
  /\ Sizes \subseteq Nat \ {0}
  /\ kMaxObjectSize \in Nat
  /\ UpCap \in Nat \ {0} /\ InCap \in Nat \ {0} /\ DownCap \in Nat \ {0}
  /\ DownCap <= kMaxObjectSize + 1

Questions(o) == [i \in DOMAIN o.keys |-> [line |-> o.op, key |-> o.keys[i]]]

\* What an operation writes: a PUT's value follows its line, IDS begins with a count.
Units(o) ==
  CASE o.op = "PUT" -> [n \in 1..2 * Len(o.keys) |->
                          [line |-> IF n % 2 = 1 THEN "PUT" ELSE "value", key |-> o.keys[(n + 1) \div 2]]]
    [] o.op = "IDS" -> <<[line |-> "count", key |-> Len(o.keys)]>> \o Questions(o)
    [] OTHER -> Questions(o)

None == [hit |-> FALSE, key |-> "", size |-> 0, sound |-> TRUE]

VARIABLES
  todo,       \* operations to come, the first under way
  cpc,        \* "send", "recv", "done"
  sent,       \* units of the operation written
  fd,         \* the client's descriptor is valid
  pending,    \* what the client has read and not looked at
  need,       \* units of the value under way still to come
  value,      \* that value
  res,        \* results so far
  upq, inq, reply, downq,
  serving,    \* the daemon still serves the connection
  store,      \* what the store has: for each key a value or None
  answers     \* what the daemon answered to this operation, in order

clientVars == <<todo, cpc, sent, fd, pending, need, value, res>>
serverVars == <<inq, reply, serving, store, answers>>
wireVars == <<clientVars, serverVars, upq, downq>>

Values == {None} \cup [hit : {TRUE}, key : Keys, size : Sizes, sound : BOOLEAN]

WireInit ==
  /\ todo \in Plans
  /\ cpc = "send" /\ sent = 0 /\ fd = TRUE /\ pending = <<>> /\ need = 0 /\ value = None /\ res = <<>>
  /\ upq = <<>> /\ inq = <<>> /\ reply = <<>> /\ downq = <<>> /\ serving = TRUE /\ answers = <<>>
  /\ store \in [Keys -> Values]
  /\ \A k \in Keys : store[k].hit => store[k].key = k

op == Head(todo)

----------------------------------------------------------------------------
(* The client *)

\* The operation returns, with r.
Return(r) ==
  /\ cpc' = "done" /\ res' = r /\ need' = 0 /\ value' = None
  /\ UNCHANGED <<todo, sent>>

\* The caller goes on to its next operation.
Begin ==
  /\ todo # <<>> /\ cpc = "done"
  /\ todo' = Tail(todo) /\ cpc' = "send" /\ sent' = 0 /\ res' = <<>> /\ answers' = <<>>
  /\ UNCHANGED <<fd, pending, need, value, inq, reply, serving, store, upq, downq>>

\* What is left of the results after a failure: misses; nothing at all for IDS.
Misses == IF op.op \in {"IDS", "PUT"} THEN <<>> ELSE [i \in DOMAIN op.keys |-> None]

\* SendAll writes; it blocks while the socket is full.
Send ==
  /\ todo # <<>> /\ cpc = "send" /\ fd /\ serving
  /\ sent < Len(Units(op)) /\ Len(upq) < UpCap
  /\ upq' = Append(upq, Units(op)[sent + 1])
  /\ sent' = sent + 1
  /\ UNCHANGED <<todo, cpc, fd, pending, need, value, res, serverVars, downq>>

\* PutMany still reads the replies to what was written; others return.
SendFails ==
  /\ todo # <<>> /\ cpc = "send" /\ sent < Len(Units(op)) /\ ~(fd /\ serving)
  /\ IF fd /\ op.op = "PUT" /\ sent >= 2
     THEN cpc' = "recv" /\ UNCHANGED <<todo, sent, need, value, res>>
     ELSE Return(Misses)
  /\ UNCHANGED <<fd, pending, serverVars, upq, downq>>

AllSent ==
  /\ todo # <<>> /\ cpc = "send" /\ sent = Len(Units(op))
  /\ cpc' = "recv"
  /\ UNCHANGED <<todo, sent, fd, pending, need, value, res, serverVars, upq, downq>>

\* How many answers the operation waits for.
Awaited == IF op.op = "PUT" THEN sent \div 2 ELSE Len(op.keys)

\* Fill: what has arrived, or nothing, once the daemon has hung up.
Fill ==
  /\ todo # <<>> /\ cpc = "recv" /\ pending = <<>>
  /\ fd /\ downq # <<>>
  /\ pending' = downq /\ downq' = <<>>
  /\ UNCHANGED <<todo, cpc, sent, fd, need, value, res, serverVars, upq>>

\* Mutant of Got: a miss takes no place among the results.
GotSkipping(v) ==
  IF Len(res) + 1 = Awaited THEN Return(Append(res, v))
  ELSE res' = (IF v = None THEN res ELSE Append(res, v)) /\ need' = 0 /\ value' = None /\ UNCHANGED <<todo, cpc, sent>>

\* An answer is there: the next is read, or the operation returns.
Got(v) ==
  IF Len(res) + 1 = Awaited THEN Return(Append(res, v))
  ELSE res' = Append(res, v) /\ need' = 0 /\ value' = None /\ UNCHANGED <<todo, cpc, sent>>

\* Fill fails.
EndOfStream ==
  /\ todo # <<>> /\ cpc = "recv" /\ pending = <<>>
  /\ ~fd \/ (~serving /\ downq = <<>>)
  /\ IF op.op = "IDS" THEN Return(<<>>) ELSE Got(None)
  /\ UNCHANGED <<fd, pending, serverVars, upq, downq>>

Oversized(v) == v.size > kMaxObjectSize

\* Mutant of TooLarge: the client goes on reading the stream.
TooLargeKept(u) == UNCHANGED fd

\* The stream is lost.
TooLarge(u) == fd' = FALSE

\* RecvLine, and RecvValue's look at it.  The bytes of a value that was too large, if they
\* are read already, are taken for lines; that they read as an answer is left out.
RecvLine ==
  /\ todo # <<>> /\ cpc = "recv" /\ need = 0 /\ pending # <<>>
  /\ LET u == Head(pending)
     IN  /\ pending' = Tail(pending)
         /\ IF op.op = "GET" /\ u.line = "OK" /\ Oversized(u.v)
            THEN TooLarge(u) /\ Got(None)
            ELSE /\ UNCHANGED fd
                 /\ IF op.op = "GET" /\ u.line = "OK"
                    THEN need' = u.v.size /\ value' = u.v /\ UNCHANGED <<todo, cpc, sent, res>>
                    ELSE Got(IF op.op = "GET" \/ u.line = "bytes" THEN None ELSE u.v)
  /\ UNCHANGED <<serverVars, upq, downq>>

\* RecvExactly takes one more unit of the value; Decompress judges the whole.
RecvExactly ==
  /\ todo # <<>> /\ cpc = "recv" /\ need > 0 /\ pending # <<>>
  /\ pending' = Tail(pending)
  /\ IF need > 1 THEN need' = need - 1 /\ UNCHANGED <<todo, cpc, sent, value, res>>
     ELSE Got(IF value.sound /\ Head(pending).line = "bytes" THEN value ELSE None)
  /\ UNCHANGED <<fd, serverVars, upq, downq>>

----------------------------------------------------------------------------
(* The daemon *)

\* bufio.Reader fills when it is empty.
ServerFill ==
  /\ serving /\ inq = <<>> /\ reply = <<>> /\ upq # <<>>
  /\ \E n \in 1..InCap :
       /\ n <= Len(upq)
       /\ inq' = SubSeq(upq, 1, n) /\ upq' = SubSeq(upq, n + 1, Len(upq))
  /\ UNCHANGED <<clientVars, reply, serving, store, answers, downq>>

Line(text, v) == <<[line |-> text, v |-> v]>>
Bytes(v) == [i \in 1..v.size |-> [line |-> "bytes", v |-> v]]

\* One request, in the order of arrival: get, HAS, put with its body, ids.
Handle ==
  /\ serving /\ reply = <<>> /\ inq # <<>>
  /\ LET u == Head(inq)
         has == store[u.key]
         Reply(units, v) == reply' = units /\ answers' = Append(answers, v)
     IN  /\ inq' = Tail(inq)
         /\ CASE u.line = "GET" ->
                   /\ IF has.hit THEN Reply(Line("OK", has) \o Bytes(has), has) ELSE Reply(Line("MISS", None), None)
                   /\ UNCHANGED store
              [] u.line \in {"HAS", "IDS"} ->
                   Reply(Line(u.line, has), has) /\ UNCHANGED store
              [] u.line \in {"count", "PUT"} -> UNCHANGED <<reply, store, answers>>
              [] u.line = "value" ->
                   /\ Reply(Line("OK", None), None)
                   /\ \E n \in Sizes : store' = [store EXCEPT ![u.key] = [hit |-> TRUE, key |-> u.key, size |-> n, sound |-> TRUE]]
  /\ UNCHANGED <<clientVars, serving, upq, downq>>

ServerWrite ==
  /\ serving /\ reply # <<>> /\ Len(downq) < DownCap
  /\ downq' = Append(downq, Head(reply)) /\ reply' = Tail(reply)
  /\ UNCHANGED <<clientVars, inq, serving, store, answers, upq>>

\* Mutant of ShortValue: the daemon goes on to the next request.
ShortValueKept == reply' = <<>> /\ UNCHANGED <<inq, serving, upq>>

\* The pack ends before the value does: the daemon hangs up.
ShortValue == reply' = <<>> /\ inq' = <<>> /\ serving' = FALSE /\ upq' = <<>>

ServerShort ==
  /\ serving /\ reply # <<>> /\ Head(reply).line = "bytes"
  /\ ShortValue
  /\ UNCHANGED <<clientVars, store, answers, downq>>

\* The daemon fails at a request, or dies; what it wrote can still be read.
ServerDies ==
  /\ serving
  /\ serving' = FALSE /\ inq' = <<>> /\ reply' = <<>> /\ upq' = <<>>
  /\ UNCHANGED <<clientVars, store, answers, downq>>

Done == todo = <<>> /\ UNCHANGED wireVars

WireNext ==
  \/ Begin \/ Send \/ SendFails \/ AllSent \/ Fill \/ EndOfStream \/ RecvLine \/ RecvExactly
  \/ ServerFill \/ Handle \/ ServerWrite \/ ServerShort \/ ServerDies \/ Done

WireFairness ==
  /\ WF_wireVars(Begin \/ Send \/ SendFails \/ AllSent \/ Fill \/ EndOfStream \/ RecvLine \/ RecvExactly)
  /\ WF_wireVars(ServerFill \/ Handle \/ ServerWrite)

WireSpec == WireInit /\ [][WireNext]_wireVars /\ WireFairness

----------------------------------------------------------------------------
(* Properties *)

\* A result is a miss or the answer to that very question, whatever else failed on the
\* connection before: a value that does not decompress, one too large, a hang-up.  In
\* the end each key has its result; identities come all or not at all.
AnswersMatch ==
  /\ \A i \in DOMAIN res : res[i] # None => i \in DOMAIN answers /\ res[i] = answers[i]
  /\ cpc = "done" /\ todo # <<>> =>
       \/ op.op = "PUT"
       \/ Len(res) = Len(op.keys)
       \/ op.op = "IDS" /\ res = <<>>

\* When an operation returns, the stream holds nothing that the next could take for
\* its own answer, or it is given up.
StreamClean ==
  cpc = "done" /\ fd /\ serving => upq = <<>> /\ inq = <<>> /\ reply = <<>> /\ downq = <<>> /\ pending = <<>>

\* A value takes its line and its bytes.
AnswerSize(o, n) == IF o.op = "GET" THEN Len(o.keys) * (1 + n) ELSE Len(o.keys)

\* All questions, or all answers, fit into a socket's buffer.
Fits(o) == Len(Units(o)) <= UpCap \/ \A n \in Sizes : AnswerSize(o, n) <= DownCap

\* If either side of each operation fits, the client never waits forever, whether the
\* daemon answers, hangs up or dies.
Returns ==
  (\A i \in DOMAIN todo : Fits(todo[i])) => <>(todo = <<>>)
=============================================================================
