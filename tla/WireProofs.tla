----------------------------- MODULE WireProofs -----------------------------
(***************************************************************************)
(* Every answer goes to its question, and an operation that returns leaves *)
(* the stream clean or given up: for any plans of operations, any values   *)
(* and any buffers.                                                        *)
(*                                                                         *)
(* WireInv is the inductive invariant.  What is on its way to the daemon   *)
(* are the next units of the operation (InOrder); what is on its way back  *)
(* are the answers that the client has not read, in order and each in one  *)
(* piece (Carried), up to the last one while the daemon serves.  A client  *)
(* that has given up its stream has only bytes of one value left           *)
(* (LostInv).                                                              *)
(***************************************************************************)
EXTENDS Wire, TLAPS

----------------------------------------------------------------------------
(* A stream that carries answers *)

\* How many units of a value follow the line of an answer.
ValueUnits(k, v) == IF k = "GET" /\ v.hit THEN v.size ELSE 0

Header(k, v) ==
  [line |-> IF k = "GET" THEN (IF v.hit THEN "OK" ELSE "MISS") ELSE IF k = "PUT" THEN "OK" ELSE k,
   v |-> v]

Part(v) == [line |-> "bytes", v |-> v]

\* The units of a stream S are units of the answers A: unit i belongs to answer a[i], and
\* l[i] units of that answer come after it.
UnitsOf(k, A, S, a, l) ==
  \A i \in 1..Len(S) :
    /\ a[i] \in 1..Len(A)
    /\ l[i] <= ValueUnits(k, A[a[i]])
    /\ S[i] = IF l[i] = ValueUnits(k, A[a[i]]) THEN Header(k, A[a[i]]) ELSE Part(A[a[i]])

\* An answer is in one piece, and the next one follows it.
Runs(S, a, l) ==
  \A i, j \in 1..Len(S) : i < j /\ j - i <= l[i] => a[j] = a[i] /\ l[j] = l[i] - (j - i)

NextOnes(k, A, S, a, l) ==
  \A i \in 1..Len(S) - 1 : l[i] = 0 => a[i + 1] = a[i] + 1 /\ l[i + 1] = ValueUnits(k, A[a[i] + 1])

\* S begins with the answer after the first r, or with the last n units of it.
Starts(k, A, r, n, S, a, l) ==
  S # <<>> => a[1] = r + 1 /\ l[1] = IF n = 0 THEN ValueUnits(k, A[r + 1]) ELSE n - 1

Follows(k, A, r, n, S, a, l) ==
  /\ a \in [1..Len(S) -> Nat] /\ l \in [1..Len(S) -> Nat]
  /\ UnitsOf(k, A, S, a, l)
  /\ Starts(k, A, r, n, S, a, l)
  /\ Runs(S, a, l)
  /\ NextOnes(k, A, S, a, l)

\* It has them to the end of the last.
Ends(A, r, n, S, a, l) ==
  IF S = <<>> THEN n = 0 /\ r = Len(A) ELSE a[Len(S)] = Len(A) /\ l[Len(S)] = 0

\* What is on S are the answers that have not been read; all of them, if full.
Carried(k, A, r, n, S, full) ==
  \E a, l : Follows(k, A, r, n, S, a, l) /\ (full => Ends(A, r, n, S, a, l))

----------------------------------------------------------------------------
(* The invariant *)

Requests ==
  [line : {"GET", "HAS", "IDS", "PUT", "value"}, key : Keys] \cup [line : {"count"}, key : Nat]

Replies == [line : {"OK", "MISS", "HAS", "IDS", "bytes"}, v : Values]

WireTypes ==
  /\ todo \in Seq(Operations)
  /\ cpc \in {"send", "recv", "done"}
  /\ sent \in Nat /\ need \in Nat /\ value \in Values
  /\ fd \in BOOLEAN /\ serving \in BOOLEAN
  /\ pending \in Seq(Replies) /\ downq \in Seq(Replies) /\ reply \in Seq(Replies)
  /\ upq \in Seq(Requests) /\ inq \in Seq(Requests)
  /\ res \in Seq(Values) /\ answers \in Seq(Values)
  /\ store \in [Keys -> Values]
  /\ Len(pending) <= DownCap /\ Len(downq) <= DownCap

\* What is on its way to the daemon, and to the client.
Asking == inq \o upq
Stream == pending \o (downq \o reply)

\* The answers to the first h units of an operation.
Asked(o, h) ==
  IF o.op = "PUT" THEN h \div 2 ELSE IF o.op = "IDS" THEN (IF h = 0 THEN 0 ELSE h - 1) ELSE h

\* How many units the daemon has taken.
Handled == sent - Len(Asking)

\* While the daemon serves, it has the first units of the operation and has answered them.
InOrder ==
  /\ Len(Asking) <= sent
  /\ \A i \in 1..Len(Asking) : Asking[i] = Units(op)[Handled + i]
  /\ Len(answers) = Asked(op, Handled)

\* An operation that can still get answers.
Going == todo # <<>> /\ cpc # "done" /\ fd /\ (serving \/ cpc = "recv" \/ sent > 0)

GoingInv ==
  /\ sent <= Len(Units(op))
  /\ cpc = "recv" => sent = Len(Units(op)) \/ (op.op = "PUT" /\ ~serving)
  /\ serving => InOrder
  /\ need > 0 => /\ op.op = "GET" /\ Len(res) + 1 <= Len(answers)
                 /\ value = answers[Len(res) + 1] /\ need <= ValueUnits("GET", value)
  /\ Carried(op.op, answers, Len(res), need, Stream, serving)

\* After a value that was too large only its own bytes are left to read.
LostInv ==
  /\ cpc = "send" => sent = 0
  /\ cpc = "recv" => op.op = "GET" /\ need = 0 /\ \A i \in DOMAIN pending : pending[i].line = "bytes"

\* What the control of both sides says.
Control ==
  /\ ~serving => upq = <<>> /\ inq = <<>> /\ reply = <<>>
  /\ cpc = "recv" => todo # <<>>
  /\ cpc # "recv" => need = 0
  /\ cpc = "send" => res = <<>>

WireInv ==
  /\ WireTypes
  /\ AnswersMatch
  /\ StreamClean
  /\ Control
  /\ Going => GoingInv
  /\ ~fd => LostInv
----------------------------------------------------------------------------
(* Lemmas about what a stream carries *)

\* The units of an answer: its line, and a value's bytes.
LEMMA ValueUnitsType ==
  ASSUME NEW k, NEW v \in Values
  PROVE  ValueUnits(k, v) \in Nat /\ (k = "GET" /\ v.hit => ValueUnits(k, v) > 0)
<1>1. CASE v = None
  BY <1>1, Zenon DEF ValueUnits, None
<1>2. CASE v \in [hit : {TRUE}, key : Keys, size : Sizes, sound : BOOLEAN]
  <2>1. v.size \in Nat \ {0} /\ v.hit = TRUE
    BY <1>2, WireAssumption, Zenon
  <2> QED BY <2>1 DEF ValueUnits
<1> QED BY <1>1, <1>2, Zenon DEF Values

\* A stream that begins where another does and ends earlier carries the same answers.
LEMMA CarriedPrefix ==
  ASSUME NEW k, NEW A, NEW r, NEW n, NEW X, NEW S \in Seq(X), NEW T \in Seq(X), NEW full,
         Carried(k, A, r, n, S, full), Len(T) <= Len(S), \A i \in 1..Len(T) : T[i] = S[i]
  PROVE  Carried(k, A, r, n, T, FALSE)
<1>1. PICK a, l : Follows(k, A, r, n, S, a, l)
  BY Zenon DEF Carried
<1> DEFINE b == [i \in 1..Len(T) |-> a[i]]
           m == [i \in 1..Len(T) |-> l[i]]
<1>2. \A i \in 1..Len(T) : i \in 1..Len(S) /\ b[i] = a[i] /\ m[i] = l[i]
  OBVIOUS
<1>3. b \in [1..Len(T) -> Nat] /\ m \in [1..Len(T) -> Nat]
  BY <1>1, <1>2, Zenon DEF Follows
<1>4. T # <<>> => S # <<>> /\ 1 \in 1..Len(T)
  OBVIOUS
<1>5. \A i \in 1..Len(T) - 1 : i \in 1..Len(T) /\ i + 1 \in 1..Len(T) /\ i \in 1..Len(S) - 1
  OBVIOUS
<1> HIDE DEF b, m
<1>6. Follows(k, A, r, n, T, b, m)
  <2>1. \A i \in 1..Len(T) :
       /\ b[i] \in 1..Len(A)
       /\ m[i] <= ValueUnits(k, A[b[i]])
       /\ T[i] = IF m[i] = ValueUnits(k, A[b[i]]) THEN Header(k, A[b[i]]) ELSE Part(A[b[i]])
    BY <1>1, <1>2, Zenon DEF Follows, UnitsOf
  <2>2. T # <<>> => b[1] = r + 1 /\ m[1] = IF n = 0 THEN ValueUnits(k, A[r + 1]) ELSE n - 1
    BY <1>1, <1>2, <1>4, Zenon DEF Follows, Starts
  <2>3. \A i, j \in 1..Len(T) : i < j /\ j - i <= m[i] => b[j] = b[i] /\ m[j] = m[i] - (j - i)
    BY <1>1, <1>2, Zenon DEF Follows, Runs
  <2>4. \A i \in 1..Len(T) - 1 : m[i] = 0 => b[i + 1] = b[i] + 1 /\ m[i + 1] = ValueUnits(k, A[b[i] + 1])
    BY <1>1, <1>2, <1>5, Zenon DEF Follows, NextOnes
  <2> QED BY <1>3, <2>1, <2>2, <2>3, <2>4, Zenon DEF Follows, UnitsOf, Starts, Runs, NextOnes
<1> QED BY <1>6, Zenon DEF Carried

\* Where no value is under way, the first unit is the line of the next answer.
LEMMA CarriedHead ==
  ASSUME NEW k, NEW A, NEW r, NEW X, NEW S \in Seq(X), NEW full, Carried(k, A, r, 0, S, full), S # <<>>
  PROVE  r + 1 \in 1..Len(A) /\ S[1] = Header(k, A[r + 1])
<1>1. PICK a, l : Follows(k, A, r, 0, S, a, l)
  BY Zenon DEF Carried
<1>2. 1 \in 1..Len(S)
  OBVIOUS
<1>3. a[1] = r + 1 /\ l[1] = ValueUnits(k, A[r + 1])
  BY <1>1, Zenon DEF Follows, Starts
<1> QED BY <1>1, <1>2, <1>3, Zenon DEF Follows, UnitsOf

\* Without its first unit, a stream carries what is left of that answer, and the rest.
LEMMA CarriedTail ==
  ASSUME NEW k, NEW A \in Seq(Values), NEW r \in Nat, NEW n \in Nat, NEW X, NEW S \in Seq(X), NEW full \in BOOLEAN,
         Carried(k, A, r, n, S, full), S # <<>>,
         NEW left \in Nat, left = IF n = 0 THEN ValueUnits(k, A[r + 1]) ELSE n - 1
  PROVE  Carried(k, A, IF left = 0 THEN r + 1 ELSE r, left, Tail(S), full)
<1>1. PICK a, l : Follows(k, A, r, n, S, a, l) /\ (full => Ends(A, r, n, S, a, l))
  BY Zenon DEF Carried
<1> DEFINE T == Tail(S)
           b == [i \in 1..Len(T) |-> a[i + 1]]
           m == [i \in 1..Len(T) |-> l[i + 1]]
           q == IF left = 0 THEN r + 1 ELSE r
<1>2. T \in Seq(X) /\ Len(T) = Len(S) - 1 /\ Len(S) \in Nat \ {0}
  OBVIOUS
<1>3. \A i \in 1..Len(T) : i + 1 \in 1..Len(S) /\ b[i] = a[i + 1] /\ m[i] = l[i + 1] /\ T[i] = S[i + 1]
  OBVIOUS
<1>4. b \in [1..Len(T) -> Nat] /\ m \in [1..Len(T) -> Nat]
  BY <1>1, <1>3, Zenon DEF Follows
<1>5. 1 \in 1..Len(S) /\ a[1] = r + 1 /\ l[1] = left
  BY <1>1, <1>2 DEF Follows, Starts
<1>6. T # <<>> => 1 \in 1..Len(T) /\ 2 \in 1..Len(S) /\ 1 \in 1..Len(S) - 1
  BY <1>2
<1> HIDE DEF b, m, T
<1>7. T # <<>> => b[1] = q + 1 /\ m[1] = IF left = 0 THEN ValueUnits(k, A[q + 1]) ELSE left - 1
  <2> SUFFICES ASSUME T # <<>>
               PROVE  b[1] = q + 1 /\ m[1] = IF left = 0 THEN ValueUnits(k, A[q + 1]) ELSE left - 1
    BY Zenon
  <2>1. b[1] = a[2] /\ m[1] = l[2]
    BY <1>3, <1>6
  <2>2. CASE left = 0
    <3>1. a[1 + 1] = a[1] + 1 /\ l[1 + 1] = ValueUnits(k, A[a[1] + 1])
      BY <1>1, <1>5, <1>6, <2>2, Zenon DEF Follows, NextOnes
    <3> QED BY <2>1, <2>2, <3>1, <1>5
  <2>3. CASE left # 0
    <3>1. 1 < 2 /\ 2 - 1 <= l[1]
      BY <1>5, <2>3
    <3>2. a[2] = a[1] /\ l[2] = l[1] - (2 - 1)
      BY <1>1, <1>5, <1>6, <3>1, Zenon DEF Follows, Runs
    <3> QED BY <2>1, <2>3, <3>2, <1>5
  <2> QED BY <2>2, <2>3, Zenon
<1>8. Follows(k, A, q, left, T, b, m)
  <2>1. \A i \in 1..Len(T) :
       /\ b[i] \in 1..Len(A)
       /\ m[i] <= ValueUnits(k, A[b[i]])
       /\ T[i] = IF m[i] = ValueUnits(k, A[b[i]]) THEN Header(k, A[b[i]]) ELSE Part(A[b[i]])
    BY <1>1, <1>3, Zenon DEF Follows, UnitsOf
  <2>2. \A i, j \in 1..Len(T) : i < j /\ j - i <= m[i] => b[j] = b[i] /\ m[j] = m[i] - (j - i)
    <3> SUFFICES ASSUME NEW i \in 1..Len(T), NEW j \in 1..Len(T), i < j, j - i <= m[i]
                 PROVE  b[j] = b[i] /\ m[j] = m[i] - (j - i)
      BY Zenon
    <3>1. i + 1 < j + 1 /\ (j + 1) - (i + 1) = j - i
      BY <1>2
    <3> QED BY <1>1, <1>3, <3>1, Zenon DEF Follows, Runs
  <2>3. \A i \in 1..Len(T) - 1 : m[i] = 0 => b[i + 1] = b[i] + 1 /\ m[i + 1] = ValueUnits(k, A[b[i] + 1])
    <3>1. \A i \in 1..Len(T) - 1 : i \in 1..Len(T) /\ i + 1 \in 1..Len(T) /\ i + 1 \in 1..Len(S) - 1
      BY <1>2
    <3> QED BY <1>1, <1>3, <3>1, Zenon DEF Follows, NextOnes
  <2> QED BY <1>4, <1>7, <2>1, <2>2, <2>3, Zenon DEF Follows, UnitsOf, Starts, Runs, NextOnes
<1>9. full => Ends(A, q, left, T, b, m)
  <2> SUFFICES ASSUME full PROVE Ends(A, q, left, T, b, m)
    BY Zenon
  <2>1. a[Len(S)] = Len(A) /\ l[Len(S)] = 0
    BY <1>1, Zenon DEF Ends
  <2>2. CASE T = <<>>
    <3>1. Len(S) = 1
      BY <1>2, <2>2
    <3> QED BY <2>1, <2>2, <3>1, <1>5, Zenon DEF Ends
  <2>3. CASE T # <<>>
    <3>1. Len(T) \in 1..Len(T) /\ Len(T) + 1 = Len(S)
      BY <1>2, <2>3
    <3> QED BY <2>1, <2>3, <3>1, <1>3, Zenon DEF Ends
  <2> QED BY <2>2, <2>3, Zenon
<1> QED BY <1>8, <1>9, Zenon DEF Carried, T

\* When all answers so far are on the stream, one more comes after them.
LEMMA CarriedAppend ==
  ASSUME NEW k, NEW A \in Seq(Values), NEW r \in Nat, NEW n \in Nat, NEW X, NEW S \in Seq(X), NEW R \in Seq(X),
         NEW v \in Values, Carried(k, A, r, n, S, TRUE), n > 0 => r < Len(A),
         Len(R) = 1 + ValueUnits(k, v), R[1] = Header(k, v), \A i \in 2..Len(R) : R[i] = Part(v)
  PROVE  Carried(k, Append(A, v), r, n, S \o R, TRUE)
<1>1. PICK a, l : Follows(k, A, r, n, S, a, l) /\ Ends(A, r, n, S, a, l)
  BY Zenon DEF Carried
<1> DEFINE B == Append(A, v)
           T == S \o R
           b == [i \in 1..Len(T) |-> IF i <= Len(S) THEN a[i] ELSE Len(A) + 1]
           m == [i \in 1..Len(T) |-> IF i <= Len(S) THEN l[i] ELSE Len(T) - i]
<1>0. ValueUnits(k, v) \in Nat
  BY ValueUnitsType, Zenon
<1>2. /\ B \in Seq(Values) /\ Len(B) = Len(A) + 1 /\ B[Len(A) + 1] = v
      /\ Len(A) \in Nat /\ Len(S) \in Nat /\ Len(T) = Len(S) + 1 + ValueUnits(k, v)
  BY <1>0
<1>3. \A i \in 1..Len(A) : B[i] = A[i] /\ i \in 1..Len(B)
  OBVIOUS
<1>4. \A i \in 1..Len(S) : i \in 1..Len(T) /\ b[i] = a[i] /\ m[i] = l[i] /\ T[i] = S[i]
  BY <1>0, <1>2
<1>5. \A i \in Len(S) + 1..Len(T) : i \in 1..Len(T) /\ b[i] = Len(A) + 1 /\ m[i] = Len(T) - i /\ T[i] = R[i - Len(S)]
  BY <1>0, <1>2
<1>6. \A i \in 1..Len(T) : i \in 1..Len(S) \/ i \in Len(S) + 1..Len(T)
  BY <1>0, <1>2
<1>7. b \in [1..Len(T) -> Nat] /\ m \in [1..Len(T) -> Nat]
  <2>1. \A i \in 1..Len(S) : a[i] \in Nat /\ l[i] \in Nat
    BY <1>1, Zenon DEF Follows
  <2>2. \A i \in Len(S) + 1..Len(T) : Len(T) - i \in Nat
    BY <1>0, <1>2
  <2> QED BY <1>2, <2>1, <2>2
<1> HIDE DEF b, m, T, B
<1>8. \A i \in 1..Len(T) :
       /\ b[i] \in 1..Len(B)
       /\ m[i] <= ValueUnits(k, B[b[i]])
       /\ T[i] = IF m[i] = ValueUnits(k, B[b[i]]) THEN Header(k, B[b[i]]) ELSE Part(B[b[i]])
  <2> TAKE i \in 1..Len(T)
  <2>1. CASE i \in 1..Len(S)
    <3>1. a[i] \in 1..Len(A) /\ b[i] = a[i] /\ B[b[i]] = A[a[i]] /\ b[i] \in 1..Len(B)
      BY <1>1, <1>3, <1>4, <2>1, Zenon DEF Follows, UnitsOf
    <3> QED BY <1>1, <1>4, <2>1, <3>1, Zenon DEF Follows, UnitsOf
  <2>2. CASE i \in Len(S) + 1..Len(T)
    <3>1. b[i] = Len(A) + 1 /\ m[i] = Len(T) - i /\ T[i] = R[i - Len(S)] /\ B[b[i]] = v
      BY <1>2, <1>5, <2>2, Zenon
    <3>2. b[i] \in 1..Len(B)
      BY <1>2, <3>1
    <3>3. m[i] <= ValueUnits(k, v) /\ (i = Len(S) + 1 <=> m[i] = ValueUnits(k, v))
      <4> DEFINE e == ValueUnits(k, v)
                 s == Len(S)
                 t == Len(T)
      <4>1. e \in Nat /\ s \in Nat /\ t = s + 1 + e /\ i \in s + 1..t /\ m[i] = t - i
        BY <1>0, <1>2, <2>2, <3>1, Zenon
      <4> HIDE DEF e, s, t
      <4>2. m[i] <= e /\ (i = s + 1 <=> m[i] = e)
        BY <4>1
      <4> QED BY <4>2, Zenon DEF e, s, t
    <3>4. i # Len(S) + 1 => i - Len(S) \in 2..Len(R)
      BY <1>0, <1>2, <2>2
    <3>5. i = Len(S) + 1 => i - Len(S) = 1
      BY <1>2
    <3> QED BY <3>1, <3>2, <3>3, <3>4, <3>5, Zenon
  <2> QED BY <1>6, <2>1, <2>2, Zenon
<1>9. T # <<>> => b[1] = r + 1 /\ m[1] = IF n = 0 THEN ValueUnits(k, B[r + 1]) ELSE n - 1
  <2>1. CASE S = <<>>
    <3>1. n = 0 /\ r = Len(A)
      BY <1>1, <2>1, Zenon DEF Ends
    <3>2. Len(S) = 0 /\ 1 \in Len(S) + 1..Len(T)
      BY <1>0, <1>2, <2>1
    <3>3. b[1] = Len(A) + 1 /\ m[1] = Len(T) - 1
      BY <1>5, <3>2, Zenon
    <3>4. Len(T) - 1 = ValueUnits(k, v)
      BY <1>0, <1>2, <3>2
    <3> QED BY <1>2, <3>1, <3>3, <3>4, Zenon
  <2>2. CASE S # <<>>
    <3>1. 1 \in 1..Len(S)
      BY <2>2
    <3>2. a[1] = r + 1 /\ a[1] \in 1..Len(A) /\ l[1] = IF n = 0 THEN ValueUnits(k, A[r + 1]) ELSE n - 1
      BY <1>1, <2>2, <3>1, Zenon DEF Follows, Starts, UnitsOf
    <3> QED BY <1>3, <1>4, <3>1, <3>2, Zenon
  <2> QED BY <2>1, <2>2, Zenon
<1>10. S # <<>> => Len(S) \in 1..Len(S) /\ a[Len(S)] = Len(A) /\ l[Len(S)] = 0
  BY <1>1 DEF Ends
<1>11. \A i, j \in 1..Len(T) : i < j /\ j - i <= m[i] => b[j] = b[i] /\ m[j] = m[i] - (j - i)
  <2> SUFFICES ASSUME NEW i \in 1..Len(T), NEW j \in 1..Len(T), i < j, j - i <= m[i]
               PROVE  b[j] = b[i] /\ m[j] = m[i] - (j - i)
    BY Zenon
  <2>1. CASE j \in 1..Len(S)
    <3>1. i \in 1..Len(S)
      BY <1>2, <2>1
    <3> QED BY <1>1, <1>4, <2>1, <3>1, Zenon DEF Follows, Runs
  <2>2. CASE i \in Len(S) + 1..Len(T)
    <3>1. j \in Len(S) + 1..Len(T)
      BY <1>2, <2>2
    <3> QED BY <1>2, <1>5, <2>2, <3>1
  <2>3. CASE i \in 1..Len(S) /\ j \in Len(S) + 1..Len(T)
    <3>1. S # <<>> /\ Len(S) \in 1..Len(S) /\ l[Len(S)] = 0
      BY <1>10, <2>3
    <3>2. m[i] = l[i] /\ l[i] \in Nat
      BY <1>1, <1>4, <2>3, Zenon DEF Follows
    <3>3. CASE i = Len(S)
      BY <1>2, <2>3, <3>1, <3>2, <3>3
    <3>4. CASE i # Len(S)
      <4>1. i < Len(S) /\ Len(S) - i <= l[i] /\ Len(S) - i < j - i
        BY <1>2, <2>3, <3>2, <3>4
      <4>2. l[Len(S)] = l[i] - (Len(S) - i)
        BY <1>1, <2>3, <3>1, <4>1, Zenon DEF Follows, Runs
      <4> QED BY <1>2, <2>3, <3>1, <3>2, <4>1, <4>2
    <3> QED BY <3>3, <3>4, Zenon
  <2> QED BY <1>6, <2>1, <2>2, <2>3, Zenon
<1>12. \A i \in 1..Len(T) - 1 : m[i] = 0 => b[i + 1] = b[i] + 1 /\ m[i + 1] = ValueUnits(k, B[b[i] + 1])
  <2> SUFFICES ASSUME NEW i \in 1..Len(T) - 1, m[i] = 0
               PROVE  b[i + 1] = b[i] + 1 /\ m[i + 1] = ValueUnits(k, B[b[i] + 1])
    BY Zenon
  <2>1. CASE i \in 1..Len(S) - 1
    <3>1. i \in 1..Len(S) /\ i + 1 \in 1..Len(S)
      BY <1>2, <2>1
    <3>2. a[i + 1] = a[i] + 1 /\ l[i + 1] = ValueUnits(k, A[a[i] + 1]) /\ a[i + 1] \in 1..Len(A)
      BY <1>1, <1>4, <2>1, <3>1, Zenon DEF Follows, NextOnes, UnitsOf
    <3> QED BY <1>3, <1>4, <3>1, <3>2, Zenon
  <2>2. CASE i = Len(S)
    <3>1. S # <<>> /\ i \in 1..Len(S) /\ i + 1 \in Len(S) + 1..Len(T)
      BY <1>2, <2>2
    <3>2. b[i] = Len(A) /\ b[i + 1] = Len(A) + 1 /\ m[i + 1] = Len(T) - (i + 1)
      BY <1>4, <1>5, <1>10, <2>2, <3>1, Zenon
    <3>3. Len(T) - (i + 1) = ValueUnits(k, v)
      BY <1>0, <1>2, <2>2
    <3> QED BY <1>2, <3>2, <3>3, Zenon
  <2>3. CASE i \in Len(S) + 1..Len(T) - 1
    <3>1. i \in Len(S) + 1..Len(T)
      BY <1>2, <2>3
    <3>2. m[i] = Len(T) - i
      BY <1>5, <3>1, Zenon
    <3> QED BY <1>0, <1>2, <2>3, <3>2
  <2>4. i \in 1..Len(S) - 1 \/ i = Len(S) \/ i \in Len(S) + 1..Len(T) - 1
    BY <1>0, <1>2
  <2> QED BY <2>1, <2>2, <2>3, <2>4, Zenon
<1>13. Follows(k, B, r, n, T, b, m)
  BY <1>7, <1>8, <1>9, <1>11, <1>12, Zenon DEF Follows, UnitsOf, Starts, Runs, NextOnes
<1>14. Ends(B, r, n, T, b, m)
  <2>1. Len(T) \in Len(S) + 1..Len(T) /\ T # <<>> /\ Len(T) - Len(T) = 0
    BY <1>0, <1>2 DEF T
  <2> QED BY <1>2, <1>5, <2>1, Zenon DEF Ends
<1> QED BY <1>13, <1>14, Zenon DEF Carried, T, B

\* The bytes of a value follow its line, as far as it goes.
LEMMA CarriedBytes ==
  ASSUME NEW k, NEW A, NEW r \in Nat, NEW X, NEW S \in Seq(X), NEW full,
         Carried(k, A, r, 0, S, full), ValueUnits(k, A[r + 1]) \in Nat,
         NEW i \in 2..Len(S), i - 1 <= ValueUnits(k, A[r + 1])
  PROVE  S[i] = Part(A[r + 1])
<1>1. PICK a, l : Follows(k, A, r, 0, S, a, l)
  BY Zenon DEF Carried
<1>2. S # <<>> /\ 1 \in 1..Len(S) /\ i \in 1..Len(S) /\ 1 < i
  OBVIOUS
<1>3. a[1] = r + 1 /\ l[1] = ValueUnits(k, A[r + 1])
  BY <1>1, <1>2, Zenon DEF Follows, Starts
<1>4. i - 1 <= l[1]
  BY <1>3, Zenon
<1>6. a[i] = r + 1 /\ l[i] = ValueUnits(k, A[r + 1]) - (i - 1)
  BY <1>1, <1>2, <1>3, <1>4, Zenon DEF Follows, Runs
<1>5. l[i] # ValueUnits(k, A[r + 1])
  BY <1>6
<1> QED BY <1>1, <1>2, <1>6, <1>5, Zenon DEF Follows, UnitsOf

\* Nothing is left when every answer has been read.
LEMMA CarriedAll ==
  ASSUME NEW k, NEW A \in Seq(Values), NEW X, NEW S \in Seq(X), NEW full, Carried(k, A, Len(A), 0, S, full)
  PROVE  S = <<>>
<1>1. PICK a, l : Follows(k, A, Len(A), 0, S, a, l)
  BY Zenon DEF Carried
<1>2. S # <<>> => 1 \in 1..Len(S)
  OBVIOUS
<1>3. S # <<>> => Len(A) + 1 \in 1..Len(A)
  BY <1>1, <1>2, Zenon DEF Follows, Starts, UnitsOf
<1> QED BY <1>3

\* An empty stream carries nothing.
LEMMA CarriedNothing ==
  ASSUME NEW k, NEW A, NEW r, NEW n, NEW full, full => n = 0 /\ r = Len(A)
  PROVE  Carried(k, A, r, n, <<>>, full)
<1> DEFINE a == [i \in 1..0 |-> 0]
<1>1. Follows(k, A, r, n, <<>>, a, a)
  BY DEF Follows, UnitsOf, Starts, Runs, NextOnes
<1>2. full => Ends(A, r, n, <<>>, a, a)
  BY Zenon DEF Ends
<1> QED BY <1>1, <1>2, Zenon DEF Carried

----------------------------------------------------------------------------
(* Lemmas about queues and operations *)

\* One queue after another.
LEMMA Concat ==
  ASSUME NEW X, NEW s \in Seq(X), NEW t \in Seq(X)
  PROVE  s \o t \in Seq(X) /\ Len(s \o t) = Len(s) + Len(t) /\ Len(s) \in Nat /\ Len(t) \in Nat
OBVIOUS

\* The units of one queue after another.
LEMMA ConcatParts ==
  ASSUME NEW X, NEW s \in Seq(X), NEW t \in Seq(X)
  PROVE  /\ \A i \in 1..Len(s) : (s \o t)[i] = s[i]
         /\ \A i \in Len(s) + 1..Len(s \o t) : (s \o t)[i] = t[i - Len(s)] /\ i - Len(s) \in 1..Len(t)
OBVIOUS

\* The first queue has one unit.
LEMMA ConcatUnits ==
  ASSUME NEW X, NEW s \in Seq(X), NEW t \in Seq(X), Len(s) = 1
  PROVE  (s \o t)[1] = s[1] /\ \A i \in 2..Len(s \o t) : (s \o t)[i] = t[i - 1] /\ i - 1 \in 1..Len(t)
<1>1. /\ \A i \in 1..Len(s) : (s \o t)[i] = s[i]
      /\ \A i \in Len(s) + 1..Len(s \o t) : (s \o t)[i] = t[i - Len(s)] /\ i - Len(s) \in 1..Len(t)
  BY ConcatParts, Zenon
<1>2. Len(s) = 1
  BY Zenon
<1>3. \A i \in 2..Len(s \o t) : i \in Len(s) + 1..Len(s \o t)
  BY <1>2
<1>4. 1 \in 1..Len(s)
  BY <1>2
<1> QED BY <1>1, <1>2, <1>3, <1>4, Zenon

\* An empty queue adds nothing.
LEMMA ConcatEmpty ==
  ASSUME NEW X, NEW s \in Seq(X)
  PROVE  <<>> \o s = s /\ s \o <<>> = s
OBVIOUS

\* The first unit is the first queue's.
LEMMA ConcatTail ==
  ASSUME NEW X, NEW s \in Seq(X), NEW t \in Seq(X), s # <<>>
  PROVE  Tail(s) \in Seq(X) /\ Tail(s \o t) = Tail(s) \o t /\ Head(s) = (s \o t)[1] /\ s \o t # <<>>
OBVIOUS

\* A unit that moves from one queue to the one before it keeps its place.
LEMMA ConcatMove ==
  ASSUME NEW X, NEW s \in Seq(X), NEW t \in Seq(X), t # <<>>
  PROVE  Append(s, Head(t)) \o Tail(t) = s \o t
OBVIOUS

\* A unit written comes last.
LEMMA ConcatAppend ==
  ASSUME NEW X, NEW s \in Seq(X), NEW t \in Seq(X), NEW x \in X
  PROVE  s \o Append(t, x) = Append(s \o t, x)
OBVIOUS

\* A queue that is read in part.
LEMMA ConcatSplit ==
  ASSUME NEW X, NEW s \in Seq(X), NEW n \in 1..Len(s)
  PROVE  /\ SubSeq(s, 1, n) \in Seq(X) /\ SubSeq(s, n + 1, Len(s)) \in Seq(X)
         /\ SubSeq(s, 1, n) \o SubSeq(s, n + 1, Len(s)) = s
OBVIOUS

\* Queues that hold nothing between them are empty.
LEMMA ConcatNothing ==
  ASSUME NEW X, NEW s \in Seq(X), NEW t \in Seq(X), s \o t = <<>>
  PROVE  s = <<>> /\ t = <<>>
OBVIOUS

\* What an operation writes.
LEMMA UnitsAre ==
  ASSUME NEW o \in Operations
  PROVE  /\ Units(o) \in Seq(Requests) /\ Len(Units(o)) \in Nat \ {0}
         /\ Len(o.keys) \in Nat \ {0}
         /\ o.op = "PUT" => Len(Units(o)) = 2 * Len(o.keys)
         /\ o.op = "IDS" => Len(Units(o)) = Len(o.keys) + 1
         /\ o.op \in {"GET", "HAS"} => Len(Units(o)) = Len(o.keys)
         /\ \A h \in 1..Len(Units(o)) : Units(o)[h].line =
              IF o.op = "PUT" THEN (IF h % 2 = 1 THEN "PUT" ELSE "value")
              ELSE IF o.op = "IDS" /\ h = 1 THEN "count" ELSE o.op
<1> DEFINE K == o.keys
<1>1. o.op \in {"GET", "HAS", "PUT", "IDS"} /\ K \in Seq(Keys) /\ K # <<>>
  BY Zenon DEF Operations
<1>2. Len(K) \in Nat \ {0}
  BY <1>1
<1> HIDE DEF K
<1>3. CASE o.op = "PUT"
  <2> DEFINE W == [n \in 1..2 * Len(K) |->
                          [line |-> IF n % 2 = 1 THEN "PUT" ELSE "value", key |-> K[(n + 1) \div 2]]]
  <2>1. Units(o) = W
    BY <1>3, Zenon DEF Units, K
  <2>2. \A n \in 1..2 * Len(K) : (n + 1) \div 2 \in 1..Len(K)
    BY <1>2
  <2>3. \A n \in 1..2 * Len(K) : K[(n + 1) \div 2] \in Keys
    BY <1>1, <2>2
  <2>4. \A n \in 1..2 * Len(K) : W[n] \in Requests
    BY <2>3, Zenon DEF Requests
  <2>5. 2 * Len(K) \in Nat /\ 2 * Len(K) # 0
    BY <1>2
  <2>6. W \in Seq(Requests) /\ Len(W) = 2 * Len(K)
    BY <2>4, <2>5
  <2>7. \A h \in 1..2 * Len(K) : W[h].line = IF h % 2 = 1 THEN "PUT" ELSE "value"
    BY Zenon
  <2> HIDE DEF W
  <2> QED BY <1>2, <1>3, <2>1, <2>5, <2>6, <2>7, Zenon DEF K
<1> DEFINE V == Questions(o)
<1>4. V = [i \in 1..Len(K) |-> [line |-> o.op, key |-> K[i]]]
  BY <1>1 DEF Questions, K
<1>7. o.op # "PUT" => \A i \in 1..Len(K) : [line |-> o.op, key |-> K[i]] \in Requests
  BY <1>1 DEF Requests
<1>8. (o.op # "PUT" => V \in Seq(Requests)) /\ Len(V) = Len(K)
  BY <1>2, <1>4, <1>7
<1>9. \A h \in 1..Len(K) : V[h].line = o.op
  BY <1>4
<1> HIDE DEF V
<1>5. CASE o.op \in {"GET", "HAS"}
  <2>1. Units(o) = V
    BY <1>5, Zenon DEF Units, V
  <2> QED BY <1>2, <1>5, <1>8, <1>9, <2>1, Zenon DEF K
<1>6. CASE o.op = "IDS"
  <2> DEFINE C == <<[line |-> "count", key |-> Len(K)]>>
  <2>1. Units(o) = C \o V
    BY <1>6, Zenon DEF Units, V, K
  <2>3. C \in Seq(Requests) /\ Len(C) = 1 /\ C[1].line = "count"
    BY <1>2 DEF Requests
  <2>2. V \in Seq(Requests)
    BY <1>6, <1>8, Zenon
  <2> HIDE DEF C
  <2>4. C \o V \in Seq(Requests) /\ Len(C \o V) = Len(K) + 1
    <3>1. C \in Seq(Requests) /\ Len(C) = 1 /\ Len(V) = Len(K)
      BY <1>8, <2>3, Zenon
    <3>2. C \o V \in Seq(Requests) /\ Len(C \o V) = Len(C) + Len(V)
      BY <2>2, <3>1, Concat, Zenon
    <3> QED BY <1>2, <3>1, <3>2
  <2>5. \A h \in 1..Len(C \o V) : (C \o V)[h].line = IF h = 1 THEN "count" ELSE o.op
    BY <1>2, <1>8, <1>9, <2>2, <2>3, <2>4
  <2> QED BY <1>2, <1>6, <2>1, <2>4, <2>5 DEF K
<1> QED BY <1>1, <1>3, <1>5, <1>6, Zenon

\* Which units of an operation are answered, and that all are when every key is.
LEMMA AskedSteps ==
  ASSUME NEW o \in Operations, NEW h \in Nat, h <= Len(Units(o))
  PROVE  /\ Asked(o, h) \in Nat /\ Asked(o, 0) = 0
         /\ Asked(o, Len(Units(o))) = Len(o.keys)
         /\ Len(o.keys) <= Asked(o, h) => h = Len(Units(o))
         /\ h < Len(Units(o)) =>
              Asked(o, h + 1) = IF Units(o)[h + 1].line \in {"count", "PUT"} THEN Asked(o, h) ELSE Asked(o, h) + 1
<1> DEFINE n == Len(o.keys)
           w == Len(Units(o))
<1>1. /\ n \in Nat \ {0} /\ w \in Nat \ {0}
      /\ o.op \in {"GET", "HAS", "PUT", "IDS"}
      /\ o.op = "PUT" => w = 2 * n
      /\ o.op = "IDS" => w = n + 1
      /\ o.op \in {"GET", "HAS"} => w = n
  BY UnitsAre, Zenon DEF Operations
<1>2. h < w => Units(o)[h + 1].line = IF o.op = "PUT" THEN (IF (h + 1) % 2 = 1 THEN "PUT" ELSE "value")
              ELSE IF o.op = "IDS" /\ h + 1 = 1 THEN "count" ELSE o.op
  BY <1>1, UnitsAre
<1>3. h <= w
  BY Zenon
<1> HIDE DEF n, w
<1>4. CASE o.op = "PUT"
  <2>1. /\ h \div 2 \in Nat /\ 0 \div 2 = 0 /\ (2 * n) \div 2 = n
        /\ n <= h \div 2 /\ h <= 2 * n => h = 2 * n
        /\ (h + 1) \div 2 = IF (h + 1) % 2 = 1 THEN h \div 2 ELSE (h \div 2) + 1
    BY <1>1
  <2> QED BY <1>1, <1>2, <1>3, <1>4, <2>1, Zenon DEF Asked, n, w
<1>5. CASE o.op = "IDS"
  BY <1>1, <1>2, <1>3, <1>5 DEF Asked, n, w
<1>6. CASE o.op \in {"GET", "HAS"}
  BY <1>1, <1>2, <1>3, <1>6 DEF Asked, n, w
<1> QED BY <1>1, <1>4, <1>5, <1>6, Zenon

----------------------------------------------------------------------------
(* The steps *)

\* The queues of both directions.
LEMMA QueueTypes ==
  ASSUME WireTypes
  PROVE  /\ Asking \in Seq(Requests) /\ Len(Asking) \in Nat /\ Len(Asking) = Len(inq) + Len(upq)
         /\ Stream \in Seq(Replies) /\ downq \o reply \in Seq(Replies)
         /\ todo # <<>> => op \in Operations /\ Tail(todo) \in Seq(Operations)
<1>1. /\ inq \in Seq(Requests) /\ upq \in Seq(Requests) /\ todo \in Seq(Operations)
      /\ pending \in Seq(Replies) /\ downq \in Seq(Replies) /\ reply \in Seq(Replies)
  BY Zenon DEF WireTypes
<1>2. Asking \in Seq(Requests) /\ Len(Asking) = Len(inq) + Len(upq)
  BY <1>1, Concat, Zenon DEF Asking
<1>3. Len(Asking) \in Nat
  BY <1>2
<1>4. downq \o reply \in Seq(Replies)
  BY <1>1, Concat, Zenon
<1>5. Stream \in Seq(Replies)
  BY <1>1, <1>4, Concat, Zenon DEF Stream
<1>6. todo # <<>> => op \in Operations /\ Tail(todo) \in Seq(Operations)
  BY <1>1 DEF op
<1> QED BY <1>2, <1>3, <1>4, <1>5, <1>6, Zenon

\* At first nothing is on the way.
LEMMA WireStart ==
  ASSUME WireInit
  PROVE  WireInv
<1>1. WireTypes
  <2>1. None \in Values
    BY Zenon DEF Values
  <2> QED BY <2>1, WireAssumption DEF WireInit, WireTypes
<1>2. AnswersMatch /\ StreamClean /\ Control /\ (~fd => LostInv)
  BY Zenon DEF WireInit, AnswersMatch, StreamClean, Control
<1>3. Going => GoingInv
  <2> HAVE Going
  <2>1. todo # <<>> /\ op \in Operations
    BY <1>1, QueueTypes, Zenon DEF Going
  <2>2. Asking = <<>> /\ Stream = <<>> /\ sent = 0 /\ need = 0 /\ res = <<>> /\ answers = <<>> /\ cpc = "send"
    BY DEF WireInit, Asking, Stream
  <2>3. Len(Units(op)) \in Nat /\ 0 <= Len(Units(op)) /\ Asked(op, 0) = 0
    BY <2>1, UnitsAre, AskedSteps
  <2>4. InOrder
    BY <2>2, <2>3 DEF InOrder, Handled
  <2>5. Len(res) = Len(answers)
    BY <2>2, Zenon
  <2>6. Carried(op.op, answers, Len(res), need, Stream, serving)
    BY <2>2, <2>5, CarriedNothing, Zenon
  <2> QED BY <2>2, <2>3, <2>4, <2>6 DEF GoingInv
<1> QED BY <1>1, <1>2, <1>3, Zenon DEF WireInv

\* The next operation begins on a clean stream, or without one.
LEMMA BeginStep ==
  ASSUME WireInv, Begin
  PROVE  WireInv'
<1>1. WireTypes'
  BY QueueTypes DEF WireInv, WireTypes, Begin
<1>2. AnswersMatch' /\ StreamClean' /\ Control' /\ (~fd => LostInv)'
  BY Zenon DEF WireInv, Begin, AnswersMatch, StreamClean, Control, LostInv
<1>3. Going' => GoingInv'
  <2> HAVE Going'
  <2>1. todo' # <<>> /\ fd /\ serving /\ serving' = serving
    BY DEF Going, Begin, WireInv, WireTypes
  <2>2. op' \in Operations
    BY <1>1, <2>1 DEF WireTypes, op
  <2>3. upq = <<>> /\ inq = <<>> /\ reply = <<>> /\ downq = <<>> /\ pending = <<>> /\ need = 0
    BY <2>1, Zenon DEF WireInv, StreamClean, Begin, Control
  <2>4. Asking' = <<>> /\ Stream' = <<>> /\ sent' = 0 /\ need' = 0 /\ res' = <<>> /\ answers' = <<>> /\ cpc' = "send"
    BY <2>3 DEF Begin, Asking, Stream
  <2>5. Len(Units(op')) \in Nat /\ 0 <= Len(Units(op')) /\ Asked(op', 0) = 0
    BY <2>2, UnitsAre, AskedSteps
  <2>6. InOrder'
    BY <2>4, <2>5 DEF InOrder, Handled
  <2>7. Len(res') = Len(answers')
    BY <2>4, Zenon
  <2>8. Carried(op.op, answers, Len(res), need, Stream, serving)'
    BY <2>4, <2>7, CarriedNothing, Zenon
  <2> QED BY <2>4, <2>5, <2>6, <2>8 DEF GoingInv
<1> QED BY <1>1, <1>2, <1>3, Zenon DEF WireInv

\* A question is written after the others.
LEMMA SendStep ==
  ASSUME WireInv, Send
  PROVE  WireInv'
<1>0. op' = op /\ op \in Operations /\ Units(op) \in Seq(Requests) /\ sent \in Nat /\ sent + 1 \in 1..Len(Units(op))
  <2>1. op' = op /\ op \in Operations /\ sent \in Nat /\ sent < Len(Units(op))
    BY QueueTypes, Zenon DEF WireInv, Send, op, WireTypes
  <2> QED BY <2>1, UnitsAre
<1>1. WireTypes'
  <2>1. Units(op)[sent + 1] \in Requests
    BY <1>0
  <2>2. upq' \in Seq(Requests)
    BY <2>1 DEF Send, WireInv, WireTypes
  <2> QED BY <1>0, <2>2 DEF WireInv, WireTypes, Send, serverVars
<1>2. AnswersMatch' /\ StreamClean' /\ Control' /\ (~fd => LostInv)'
  BY Zenon DEF WireInv, Send, AnswersMatch, StreamClean, Control, serverVars
<1>3. GoingInv'
  <2>1. GoingInv /\ serving /\ InOrder
    BY Zenon DEF WireInv, Send, Going, GoingInv
  <2>2. Asking' = Append(Asking, Units(op)[sent + 1]) /\ Asking \in Seq(Requests)
    <3>1. inq \in Seq(Requests) /\ upq \in Seq(Requests) /\ Units(op)[sent + 1] \in Requests
      BY <1>0 DEF WireInv, WireTypes
    <3>2. Asking' = inq \o Append(upq, Units(op)[sent + 1])
      BY Zenon DEF Send, Asking, serverVars
    <3>3. inq \o Append(upq, Units(op)[sent + 1]) = Append(inq \o upq, Units(op)[sent + 1])
      <4> DEFINE x == Units(op)[sent + 1]
      <4>1. x \in Requests
        BY <3>1, Zenon
      <4> HIDE DEF x
      <4>2. inq \o Append(upq, x) = Append(inq \o upq, x)
        BY <3>1, <4>1, ConcatAppend
      <4> QED BY <4>2, Zenon DEF x
    <3>4. inq \o upq \in Seq(Requests)
      BY <3>1, Concat, Zenon
    <3> QED BY <3>2, <3>3, <3>4, Zenon DEF Asking
  <2>3. /\ Len(Asking') = Len(Asking) + 1 /\ Len(Asking) \in Nat /\ Len(Asking) <= sent
        /\ sent' = sent + 1 /\ Handled' = Handled
    BY <1>0, <2>1, <2>2 DEF Send, Handled, InOrder
  <2>4. \A i \in 1..Len(Asking') : Asking'[i] = Units(op)[Handled + i]
    <3> TAKE i \in 1..Len(Asking')
    <3>1. CASE i \in 1..Len(Asking)
      BY <2>1, <2>2, <3>1 DEF InOrder
    <3>2. CASE i = Len(Asking) + 1
      <4>1. Handled + i = sent + 1
        BY <1>0, <2>3, <3>2 DEF Handled
      <4> QED BY <2>2, <3>2, <4>1
    <3> QED BY <2>3, <3>1, <3>2
  <2>5. InOrder'
    BY <1>0, <2>1, <2>3, <2>4 DEF InOrder, Send, serverVars
  <2>6. Stream' = Stream
    BY Zenon DEF Send, Stream, serverVars
  <2>7. Carried(op.op, answers, Len(res), need, Stream, serving)'
    BY <1>0, <2>1, <2>6, Zenon DEF GoingInv, Send, serverVars
  <2>8. (sent <= Len(Units(op)))'
    BY <1>0, <2>3
  <2> QED BY <1>0, <2>1, <2>5, <2>7, <2>8, Zenon DEF GoingInv, Send, WireInv, Control, serverVars
<1> QED BY <1>1, <1>2, <1>3, Zenon DEF WireInv

\* A failure to write ends the operation, unless replies to a PUT can still be read.
LEMMA SendFailsStep ==
  ASSUME WireInv, SendFails
  PROVE  WireInv'
<1>0. op' = op /\ op \in Operations /\ todo # <<>> /\ todo' = todo /\ ~(fd /\ serving) /\ sent' = sent
  BY QueueTypes, Zenon DEF WireInv, SendFails, Return, op
<1>1. CASE fd /\ op.op = "PUT" /\ sent >= 2
  <2>1. cpc' = "recv" /\ UNCHANGED <<need, value, res, fd, pending, serverVars, upq, downq>>
    BY <1>1, Zenon DEF SendFails
  <2>2. WireTypes'
    BY <1>0, <2>1, Zenon DEF WireInv, WireTypes, serverVars
  <2>3. AnswersMatch' /\ StreamClean' /\ Control' /\ (~fd => LostInv)'
    BY <1>0, <1>1, <2>1 DEF WireInv, AnswersMatch, StreamClean, Control, serverVars, SendFails
  <2>4. GoingInv
    BY <1>0, <1>1 DEF WireInv, WireTypes, Going, SendFails
  <2>5. Stream' = Stream
    BY <2>1, Zenon DEF Stream, serverVars
  <2>6. Carried(op.op, answers, Len(res), need, Stream, serving)'
    BY <1>0, <2>1, <2>4, <2>5, Zenon DEF GoingInv, serverVars
  <2>7. GoingInv'
    BY <1>0, <1>1, <2>1, <2>4, <2>6 DEF GoingInv, WireInv, Control, SendFails, serverVars
  <2> QED BY <2>2, <2>3, <2>7, Zenon DEF WireInv
<1>2. CASE ~(fd /\ op.op = "PUT" /\ sent >= 2)
  <2>1. cpc' = "done" /\ res' = Misses /\ need' = 0 /\ value' = None /\ UNCHANGED <<fd, pending, serverVars, upq, downq>>
    BY <1>2, Zenon DEF SendFails, Return
  <2>2. None \in Values
    BY Zenon DEF Values
  <2>3. Misses \in Seq(Values) /\ \A i \in DOMAIN Misses : Misses[i] = None
    <3>1. op.keys \in Seq(Keys)
      BY <1>0, Zenon DEF Operations
    <3> QED BY <2>2, <3>1 DEF Misses
  <2>4. op.op = "PUT" \/ Len(Misses) = Len(op.keys) \/ (op.op = "IDS" /\ Misses = <<>>)
    <3>1. op.keys \in Seq(Keys) /\ op.op \in {"GET", "HAS", "PUT", "IDS"}
      BY <1>0, Zenon DEF Operations
    <3> QED BY <3>1 DEF Misses
  <2>5. WireTypes'
    BY <1>0, <2>1, <2>2, <2>3, Zenon DEF WireInv, WireTypes, serverVars
  <2>6. AnswersMatch'
    BY <1>0, <2>1, <2>3, <2>4, Zenon DEF AnswersMatch
  <2>7. StreamClean' /\ Control' /\ (~fd => LostInv)' /\ ~Going'
    BY <1>0, <2>1, Zenon DEF WireInv, StreamClean, Control, LostInv, Going, serverVars
  <2> QED BY <2>5, <2>6, <2>7, Zenon DEF WireInv
<1> QED BY <1>1, <1>2, Zenon

\* When all is written the client reads.
LEMMA AllSentStep ==
  ASSUME WireInv, AllSent
  PROVE  WireInv'
<1>0. op' = op /\ op \in Operations /\ todo # <<>> /\ cpc = "send" /\ cpc' = "recv" /\ sent = Len(Units(op)) /\ sent > 0
      /\ UNCHANGED <<todo, sent, fd, pending, need, value, res, serverVars, upq, downq>>
  BY QueueTypes, UnitsAre DEF WireInv, AllSent, op
<1>1. fd
  BY <1>0 DEF WireInv, LostInv
<1>2. WireTypes'
  BY <1>0, Zenon DEF WireInv, WireTypes, serverVars
<1>3. AnswersMatch' /\ StreamClean' /\ Control' /\ (~fd => LostInv)'
  BY <1>0, <1>1, Zenon DEF WireInv, AnswersMatch, StreamClean, Control, serverVars
<1>4. GoingInv
  BY <1>0, <1>1, Zenon DEF WireInv, Going
<1>5. Stream' = Stream /\ Asking' = Asking
  BY <1>0, Zenon DEF Stream, Asking, serverVars
<1>6. Carried(op.op, answers, Len(res), need, Stream, serving)'
  BY <1>0, <1>4, <1>5, Zenon DEF GoingInv, serverVars
<1>7. InOrder => InOrder'
  BY <1>0, <1>5, Zenon DEF InOrder, Handled, serverVars
<1>8. GoingInv'
  BY <1>0, <1>4, <1>6, <1>7, Zenon DEF GoingInv, serverVars
<1> QED BY <1>2, <1>3, <1>8, Zenon DEF WireInv

\* Fill takes what the socket holds.
LEMMA FillStep ==
  ASSUME WireInv, Fill
  PROVE  WireInv'
<1>0. /\ op' = op /\ todo # <<>> /\ cpc = "recv" /\ pending = <<>> /\ fd /\ pending' = downq /\ downq' = <<>>
      /\ UNCHANGED <<todo, cpc, sent, fd, need, value, res, serverVars, upq>>
  BY Zenon DEF Fill, op
<1>1. WireTypes'
  BY <1>0, Zenon DEF WireInv, WireTypes, serverVars
<1>2. AnswersMatch' /\ StreamClean' /\ Control' /\ (~fd => LostInv)'
  BY <1>0, Zenon DEF WireInv, AnswersMatch, StreamClean, Control, serverVars
<1>3. GoingInv
  BY <1>0, Zenon DEF WireInv, Going
<1>4. Stream' = Stream
  <2>1. downq \in Seq(Replies) /\ reply \in Seq(Replies) /\ downq \o reply \in Seq(Replies)
    BY QueueTypes, Zenon DEF WireInv, WireTypes
  <2>2. Stream' = downq \o (<<>> \o reply) /\ Stream = <<>> \o (downq \o reply)
    BY <1>0, Zenon DEF Stream, serverVars
  <2> QED BY <2>1, <2>2, ConcatEmpty, Zenon
<1>5. Carried(op.op, answers, Len(res), need, Stream, serving)'
  BY <1>0, <1>3, <1>4, Zenon DEF GoingInv, serverVars
<1>6. InOrder => InOrder'
  BY <1>0, Zenon DEF InOrder, Handled, Asking, serverVars
<1>7. GoingInv'
  BY <1>0, <1>3, <1>5, <1>6, Zenon DEF GoingInv, serverVars
<1> QED BY <1>1, <1>2, <1>7, Zenon DEF WireInv

\* An answer is read to its end: it is kept, or a miss is, and the operation returns when it has them all.
LEMMA GotStep ==
  ASSUME WireInv, cpc = "recv", NEW x \in Values, Got(x), UNCHANGED <<serverVars, upq, downq>>,
         x # None => Len(res) + 1 <= Len(answers) /\ x = answers[Len(res) + 1],
         fd' \in BOOLEAN, fd' => fd, pending' \in Seq(Replies), Len(pending') <= DownCap,
         fd' => Carried(op.op, answers, Len(res) + 1, 0, Stream', serving),
         fd' /\ serving => Len(res) + 1 <= Len(answers),
         ~fd' => op.op = "GET" /\ \A i \in DOMAIN pending' : pending'[i].line = "bytes"
  PROVE  WireInv'
<1>0. /\ todo # <<>> /\ todo' = todo /\ op' = op /\ op \in Operations /\ sent' = sent
      /\ res' = Append(res, x) /\ need' = 0 /\ value' = None
      /\ cpc' = IF Len(res) + 1 = Awaited THEN "done" ELSE "recv"
  BY QueueTypes, Zenon DEF WireInv, Control, Got, Return, op
<1>1. res \in Seq(Values) /\ answers \in Seq(Values) /\ answers' = answers /\ serving' = serving /\ downq' = downq
      /\ reply' = reply /\ inq' = inq /\ upq' = upq
  BY Zenon DEF WireInv, WireTypes, serverVars
<1>2. Len(res') = Len(res) + 1 /\ Len(res) \in Nat /\ res' \in Seq(Values)
  BY <1>0, <1>1
<1>3. WireTypes'
  <2>1. None \in Values
    BY Zenon DEF Values
  <2> QED BY <1>0, <1>2, <2>1, Zenon DEF WireInv, WireTypes, serverVars
<1>4. AnswersMatch'
  <2>1. \A i \in DOMAIN res' : res'[i] # None => i \in DOMAIN answers /\ res'[i] = answers[i]
    <3> SUFFICES ASSUME NEW i \in DOMAIN res', res'[i] # None
                 PROVE  i \in DOMAIN answers /\ res'[i] = answers[i]
      BY Zenon
    <3>1. CASE i = Len(res) + 1
      BY <1>0, <1>1, <1>2, <3>1
    <3>2. CASE i # Len(res) + 1
      <4>1. i \in DOMAIN res /\ res'[i] = res[i]
        BY <1>0, <1>1, <1>2, <3>2
      <4> QED BY <4>1, Zenon DEF WireInv, AnswersMatch
    <3> QED BY <3>1, <3>2, Zenon
  <2>2. cpc' = "done" /\ op.op # "PUT" => Len(res') = Len(op.keys)
    BY <1>0, <1>2, Zenon DEF Awaited
  <2> QED BY <1>0, <1>1, <2>1, <2>2, Zenon DEF AnswersMatch
<1>5. Control' /\ (~fd => LostInv)'
  BY <1>0, <1>1, Zenon DEF WireInv, Control, LostInv
<1>6. fd' => GoingInv
  BY <1>0, Zenon DEF WireInv, Going
<1>7. StreamClean'
  <2> SUFFICES ASSUME cpc' = "done", fd', serving
               PROVE  upq = <<>> /\ inq = <<>> /\ reply = <<>> /\ downq = <<>> /\ pending' = <<>>
    BY <1>1, Zenon DEF StreamClean
  <2>1. /\ InOrder /\ sent = Len(Units(op)) /\ Len(res) + 1 <= Len(answers) /\ Len(res) + 1 = Awaited
    BY <1>0, <1>6, Zenon DEF GoingInv
  <2>2. /\ Len(Asking) \in Nat /\ Len(Asking) = Len(inq) + Len(upq) /\ sent \in Nat /\ Len(Asking) <= sent
        /\ inq \in Seq(Requests) /\ upq \in Seq(Requests)
    BY <2>1, QueueTypes, Zenon DEF WireInv, WireTypes, InOrder
  <2>3. Handled \in Nat /\ Handled <= sent
    BY <2>2 DEF Handled
  <2>4. Awaited = Len(op.keys)
    <3>1. op.op = "PUT" => sent = 2 * Len(op.keys) /\ Len(op.keys) \in Nat
      BY <1>0, <2>1, UnitsAre, Zenon
    <3>2. op.op = "PUT" => sent \div 2 = Len(op.keys)
      BY <3>1
    <3> QED BY <3>2, Zenon DEF Awaited
  <2>5. Len(answers) = Asked(op, Handled)
    BY <2>1, Zenon DEF InOrder
  <2>6. Handled = sent
    <3>1. Handled <= Len(Units(op)) /\ Len(op.keys) <= Asked(op, Handled)
      BY <2>1, <2>3, <2>4, <2>5, Zenon
    <3> QED BY <1>0, <2>1, <2>3, <3>1, AskedSteps, Zenon
  <2>7. upq = <<>> /\ inq = <<>>
    <3>1. Len(inq) = 0 /\ Len(upq) = 0
      BY <2>2, <2>6 DEF Handled
    <3> QED BY <2>2, <3>1
  <2>8. Len(answers) = Len(res) + 1
    BY <1>0, <2>1, <2>4, <2>5, <2>6, AskedSteps, <2>3, Zenon
  <2>9. Stream' \in Seq(Replies) /\ pending' \in Seq(Replies) /\ downq \in Seq(Replies) /\ reply \in Seq(Replies)
        /\ downq \o reply \in Seq(Replies) /\ Stream' = pending' \o (downq \o reply)
    <3>1. downq \in Seq(Replies) /\ reply \in Seq(Replies) /\ downq \o reply \in Seq(Replies)
      BY QueueTypes, Zenon DEF WireInv, WireTypes
    <3>2. Stream' = pending' \o (downq \o reply)
      BY <1>1, Zenon DEF Stream
    <3> QED BY <3>1, <3>2, Concat, Zenon
  <2>10. Stream' = <<>>
    <3>1. Carried(op.op, answers, Len(answers), 0, Stream', serving)
      BY <2>8, Zenon
    <3> QED BY <1>1, <2>9, <3>1, CarriedAll, Zenon
  <2>11. pending' = <<>> /\ downq \o reply = <<>>
    BY <2>9, <2>10, ConcatNothing, Zenon
  <2>12. downq = <<>> /\ reply = <<>>
    BY <2>9, <2>11, ConcatNothing, Zenon
  <2> QED BY <2>7, <2>11, <2>12, Zenon
<1>8. Going' => GoingInv'
  <2> HAVE Going'
  <2>1. fd' /\ cpc' = "recv"
    BY <1>0, Zenon DEF Going
  <2>2. Carried(op.op, answers, Len(res), need, Stream, serving)'
    BY <1>0, <1>1, <1>2, <2>1, Zenon
  <2>3. InOrder => InOrder'
    BY <1>0, <1>1, Zenon DEF InOrder, Handled, Asking
  <2> QED BY <1>0, <1>1, <1>6, <2>1, <2>2, <2>3 DEF GoingInv
<1> QED BY <1>3, <1>4, <1>5, <1>7, <1>8, Zenon DEF WireInv

\* Once the daemon has hung up, or the stream is lost, a miss stands for each answer that did not come.
LEMMA EndOfStreamStep ==
  ASSUME WireInv, EndOfStream
  PROVE  WireInv'
<1>0. /\ todo # <<>> /\ cpc = "recv" /\ pending = <<>> /\ (~fd \/ (~serving /\ downq = <<>>))
      /\ UNCHANGED <<fd, pending, serverVars, upq, downq>> /\ op \in Operations
  BY QueueTypes, Zenon DEF EndOfStream, WireInv
<1>1. None \in Values
  BY Zenon DEF Values
<1>2. CASE op.op = "IDS"
  <2>1. cpc' = "done" /\ res' = <<>> /\ need' = 0 /\ value' = None /\ UNCHANGED <<todo, sent>> /\ op' = op
    BY <1>2, Zenon DEF EndOfStream, Return, op
  <2>2. WireTypes'
    BY <1>0, <1>1, <2>1 DEF WireInv, WireTypes, serverVars
  <2>3. AnswersMatch'
    BY <1>2, <2>1 DEF AnswersMatch
  <2>4. StreamClean' /\ Control' /\ (~fd => LostInv)' /\ ~Going'
    BY <1>0, <2>1, Zenon DEF WireInv, StreamClean, Control, LostInv, Going, serverVars
  <2> QED BY <2>2, <2>3, <2>4, Zenon DEF WireInv
<1>3. CASE op.op # "IDS"
  <2>1. Got(None)
    BY <1>3, Zenon DEF EndOfStream
  <2>2. fd' \in BOOLEAN /\ (fd' => fd) /\ pending' \in Seq(Replies) /\ Len(pending') <= DownCap
    BY <1>0, Zenon DEF WireInv, WireTypes
  <2>3. fd' => ~serving /\ Stream' = <<>>
    BY <1>0 DEF WireInv, WireTypes, Control, Stream, serverVars
  <2>4. fd' => Carried(op.op, answers, Len(res) + 1, 0, Stream', serving)
    BY <2>3, CarriedNothing, Zenon
  <2>5. ~fd' => op.op = "GET" /\ \A i \in DOMAIN pending' : pending'[i].line = "bytes"
    BY <1>0, Zenon DEF WireInv, LostInv
  <2>6. UNCHANGED <<serverVars, upq, downq>>
    BY <1>0, Zenon
  <2> QED BY <1>0, <1>1, <2>1, <2>2, <2>3, <2>4, <2>5, <2>6, GotStep, Zenon
<1> QED BY <1>2, <1>3, Zenon

\* The client takes the first unit off the stream.
LEMMA TakeUnit ==
  ASSUME WireInv, todo # <<>>, cpc = "recv", fd,
         pending # <<>>, pending' = Tail(pending), UNCHANGED <<serverVars, downq>>
  PROVE  /\ Stream' = Tail(Stream) /\ Stream # <<>> /\ Head(pending) = Stream[1] /\ Stream \in Seq(Replies)
         /\ pending' \in Seq(Replies) /\ Len(pending') <= DownCap
         /\ \A i \in DOMAIN pending' :
              /\ i \in Nat /\ i + 1 \in 2..Len(Stream) /\ i <= kMaxObjectSize
              /\ pending'[i] = Stream[i + 1]
         /\ GoingInv /\ op \in Operations /\ answers \in Seq(Values) /\ Len(res) \in Nat /\ need \in Nat
<1>1. pending \in Seq(Replies) /\ downq \o reply \in Seq(Replies) /\ Stream \in Seq(Replies) /\ Len(pending) <= DownCap
      /\ op \in Operations /\ answers \in Seq(Values) /\ Len(res) \in Nat /\ need \in Nat
  BY QueueTypes DEF WireInv, WireTypes
<1>2. Stream' = Tail(pending) \o (downq \o reply)
  BY Zenon DEF Stream, serverVars
<1>3. Stream' = Tail(Stream) /\ Stream # <<>> /\ Head(pending) = Stream[1]
  BY <1>1, <1>2, ConcatTail, Zenon DEF Stream
<1>4. Tail(pending) \in Seq(Replies) /\ Len(Tail(pending)) = Len(pending) - 1 /\ Len(pending) \in Nat
  BY <1>1
<1>5. Len(pending') <= DownCap
  BY <1>1, <1>4, WireAssumption
<1>6. \A i \in DOMAIN pending' :
        i \in Nat /\ i + 1 \in 2..Len(Stream) /\ i <= kMaxObjectSize /\ pending'[i] = Stream[i + 1]
  <2> DEFINE s == downq \o reply
  <2>1. s \in Seq(Replies)
    BY <1>1, Zenon
  <2> HIDE DEF s
  <2>2. \A i \in DOMAIN Tail(pending) : /\ i + 1 \in 2..Len(pending \o s) /\ i + 1 <= Len(pending)
                                        /\ Tail(pending)[i] = (pending \o s)[i + 1]
    BY <1>1, <2>1
  <2>3. \A i \in DOMAIN Tail(pending) : i \in Nat /\ i <= kMaxObjectSize
    BY <1>1, <1>4, <2>2, WireAssumption
  <2> QED BY <2>2, <2>3, Zenon DEF s, Stream
<1>7. GoingInv
  BY Zenon DEF WireInv, Going
<1> QED BY <1>1, <1>3, <1>4, <1>5, <1>6, <1>7, Zenon

\* A line is the one of the next answer: of a miss, of a result, of a value that follows, or of one that is too large.
LEMMA RecvLineStep ==
  ASSUME WireInv, RecvLine
  PROVE  WireInv'
<1> DEFINE u == Head(pending)
           k == op.op
           r == Len(res)
           v == answers[r + 1]
<1>0. /\ todo # <<>> /\ cpc = "recv" /\ need = 0 /\ pending # <<>> /\ pending' = Tail(pending)
      /\ UNCHANGED <<serverVars, upq, downq>> /\ UNCHANGED <<serverVars, downq>>
  BY Zenon DEF RecvLine
<1>1. \/ k = "GET" /\ u.line = "OK" /\ Oversized(u.v) /\ fd' = FALSE /\ Got(None)
      \/ /\ k = "GET" /\ u.line = "OK" /\ fd' = fd /\ need' = u.v.size /\ value' = u.v
         /\ UNCHANGED <<todo, cpc, sent, res>>
      \/ ~(k = "GET" /\ u.line = "OK") /\ fd' = fd /\ Got(IF k = "GET" \/ u.line = "bytes" THEN None ELSE u.v)
  BY Zenon DEF RecvLine, TooLarge
<1>2. None \in Values
  BY Zenon DEF Values
<1>3. CASE ~fd
  <2>1. /\ k = "GET" /\ pending \in Seq(Replies) /\ Len(pending) <= DownCap
        /\ \A i \in DOMAIN pending : pending[i].line = "bytes"
    BY <1>0, <1>3, Zenon DEF WireInv, WireTypes, LostInv
  <2>2. u.line = "bytes"
    BY <1>0, <2>1
  <2>3. Got(None) /\ fd' = FALSE
    BY <1>1, <1>3, <2>1, <2>2, Zenon DEF WireInv, WireTypes
  <2>4. pending' \in Seq(Replies) /\ Len(pending') <= DownCap /\ \A i \in DOMAIN pending' : pending'[i].line = "bytes"
    BY <1>0, <2>1, WireAssumption
  <2>5. fd' \in BOOLEAN /\ ~fd'
    BY <2>3, Zenon
  <2> QED BY <1>0, <1>2, <2>1, <2>3, <2>4, <2>5, GotStep, Zenon
<1>4. CASE fd
  <2>1. /\ Stream' = Tail(Stream) /\ Stream # <<>> /\ u = Stream[1] /\ Stream \in Seq(Replies)
        /\ pending' \in Seq(Replies) /\ Len(pending') <= DownCap
        /\ \A i \in DOMAIN pending' :
             /\ i \in Nat /\ i + 1 \in 2..Len(Stream) /\ i <= kMaxObjectSize
             /\ pending'[i] = Stream[i + 1]
        /\ GoingInv /\ op \in Operations /\ answers \in Seq(Values) /\ r \in Nat
    BY <1>0, <1>4, TakeUnit, Zenon
  <2>2. Carried(k, answers, r, 0, Stream, serving) /\ serving \in BOOLEAN
    BY <1>0, <2>1, Zenon DEF GoingInv, WireInv, WireTypes
  <2>3. r + 1 <= Len(answers) /\ v \in Values
    <3>1. r + 1 \in 1..Len(answers)
      BY <2>1, <2>2, CarriedHead, Zenon
    <3> QED BY <2>1, <3>1
  <2>4. ValueUnits(k, v) \in Nat /\ (k = "GET" /\ v.hit => ValueUnits(k, v) > 0 /\ ValueUnits(k, v) = v.size)
    BY <2>3, ValueUnitsType, Zenon DEF ValueUnits
  <2>5. u = Header(k, v)
    <3>1. Stream[1] = Header(k, v)
      BY <2>1, <2>2, CarriedHead, SMT
    <3> QED BY <2>1, <3>1, Zenon
  <2>6. /\ u.v = v /\ (k = "GET" => (u.line = "OK" <=> v.hit))
        /\ (k # "GET" => ValueUnits(k, v) = 0) /\ (~v.hit => ValueUnits(k, v) = 0)
    <3>1. u.v = v /\ u.line = IF k = "GET" THEN (IF v.hit THEN "OK" ELSE "MISS") ELSE IF k = "PUT" THEN "OK" ELSE k
      BY <2>5 DEF Header
    <3> QED BY <3>1, Zenon DEF ValueUnits
  <2> HIDE DEF u, k, r, v
  <2>7. Carried(k, answers, IF ValueUnits(k, v) = 0 THEN r + 1 ELSE r, ValueUnits(k, v), Tail(Stream), serving)
    <3>1. 0 \in Nat /\ ValueUnits(k, v) = IF 0 = 0 THEN ValueUnits(k, v) ELSE 0 - 1
      BY Zenon
    <3> QED BY <2>1, <2>2, <2>4, <3>1, CarriedTail, Zenon DEF v
  <2>8. CASE k = "GET" /\ u.line = "OK" /\ Oversized(u.v) /\ fd' = FALSE /\ Got(None)
    <3>1. ValueUnits(k, v) > kMaxObjectSize
      BY <2>4, <2>6, <2>8, Zenon DEF Oversized
    <3>3. \A i \in DOMAIN pending' : pending'[i].line = "bytes"
      <4> TAKE i \in DOMAIN pending'
      <4>1. i \in Nat /\ i + 1 \in 2..Len(Stream) /\ i <= kMaxObjectSize /\ pending'[i] = Stream[i + 1]
        BY <2>1, Zenon
      <4>2. (i + 1) - 1 <= ValueUnits(k, v)
        BY <2>4, <3>1, <4>1, WireAssumption
      <4>3. pending'[i] = Part(v)
        <5>1. Stream[i + 1] = Part(v)
          BY <2>1, <2>2, <2>4, <4>1, <4>2, CarriedBytes, SMT DEF v
        <5> QED BY <4>1, <5>1, Zenon
      <4> QED BY <4>3 DEF Part
    <3>4. fd' \in BOOLEAN /\ ~fd' /\ op.op = "GET"
      BY <2>8, Zenon DEF k
    <3> QED BY <1>0, <1>2, <2>1, <2>8, <3>3, <3>4, GotStep, Zenon
  <2>9. CASE /\ k = "GET" /\ u.line = "OK" /\ fd' = fd /\ need' = u.v.size /\ value' = u.v
             /\ UNCHANGED <<todo, cpc, sent, res>>
    <3>1. need' = ValueUnits(k, v) /\ value' = v /\ ValueUnits(k, v) > 0 /\ need' \in Nat
      BY <2>4, <2>6, <2>9, Zenon
    <3>2. WireTypes'
      BY <1>0, <2>1, <2>3, <2>9, <3>1, Zenon DEF WireInv, WireTypes, serverVars
    <3>3. AnswersMatch' /\ StreamClean' /\ Control' /\ (~fd => LostInv)'
      BY <1>0, <1>4, <2>9 DEF WireInv, AnswersMatch, StreamClean, Control, serverVars
    <3>4. op' = op
      BY <2>9, Zenon DEF op
    <3>5. Carried(k, answers, r, ValueUnits(k, v), Tail(Stream), serving)
      BY <2>7, <3>1, <2>4
    <3>6. Carried(op.op, answers, Len(res), need, Stream, serving)'
      <4>1. answers' = answers /\ res' = res /\ serving' = serving
        BY <1>0, <2>9, Zenon DEF serverVars
      <4> QED BY <2>1, <3>1, <3>4, <3>5, <4>1, Zenon DEF k, r
    <3>7. InOrder => InOrder'
      BY <1>0, <2>9, <3>4, Zenon DEF InOrder, Handled, Asking, serverVars
    <3>8. (need > 0 => /\ op.op = "GET" /\ Len(res) + 1 <= Len(answers)
                       /\ value = answers[Len(res) + 1] /\ need <= ValueUnits("GET", value))'
      BY <1>0, <2>3, <2>4, <2>9, <3>1, <3>4 DEF k, r, v, serverVars
    <3>9. GoingInv'
      BY <1>0, <2>1, <2>9, <3>4, <3>6, <3>7, <3>8 DEF GoingInv, serverVars
    <3> QED BY <3>2, <3>3, <3>9, Zenon DEF WireInv
  <2>10. CASE ~(k = "GET" /\ u.line = "OK") /\ fd' = fd /\ Got(IF k = "GET" \/ u.line = "bytes" THEN None ELSE u.v)
    <3> DEFINE x == IF k = "GET" \/ u.line = "bytes" THEN None ELSE u.v
    <3>1. x \in Values /\ (x # None => x = v)
      BY <1>2, <2>3, <2>6, Zenon
    <3>2. Got(x)
      BY <2>10, Zenon
    <3>3. ValueUnits(k, v) = 0
      BY <2>6, <2>10, Zenon
    <3> HIDE DEF x
    <3>4. Carried(k, answers, r + 1, 0, Stream', serving)
      BY <2>1, <2>7, <3>3, Zenon
    <3>5. fd' \in BOOLEAN /\ fd' /\ fd
      BY <1>4, <2>10, Zenon
    <3> QED BY <1>0, <2>1, <2>3, <3>1, <3>2, <3>4, <3>5, GotStep, Zenon DEF k, r, v
  <2> QED BY <1>1, <2>8, <2>9, <2>10, Zenon DEF k, u
<1> QED BY <1>3, <1>4, Zenon

\* Another unit of a value; the last one completes the answer.
LEMMA RecvExactlyStep ==
  ASSUME WireInv, RecvExactly
  PROVE  WireInv'
<1>0. /\ todo # <<>> /\ cpc = "recv" /\ need > 0 /\ pending # <<>> /\ pending' = Tail(pending) /\ fd' = fd
      /\ UNCHANGED <<serverVars, upq, downq>> /\ UNCHANGED <<serverVars, downq>>
  BY Zenon DEF RecvExactly
<1>1. fd
  BY <1>0 DEF WireInv, LostInv
<1>2. /\ Stream' = Tail(Stream) /\ Stream # <<>> /\ Stream \in Seq(Replies)
      /\ pending' \in Seq(Replies) /\ Len(pending') <= DownCap
      /\ GoingInv /\ op \in Operations /\ answers \in Seq(Values) /\ Len(res) \in Nat /\ need \in Nat
  BY <1>0, <1>1, TakeUnit, Zenon
<1>3. /\ op.op = "GET" /\ Len(res) + 1 <= Len(answers) /\ value = answers[Len(res) + 1] /\ need <= ValueUnits("GET", value)
      /\ Carried(op.op, answers, Len(res), need, Stream, serving)
  BY <1>0, <1>2, Zenon DEF GoingInv
<1>4. serving \in BOOLEAN /\ value \in Values
  BY Zenon DEF WireInv, WireTypes
<1>5. Carried(op.op, answers, IF need - 1 = 0 THEN Len(res) + 1 ELSE Len(res), need - 1, Tail(Stream), serving)
  <2>1. need - 1 \in Nat /\ need # 0
    BY <1>0, <1>2
  <2> QED BY <1>2, <1>3, <1>4, <2>1, CarriedTail, Zenon
<1>6. CASE need > 1
  <2>1. need' = need - 1 /\ UNCHANGED <<todo, cpc, sent, value, res>> /\ op' = op
    BY <1>6, Zenon DEF RecvExactly, op
  <2>2. WireTypes'
    BY <1>0, <1>2, <1>6, <2>1 DEF WireInv, WireTypes, serverVars
  <2>3. AnswersMatch' /\ StreamClean' /\ Control' /\ (~fd => LostInv)'
    BY <1>0, <1>1, <2>1 DEF WireInv, AnswersMatch, StreamClean, Control, serverVars
  <2>4. Carried(op.op, answers, Len(res), need - 1, Tail(Stream), serving)
    BY <1>2, <1>5, <1>6
  <2>5. Carried(op.op, answers, Len(res), need, Stream, serving)'
    <3>1. answers' = answers /\ res' = res /\ serving' = serving
      BY <1>0, <2>1, Zenon DEF serverVars
    <3> QED BY <1>2, <2>1, <2>4, <3>1, Zenon
  <2>6. InOrder => InOrder'
    BY <1>0, <2>1, Zenon DEF InOrder, Handled, Asking, serverVars
  <2>7. need - 1 <= ValueUnits("GET", value)
    BY <1>2, <1>3, <1>4, ValueUnitsType
  <2>8. GoingInv'
    BY <1>0, <1>2, <1>3, <2>1, <2>5, <2>6, <2>7 DEF GoingInv, serverVars
  <2> QED BY <2>2, <2>3, <2>8, Zenon DEF WireInv
<1>7. CASE ~(need > 1)
  <2> DEFINE x == IF value.sound /\ Head(pending).line = "bytes" THEN value ELSE None
  <2>1. Got(x)
    BY <1>7, Zenon DEF RecvExactly
  <2>2. x \in Values /\ (x # None => x = value)
    BY <1>4, Zenon DEF Values
  <2> HIDE DEF x
  <2>3. need - 1 = 0
    BY <1>0, <1>2, <1>7
  <2>4. Carried(op.op, answers, Len(res) + 1, 0, Stream', serving)
    BY <1>2, <1>5, <2>3, Zenon
  <2>5. fd' \in BOOLEAN /\ fd' /\ fd
    BY <1>0, <1>1, Zenon DEF WireInv, WireTypes
  <2> QED BY <1>0, <1>2, <1>3, <2>1, <2>2, <2>4, <2>5, GotStep, Zenon
<1> QED BY <1>6, <1>7, Zenon

\* The daemon reads questions into its buffer.
LEMMA ServerFillStep ==
  ASSUME WireInv, ServerFill
  PROVE  WireInv'
<1>0. /\ op' = op /\ serving /\ inq = <<>> /\ upq # <<>>
      /\ UNCHANGED <<clientVars, reply, serving, store, answers, downq>>
  BY Zenon DEF ServerFill, op, clientVars
<1>1. PICK n \in 1..InCap : n <= Len(upq) /\ inq' = SubSeq(upq, 1, n) /\ upq' = SubSeq(upq, n + 1, Len(upq))
  BY Zenon DEF ServerFill
<1>2. upq \in Seq(Requests) /\ n \in 1..Len(upq)
  BY <1>1, WireAssumption DEF WireInv, WireTypes
<1>3. inq' \in Seq(Requests) /\ upq' \in Seq(Requests) /\ inq' \o upq' = upq
  BY <1>1, <1>2, ConcatSplit, Zenon
<1>4. Asking' = Asking
  <2>1. Asking = upq
    BY <1>0, <1>2, ConcatEmpty, Zenon DEF Asking
  <2> QED BY <1>3, <2>1, Zenon DEF Asking
<1>5. WireTypes'
  BY <1>0, <1>3, Zenon DEF WireInv, WireTypes, clientVars
<1>6. AnswersMatch' /\ StreamClean' /\ Control' /\ (~fd => LostInv)'
  BY <1>0, Zenon DEF WireInv, AnswersMatch, StreamClean, Control, LostInv, clientVars
<1>7. (Going => GoingInv)'
  <2>1. Stream' = Stream /\ (Going' <=> Going)
    BY <1>0, Zenon DEF Stream, Going, clientVars
  <2>2. InOrder => InOrder'
    BY <1>0, <1>4, Zenon DEF InOrder, Handled, clientVars
  <2>3. Carried(op.op, answers, Len(res), need, Stream, serving)
        => Carried(op.op, answers, Len(res), need, Stream, serving)'
    BY <1>0, <2>1, Zenon DEF clientVars
  <2> QED BY <1>0, <2>1, <2>2, <2>3, Zenon DEF WireInv, GoingInv, clientVars
<1> QED BY <1>5, <1>6, <1>7, Zenon DEF WireInv

\* The daemon writes a unit of its reply.
LEMMA ServerWriteStep ==
  ASSUME WireInv, ServerWrite
  PROVE  WireInv'
<1>0. /\ op' = op /\ serving /\ reply # <<>> /\ Len(downq) < DownCap
      /\ downq' = Append(downq, Head(reply)) /\ reply' = Tail(reply)
      /\ UNCHANGED <<clientVars, inq, serving, store, answers, upq>>
  BY Zenon DEF ServerWrite, op, clientVars
<1>1. downq \in Seq(Replies) /\ reply \in Seq(Replies)
  BY Zenon DEF WireInv, WireTypes
<1>2. downq' \in Seq(Replies) /\ reply' \in Seq(Replies) /\ Len(downq') <= DownCap
  BY <1>0, <1>1, WireAssumption
<1>3. WireTypes'
  BY <1>0, <1>2, Zenon DEF WireInv, WireTypes, clientVars
<1>4. AnswersMatch' /\ StreamClean' /\ Control' /\ (~fd => LostInv)'
  BY <1>0, Zenon DEF WireInv, AnswersMatch, StreamClean, Control, LostInv, clientVars
<1>5. (Going => GoingInv)'
  <2>1. Stream' = Stream
    <3>1. downq' \o reply' = downq \o reply
      BY <1>0, <1>1, ConcatMove, Zenon
    <3> QED BY <1>0, <3>1, Zenon DEF Stream, clientVars
  <2>2. Going' <=> Going
    BY <1>0, Zenon DEF Going, clientVars
  <2>3. InOrder => InOrder'
    BY <1>0, Zenon DEF InOrder, Handled, Asking, clientVars
  <2>4. Carried(op.op, answers, Len(res), need, Stream, serving)
        => Carried(op.op, answers, Len(res), need, Stream, serving)'
    BY <1>0, <2>1, Zenon DEF clientVars
  <2> QED BY <1>0, <2>2, <2>3, <2>4, Zenon DEF WireInv, GoingInv, clientVars
<1> QED BY <1>3, <1>4, <1>5, Zenon DEF WireInv

\* When the daemon hangs up, what it wrote is still the beginning of the answers.
LEMMA HangUpStep ==
  ASSUME WireInv, ShortValue, UNCHANGED <<clientVars, store, answers, downq>>
  PROVE  WireInv'
<1>0. /\ op' = op /\ serving' = FALSE /\ inq' = <<>> /\ reply' = <<>> /\ upq' = <<>>
      /\ UNCHANGED <<clientVars, store, answers, downq>>
  BY Zenon DEF ShortValue, op, clientVars
<1>1. WireTypes'
  <2>0. <<>> \in Seq(Requests) /\ <<>> \in Seq(Replies)
    OBVIOUS
  <2>1. serving' \in BOOLEAN /\ inq' \in Seq(Requests) /\ upq' \in Seq(Requests) /\ reply' \in Seq(Replies)
    BY <1>0, <2>0, Zenon
  <2>2. UNCHANGED <<todo, cpc, sent, fd, pending, need, value, res, store, answers, downq>>
    BY <1>0, Zenon DEF clientVars
  <2> QED BY <2>1, <2>2, Zenon DEF WireInv, WireTypes
<1>2. AnswersMatch' /\ StreamClean' /\ Control' /\ (~fd => LostInv)'
  BY <1>0 DEF WireInv, AnswersMatch, StreamClean, Control, LostInv, clientVars
<1>3. (Going => GoingInv)'
  <2> HAVE Going'
  <2>1. Going
    BY <1>0 DEF Going, clientVars
  <2>2. GoingInv
    BY <2>1, Zenon DEF WireInv
  <2>3. pending \in Seq(Replies) /\ downq \in Seq(Replies) /\ reply \in Seq(Replies)
    BY Zenon DEF WireInv, WireTypes
  <2>4. Stream \in Seq(Replies) /\ Stream' \in Seq(Replies) /\ Len(Stream') <= Len(Stream)
        /\ \A i \in 1..Len(Stream') : Stream'[i] = Stream[i]
    <3>1. Stream' = pending \o downq
      <4>1. Stream' = pending \o (downq \o <<>>)
        BY <1>0, Zenon DEF Stream, clientVars
      <4> QED BY <2>3, <4>1, ConcatEmpty, Zenon
    <3> QED BY <2>3, <3>1 DEF Stream
  <2>5. Carried(op.op, answers, Len(res), need, Stream, serving)
    BY <2>2, Zenon DEF GoingInv
  <2>6. Carried(op.op, answers, Len(res), need, Stream', FALSE)
    BY <2>4, <2>5, CarriedPrefix, Zenon
  <2>7. Carried(op.op, answers, Len(res), need, Stream, serving)'
    BY <1>0, <2>6, Zenon DEF clientVars
  <2> QED BY <1>0, <2>2, <2>7, Zenon DEF GoingInv, clientVars
<1> QED BY <1>1, <1>2, <1>3, Zenon DEF WireInv

\* What Handle does with a question: it says nothing yet, or it answers it.
LEMMA HandleAnswers ==
  ASSUME WireTypes, Handle, NEW u, u = Head(inq)
  PROVE  /\ u \in Requests /\ store' \in [Keys -> Values]
         /\ u.line \in {"count", "PUT"} => reply' = <<>> /\ answers' = answers
         /\ u.line \notin {"count", "PUT"} =>
              LET k == IF u.line = "value" THEN "PUT" ELSE u.line
              IN  \E v \in Values : /\ answers' = Append(answers, v) /\ reply' \in Seq(Replies)
                                    /\ Len(reply') = 1 + ValueUnits(k, v) /\ reply'[1] = Header(k, v)
                                    /\ \A i \in 2..Len(reply') : reply'[i] = Part(v)
<1>1. u \in Requests /\ store \in [Keys -> Values] /\ reply = <<>>
  BY DEF WireTypes, Handle
<1>2. u.line \in {"GET", "HAS", "IDS", "PUT", "value", "count"} /\ (u.line # "count" => u.key \in Keys)
  BY <1>1, Zenon DEF Requests
<1>3. None \in Values
  BY Zenon DEF Values
<1> DEFINE has == store[u.key]
<1>4. u.line # "count" => has \in Values
  BY <1>1, <1>2, Zenon
<1>5. CASE u.line \in {"count", "PUT"}
  BY <1>1, <1>5, Zenon DEF Handle
<1>6. CASE u.line \in {"HAS", "IDS"}
  <2>1. reply' = Line(u.line, has) /\ answers' = Append(answers, has) /\ store' = store
    BY <1>6, Zenon DEF Handle
  <2>2. has \in Values
    BY <1>4, <1>6, Zenon
  <2> HIDE DEF has
  <2>3. reply' \in Seq(Replies) /\ Len(reply') = 1 /\ reply'[1] = Header(u.line, has)
    BY <1>6, <2>1, <2>2 DEF Line, Replies, Header
  <2>4. ValueUnits(u.line, has) = 0
    BY <1>6, Zenon DEF ValueUnits
  <2>5. Len(reply') = 1 + ValueUnits(u.line, has) /\ \A i \in 2..Len(reply') : reply'[i] = Part(has)
    BY <2>3, <2>4
  <2> QED BY <1>1, <1>6, <2>1, <2>2, <2>3, <2>5, Zenon
<1>7. CASE u.line = "value"
  <2>1. /\ reply' = Line("OK", None) /\ answers' = Append(answers, None)
        /\ \E n \in Sizes : store' = [store EXCEPT ![u.key] = [hit |-> TRUE, key |-> u.key, size |-> n, sound |-> TRUE]]
    BY <1>7, Zenon DEF Handle
  <2>2. store' \in [Keys -> Values]
    <3>1. PICK n \in Sizes :
            store' = [store EXCEPT ![u.key] = [hit |-> TRUE, key |-> u.key, size |-> n, sound |-> TRUE]]
      BY <2>1, Zenon
    <3>2. [hit |-> TRUE, key |-> u.key, size |-> n, sound |-> TRUE] \in Values
      BY <1>2, <1>7, Zenon DEF Values
    <3> QED BY <1>1, <3>1, <3>2, Zenon
  <2>3. reply' \in Seq(Replies) /\ Len(reply') = 1 /\ reply'[1] = Header("PUT", None)
    BY <1>3, <2>1 DEF Line, Replies, Header
  <2>4. ValueUnits("PUT", None) = 0
    BY Zenon DEF ValueUnits
  <2>5. Len(reply') = 1 + ValueUnits("PUT", None) /\ \A i \in 2..Len(reply') : reply'[i] = Part(None)
    BY <2>3, <2>4
  <2> QED BY <1>1, <1>3, <1>7, <2>1, <2>2, <2>3, <2>5, Zenon
<1>8. CASE u.line = "GET"
  <2>1. /\ store' = store
        /\ IF has.hit THEN reply' = Line("OK", has) \o Bytes(has) /\ answers' = Append(answers, has)
           ELSE reply' = Line("MISS", None) /\ answers' = Append(answers, None)
    BY <1>8, Zenon DEF Handle
  <2>2. has \in Values
    BY <1>4, <1>8, Zenon
  <2> HIDE DEF has
  <2>3. CASE has.hit
    <3>1. ValueUnits("GET", has) = has.size /\ has.size \in Nat
      BY <2>2, <2>3, ValueUnitsType, Zenon DEF ValueUnits
    <3>2. Bytes(has) \in Seq(Replies) /\ Len(Bytes(has)) = has.size /\ \A i \in 1..has.size : Bytes(has)[i] = Part(has)
      <4> DEFINE p == Part(has)
                 m == has.size
      <4>1. p \in Replies /\ m \in Nat
        BY <2>2, <3>1, Zenon DEF Replies, Part
      <4>2. Bytes(has) = [i \in 1..m |-> p]
        BY Zenon DEF Bytes, Part
      <4> HIDE DEF p, m
      <4>3. [i \in 1..m |-> p] \in Seq(Replies) /\ Len([i \in 1..m |-> p]) = m
        BY <4>1
      <4>4. \A j \in 1..m : [i \in 1..m |-> p][j] = p
        BY Zenon
      <4> QED BY <4>2, <4>3, <4>4, Zenon DEF p, m
    <3>3. Line("OK", has) \in Seq(Replies) /\ Len(Line("OK", has)) = 1 /\ Line("OK", has)[1] = Header("GET", has)
      BY <2>2, <2>3 DEF Line, Replies, Header
    <3>4. reply' = Line("OK", has) \o Bytes(has) /\ answers' = Append(answers, has)
      BY <2>1, <2>3, Zenon
    <3>5. reply' \in Seq(Replies) /\ Len(reply') = 1 + has.size
      BY <3>2, <3>3, <3>4, Concat, Zenon
    <3>6. reply'[1] = Header("GET", has) /\ \A i \in 2..Len(reply') : reply'[i] = Part(has)
      <4> DEFINE a == Line("OK", has)
                 b == Bytes(has)
                 m == has.size
      <4>1. a \in Seq(Replies) /\ Len(a) = 1 /\ b \in Seq(Replies) /\ Len(b) = m /\ reply' = a \o b /\ m \in Nat
        BY <3>1, <3>2, <3>3, <3>4, Zenon
      <4> HIDE DEF a, b, m
      <4>2. (a \o b)[1] = a[1] /\ \A i \in 2..Len(a \o b) : (a \o b)[i] = b[i - 1] /\ i - 1 \in 1..Len(b)
        BY <4>1, ConcatUnits, Zenon
      <4>3. \A i \in 2..Len(a \o b) : (a \o b)[i] = Part(has)
        BY <3>2, <4>1, <4>2, Zenon DEF b, m
      <4> QED BY <3>3, <4>1, <4>2, <4>3, Zenon DEF a
    <3> QED BY <1>1, <1>8, <2>1, <2>2, <3>1, <3>4, <3>5, <3>6, Zenon
  <2>4. CASE ~has.hit
    <3>1. reply' = Line("MISS", None) /\ answers' = Append(answers, None)
      BY <2>1, <2>4, Zenon
    <3>2. reply' \in Seq(Replies) /\ Len(reply') = 1 /\ reply'[1] = Header("GET", None)
      <4>1. Header("GET", None) = [line |-> "MISS", v |-> None]
        BY Zenon DEF Header, None
      <4>2. [line |-> "MISS", v |-> None] \in Replies
        BY <1>3, Zenon DEF Replies
      <4> QED BY <3>1, <4>1, <4>2 DEF Line
    <3>3. ValueUnits("GET", None) = 0
      BY Zenon DEF ValueUnits, None
    <3>4. Len(reply') = 1 + ValueUnits("GET", None) /\ \A i \in 2..Len(reply') : reply'[i] = Part(None)
      BY <3>2, <3>3
    <3> QED BY <1>1, <1>3, <1>8, <2>1, <3>1, <3>2, <3>4, Zenon
  <2> QED BY <2>3, <2>4, Zenon
<1> QED BY <1>2, <1>5, <1>6, <1>7, <1>8, Zenon

\* The daemon answers the questions in the order they came.
LEMMA HandleStep ==
  ASSUME WireInv, Handle
  PROVE  WireInv'
<1> DEFINE u == Head(inq)
<1>0. /\ op' = op /\ serving /\ reply = <<>> /\ inq # <<>> /\ inq' = Tail(inq)
      /\ UNCHANGED <<clientVars, serving, upq, downq>>
  BY Zenon DEF Handle, op, clientVars
<1>1. WireTypes
  BY Zenon DEF WireInv
<1>2. /\ u \in Requests /\ store' \in [Keys -> Values]
      /\ u.line \in {"count", "PUT"} => reply' = <<>> /\ answers' = answers
      /\ u.line \notin {"count", "PUT"} =>
           LET k == IF u.line = "value" THEN "PUT" ELSE u.line
           IN  \E v \in Values : /\ answers' = Append(answers, v) /\ reply' \in Seq(Replies)
                                 /\ Len(reply') = 1 + ValueUnits(k, v) /\ reply'[1] = Header(k, v)
                                 /\ \A i \in 2..Len(reply') : reply'[i] = Part(v)
  BY <1>1, HandleAnswers, Zenon
<1>3. answers \in Seq(Values) /\ res \in Seq(Values) /\ inq \in Seq(Requests) /\ upq \in Seq(Requests)
      /\ pending \in Seq(Replies) /\ downq \in Seq(Replies)
  BY <1>1, Zenon DEF WireTypes
<1> HIDE DEF u
<1>4. answers' = answers \/ \E v \in Values : answers' = Append(answers, v)
  BY <1>2, Zenon
<1>5. reply' \in Seq(Replies)
  <2>1. <<>> \in Seq(Replies)
    OBVIOUS
  <2> QED BY <1>2, <2>1, Zenon
<1>6. /\ answers' \in Seq(Values) /\ Len(answers) <= Len(answers')
      /\ \A i \in DOMAIN answers : i \in DOMAIN answers' /\ answers'[i] = answers[i]
  <2>1. CASE answers' = answers
    BY <1>3, <2>1
  <2>2. ASSUME NEW v \in Values, answers' = Append(answers, v)
        PROVE  /\ answers' \in Seq(Values) /\ Len(answers) <= Len(answers')
               /\ \A i \in DOMAIN answers : i \in DOMAIN answers' /\ answers'[i] = answers[i]
    BY <1>3, <2>2
  <2> QED BY <1>4, <2>1, <2>2, Zenon
<1>7. WireTypes'
  <2>1. inq' \in Seq(Requests)
    BY <1>0, <1>3
  <2> QED BY <1>0, <1>1, <1>2, <1>5, <1>6, <2>1, Zenon DEF WireTypes, clientVars
<1>8. AnswersMatch'
  BY <1>0, <1>6, Zenon DEF WireInv, AnswersMatch, clientVars
<1>9. StreamClean' /\ Control' /\ (~fd => LostInv)'
  BY <1>0, Zenon DEF WireInv, StreamClean, Control, LostInv, clientVars
<1>10. (Going => GoingInv)'
  <2> HAVE Going'
  <2>1. GoingInv /\ InOrder /\ todo # <<>>
    BY <1>0, Zenon DEF WireInv, Going, GoingInv, clientVars
  <2>2. op \in Operations /\ sent \in Nat /\ sent <= Len(Units(op))
    BY <1>1, <2>1, QueueTypes, Zenon DEF WireTypes, GoingInv
  <2>3. Asking' = Tail(Asking) /\ Asking # <<>> /\ u = Asking[1] /\ Asking \in Seq(Requests)
    <3>1. Asking' = Tail(inq) \o upq
      BY <1>0, Zenon DEF Asking
    <3> QED BY <1>0, <1>1, <1>3, <3>1, ConcatTail, QueueTypes, Zenon DEF Asking, u
  <2>4. Len(Asking') = Len(Asking) - 1 /\ Len(Asking) \in Nat /\ Len(Asking) > 0
    BY <2>3
  <2>5. Handled \in Nat /\ Handled' = Handled + 1 /\ Handled < sent /\ Len(Asking') <= sent
    BY <1>0, <2>1, <2>2, <2>4 DEF Handled, InOrder, clientVars
  <2>6. u = Units(op)[Handled + 1]
    <3>1. 1 \in 1..Len(Asking)
      BY <2>4
    <3> QED BY <2>1, <2>3, <3>1, Zenon DEF InOrder
  <2>7. Handled <= Len(Units(op)) /\ Handled < Len(Units(op)) /\ Handled + 1 \in 1..Len(Units(op))
    BY <2>2, <2>5, UnitsAre
  <2>8. Asked(op, Handled + 1) = IF u.line \in {"count", "PUT"} THEN Asked(op, Handled) ELSE Asked(op, Handled) + 1
    BY <2>2, <2>5, <2>6, <2>7, AskedSteps, Zenon
  <2>9. u.line \notin {"count", "PUT"} => op.op = IF u.line = "value" THEN "PUT" ELSE u.line
    <3>1. u.line = IF op.op = "PUT" THEN (IF (Handled + 1) % 2 = 1 THEN "PUT" ELSE "value")
                   ELSE IF op.op = "IDS" /\ Handled + 1 = 1 THEN "count" ELSE op.op
      BY <2>2, <2>6, <2>7, UnitsAre, Zenon
    <3>2. op.op \in {"GET", "HAS", "PUT", "IDS"}
      BY <2>2, Zenon DEF Operations
    <3> QED BY <3>1, <3>2, Zenon
  <2>10. \A i \in 1..Len(Asking') : Asking'[i] = Units(op)[Handled' + i]
    <3> TAKE i \in 1..Len(Asking')
    <3>1. i + 1 \in 1..Len(Asking) /\ Asking'[i] = Asking[i + 1]
      BY <2>3, <2>4
    <3>2. Handled + (i + 1) = Handled' + i
      BY <2>4, <2>5
    <3> QED BY <2>1, <3>1, <3>2, Zenon DEF InOrder
  <2>11. Len(answers) = Asked(op, Handled)
    BY <2>1, Zenon DEF InOrder
  <2>12. Carried(op.op, answers, Len(res), need, Stream, TRUE)
    BY <1>0, <2>1, Zenon DEF GoingInv, Carried
  <2>13. /\ Len(res) \in Nat /\ need \in Nat
         /\ need > 0 => Len(res) < Len(answers) /\ Len(res) + 1 \in DOMAIN answers
    BY <1>1, <1>3, <2>1 DEF WireTypes, GoingInv
  <2>14. Stream = pending \o downq /\ Stream \in Seq(Replies)
    <3>1. Stream = pending \o (downq \o <<>>)
      BY <1>0, Zenon DEF Stream
    <3> QED BY <1>1, <1>3, <3>1, ConcatEmpty, QueueTypes, Zenon
  <2>15. Stream' = Stream \o reply'
    <3>1. Stream' = pending \o (downq \o reply')
      BY <1>0, Zenon DEF Stream, clientVars
    <3>2. pending \o (downq \o reply') = (pending \o downq) \o reply'
      BY <1>3, <1>5
    <3> QED BY <2>14, <3>1, <3>2, Zenon
  <2>16. Len(answers') = Asked(op, Handled') /\ Carried(op.op, answers', Len(res), need, Stream', TRUE)
    <3>1. CASE u.line \in {"count", "PUT"}
      <4>1. reply' = <<>> /\ answers' = answers
        BY <1>2, <3>1, Zenon
      <4>2. Stream' = Stream
        BY <2>14, <2>15, <4>1, ConcatEmpty, Zenon
      <4> QED BY <2>5, <2>8, <2>11, <2>12, <3>1, <4>1, <4>2, Zenon
    <3>2. CASE u.line \notin {"count", "PUT"}
      <4>1. PICK v \in Values : /\ answers' = Append(answers, v)
                                /\ Len(reply') = 1 + ValueUnits(op.op, v) /\ reply'[1] = Header(op.op, v)
                                /\ \A i \in 2..Len(reply') : reply'[i] = Part(v)
        BY <1>2, <2>9, <3>2, Zenon
      <4>2. Carried(op.op, Append(answers, v), Len(res), need, Stream \o reply', TRUE)
        BY <1>3, <1>5, <2>12, <2>13, <2>14, <4>1, CarriedAppend, Zenon
      <4>3. Len(answers') = Len(answers) + 1
        BY <1>3, <4>1
      <4> QED BY <2>5, <2>8, <2>11, <2>15, <3>2, <4>1, <4>2, <4>3, Zenon
    <3> QED BY <3>1, <3>2, Zenon
  <2>17. InOrder'
    BY <1>0, <2>5, <2>10, <2>16, Zenon DEF InOrder, clientVars
  <2>18. serving' /\ UNCHANGED <<cpc, sent, need, value, res>>
    BY <1>0, Zenon DEF clientVars
  <2>19. Carried(op.op, answers, Len(res), need, Stream, serving)'
    BY <1>0, <2>16, <2>18, Zenon DEF Carried
  <2>20. (need > 0 => /\ op.op = "GET" /\ Len(res) + 1 <= Len(answers)
                      /\ value = answers[Len(res) + 1] /\ need <= ValueUnits("GET", value))'
    <3>1. need > 0 => answers'[Len(res) + 1] = answers[Len(res) + 1] /\ Len(res) + 1 <= Len(answers')
      BY <1>3, <1>6, <2>13
    <3> QED BY <1>0, <2>1, <2>18, <3>1, Zenon DEF GoingInv
  <2> QED BY <1>0, <2>1, <2>17, <2>18, <2>19, <2>20, Zenon DEF GoingInv
<1> QED BY <1>7, <1>8, <1>9, <1>10, Zenon DEF WireInv

----------------------------------------------------------------------------
(* The theorems *)

\* Every step of the client and of the daemon keeps the order of questions and answers.
LEMMA WireStep ==
  ASSUME WireInv, [WireNext]_wireVars
  PROVE  WireInv'
<1>1. CASE UNCHANGED wireVars
  <2>1. UNCHANGED <<todo, cpc, sent, fd, pending, need, value, res, inq, reply, serving, store, answers, upq, downq>>
    BY <1>1, Zenon DEF wireVars, clientVars, serverVars
  <2> QED BY <2>1, Zenon DEF WireInv, WireTypes, AnswersMatch, StreamClean, Control, Going, GoingInv, LostInv,
       InOrder, Handled, Asking, Stream, op
<1>2. ASSUME ServerShort PROVE WireInv'
  BY <1>2, HangUpStep, Zenon DEF ServerShort
<1>3. ASSUME ServerDies PROVE WireInv'
  BY <1>3, HangUpStep, Zenon DEF ServerDies, ShortValue
<1> QED BY <1>1, <1>2, <1>3, BeginStep, SendStep, SendFailsStep, AllSentStep, FillStep, EndOfStreamStep, RecvLineStep,
     RecvExactlyStep, ServerFillStep, HandleStep, ServerWriteStep, Zenon DEF WireNext, Done

\* The inductive invariant of a connection: what is on its way to the daemon are the next
\* questions of the operation, and what is on its way back are its next answers, in
\* order, to the last one while the daemon serves.
THEOREM WireIsInOrder == WireSpec => []WireInv
<1>1. WireInit => WireInv
  BY WireStart, Zenon
<1>2. WireInv /\ [WireNext]_wireVars => WireInv'
  BY WireStep, Zenon
<1> QED BY <1>1, <1>2, PTL DEF WireSpec

\* Whatever the plans, the values and the buffers, the client never takes one answer for
\* another: each result of GetMany, HasMany and Ids is a miss or the daemon's answer to
\* that very key.
THEOREM AnswersAlwaysMatch == WireSpec => []AnswersMatch
<1>1. WireInv => AnswersMatch
  BY Zenon DEF WireInv
<1> QED BY <1>1, WireIsInOrder, PTL

\* An operation of CacheClient that returns with a connection leaves nothing on it.
THEOREM StreamStaysClean == WireSpec => []StreamClean
<1>1. WireInv => StreamClean
  BY Zenon DEF WireInv
<1> QED BY <1>1, WireIsInOrder, PTL

=============================================================================
