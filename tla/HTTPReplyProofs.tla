--------------------------- MODULE HTTPReplyProofs --------------------------
(***************************************************************************)
(* Proofs about an HTTP request (StreamHTTP and HTTPReply): the framing of *)
(* its messages and of the chunks of an HttpBody, for any body, any limit  *)
(* and any way the reader cuts the body in pieces; what its answer says;   *)
(* what the loops of negotiateContentType find.                            *)
(***************************************************************************)
EXTENDS HTTPReply, Inductions

(* The units read and not yet used. *)
Held == IF pc = "scan" THEN buf ELSE rbuf

(* The body from unit at + 1 on is d and then r. *)
Holds(body, at, d, r) ==
  /\ at + Len(d) + Len(r) = Len(body)
  /\ \A k \in 1 .. Len(d) : d[k] = body[at + k]
  /\ \A k \in 1 .. Len(r) : r[k] = body[at + Len(d) + k]

(* Message i ends with unit at; 0 is before the first unit. *)
Boundary(body, at, i) ==
  IF at = 0 THEN i = 0 ELSE body[at].msg = i /\ body[at].pos = body[at].size

(* What the state of a call says of the call. *)
Calls ==
  /\ pc = "scan" => req.hasBody /\ req.streaming
  /\ pc = "all" => req.hasBody /\ ~req.streaming
  /\ pc # "idle" => ~rEOF /\ last \in {"none", "message"} /\ req.codec # "none"
  /\ pc = "idle" => buf = <<>> /\ total = 0
  /\ total <= Len(buf)
  /\ last \in {"none", "message"} => recvCount = Len(received) + (IF pc = "idle" THEN 0 ELSE 1)
  /\ recvCount = 0 => ~rEOF /\ received = <<>>
  /\ recvCount = 0 => last = "none" \/ (last = "error" /\ (req.codec = "none" \/ ~req.paramsOK))
  /\ params = IF received = <<>> THEN {} ELSE {1}

(* Between two messages nothing of the body is lost or seen twice, and what  *)
(* is held begins with a message.                                            *)
Framing ==
  Stream /\ ~rEOF /\ last # "error" =>
    \E at \in 0 .. Len(req.body) :
      /\ Boundary(req.body, at, Len(received))
      /\ Holds(req.body, at, Held, rest)

(* rEOF is set when all was received, if the reader is not early. *)
Complete ==
  Stream /\ rEOF /\ ~eofEarly /\ last # "error" =>
    \A p \in 1 .. Len(req.body) :
      /\ req.body[p].msg \in 1 .. Len(received)
      /\ Whole(req, received[req.body[p].msg], req.body[p].msg)

(* readAll has all that was read. *)
Unary ==
  req.hasBody /\ ~req.streaming /\ ~rEOF /\ last # "error" =>
    Len(buf) = total /\ total + Len(rest) = Len(req.body)

SInv ==
  TypeOK /\ Calls /\ Framing /\ Complete /\ Unary /\ FramesInOrder /\ RefusedForAReason

-----------------------------------------------------------------------------
(* Sequences. *)

LEMMA SumMoves ==
  ASSUME NEW a \in Nat, NEW b \in Nat, NEW c \in Nat, NEW k \in Nat
  PROVE  /\ a + (b + k) + (c - k) = a + b + c
         /\ (a + k) + (b - k) + c = a + b + c
OBVIOUS

LEMMA SumBound ==
  ASSUME NEW a \in Nat, NEW b \in Nat, NEW c \in Nat, NEW d \in Nat, a + b + c = d
  PROVE  a \in 0 .. d
OBVIOUS

LEMMA SubSeqFacts ==
  ASSUME NEW S, NEW s \in Seq(S), NEW m \in 1 .. Len(s) + 1, NEW n \in m - 1 .. Len(s)
  PROVE  /\ SubSeq(s, m, n) \in Seq(S)
         /\ Len(SubSeq(s, m, n)) = n - m + 1
         /\ \A i \in 1 .. n - m + 1 : SubSeq(s, m, n)[i] = s[m + i - 1]
<1>1. Len(s) \in Nat /\ m \in Int /\ n \in Int
  OBVIOUS
<1>2. \A i \in m .. n : s[i] \in S
  BY <1>1, ElementOfSeq
<1>3. /\ SubSeq(s, m, n) \in Seq(S)
      /\ Len(SubSeq(s, m, n)) = IF m <= n THEN n - m + 1 ELSE 0
      /\ \A i \in 1 .. n - m + 1 : SubSeq(s, m, n)[i] = s[m + i - 1]
  BY <1>1, <1>2, SubSeqProperties
<1> QED BY <1>1, <1>3

LEMMA AppendFacts ==
  ASSUME NEW S, NEW s \in Seq(S), NEW e \in S
  PROVE  Append(s, e) \in Seq(S) /\ Append(s, e) # <<>> /\ Len(Append(s, e)) = Len(s) + 1
<1>1. Append(s, e) \in Seq(S) /\ Len(Append(s, e)) = Len(s) + 1
  OBVIOUS
<1>2. Len(s) \in Nat
  OBVIOUS
<1>3. Len(Append(s, e)) # 0 /\ Len(<<>>) = 0
  BY <1>1, <1>2
<1> QED BY <1>1, <1>3, Zenon

(* The reader hands out k units more. *)
LEMMA HoldsRead ==
  ASSUME NEW b \in Seq(Unit), NEW d \in Seq(Unit), NEW r \in Seq(Unit), NEW at \in Nat,
         Holds(b, at, d, r), NEW k \in 0 .. Len(r)
  PROVE  Holds(b, at, d \o SubSeq(r, 1, k), SubSeq(r, k + 1, Len(r)))
<1> DEFINE x == SubSeq(r, 1, k)
           y == SubSeq(r, k + 1, Len(r))
           e == d \o x
<1>1. Len(r) \in Nat /\ Len(d) \in Nat /\ k \in Nat /\ k <= Len(r)
  OBVIOUS
<1>2. x \in Seq(Unit) /\ Len(x) = k /\ \A i \in 1 .. k : x[i] = r[i]
  <2>1. 1 \in 1 .. Len(r) + 1 /\ k \in 1 - 1 .. Len(r)
    BY <1>1
  <2>2. /\ x \in Seq(Unit) /\ Len(x) = k - 1 + 1
        /\ \A i \in 1 .. k - 1 + 1 : x[i] = r[1 + i - 1]
    BY <2>1, SubSeqFacts
  <2> QED BY <1>1, <2>2
<1>3. y \in Seq(Unit) /\ Len(y) = Len(r) - k /\ \A i \in 1 .. Len(r) - k : y[i] = r[k + i]
  <2>1. k + 1 \in 1 .. Len(r) + 1 /\ Len(r) \in (k + 1) - 1 .. Len(r)
    BY <1>1
  <2>2. /\ y \in Seq(Unit) /\ Len(y) = Len(r) - (k + 1) + 1
        /\ \A i \in 1 .. Len(r) - (k + 1) + 1 : y[i] = r[(k + 1) + i - 1]
    BY <2>1, SubSeqFacts
  <2> QED BY <1>1, <2>2
<1> HIDE DEF x, y
<1>4. /\ Len(e) = Len(d) + k
      /\ \A i \in 1 .. Len(d) + k : e[i] = IF i <= Len(d) THEN d[i] ELSE x[i - Len(d)]
  BY <1>2, ConcatProperties
<1> HIDE DEF e
<1>5. at + Len(d) + Len(r) = Len(b)
  BY DEF Holds
<1>6. at + Len(e) + Len(y) = Len(b)
  <2>1. at + (Len(d) + k) + (Len(r) - k) = at + Len(d) + Len(r)
    BY <1>1, SumMoves
  <2> QED BY <1>3, <1>4, <1>5, <2>1, Zenon
<1>7. ASSUME NEW i \in 1 .. Len(e)
      PROVE  e[i] = b[at + i]
  <2>1. CASE i <= Len(d)
    BY <1>1, <1>4, <2>1 DEF Holds
  <2>2. CASE ~(i <= Len(d))
    <3>1. i - Len(d) \in 1 .. k /\ i - Len(d) \in 1 .. Len(r)
      BY <1>1, <1>4, <2>2
    <3>2. e[i] = r[i - Len(d)]
      BY <1>1, <1>2, <1>4, <2>2, <3>1
    <3>3. r[i - Len(d)] = b[at + Len(d) + (i - Len(d))]
      BY <3>1 DEF Holds
    <3>4. at + Len(d) + (i - Len(d)) = at + i
      BY <1>1, <1>4
    <3> QED BY <3>2, <3>3, <3>4
  <2> QED BY <2>1, <2>2
<1>8. ASSUME NEW i \in 1 .. Len(y)
      PROVE  y[i] = b[at + Len(e) + i]
  <2>1. y[i] = r[k + i] /\ k + i \in 1 .. Len(r)
    BY <1>1, <1>3
  <2>2. r[k + i] = b[at + Len(d) + (k + i)]
    BY <2>1 DEF Holds
  <2>3. at + Len(d) + (k + i) = at + Len(e) + i
    BY <1>1, <1>3, <1>4
  <2> QED BY <2>1, <2>2, <2>3
<1>9. Holds(b, at, e, y)
  BY <1>6, <1>7, <1>8 DEF Holds
<1> QED BY <1>9 DEF e, x, y

(* The first n units held are used. *)
LEMMA HoldsCut ==
  ASSUME NEW b \in Seq(Unit), NEW d \in Seq(Unit), NEW r \in Seq(Unit), NEW at \in Nat,
         Holds(b, at, d, r), NEW n \in 0 .. Len(d)
  PROVE  /\ Holds(b, at + n, SubSeq(d, n + 1, Len(d)), r)
         /\ SubSeq(d, 1, n) = SubSeq(b, at + 1, at + n)
         /\ SubSeq(d, n + 1, Len(d)) \in Seq(Unit) /\ SubSeq(d, 1, n) \in Seq(Unit)
         /\ Len(SubSeq(d, 1, n)) = n /\ Len(SubSeq(d, n + 1, Len(d))) = Len(d) - n
<1> DEFINE x == SubSeq(d, 1, n)
           y == SubSeq(d, n + 1, Len(d))
           z == SubSeq(b, at + 1, at + n)
<1>1. Len(d) \in Nat /\ Len(b) \in Nat /\ Len(r) \in Nat /\ n \in Nat /\ n <= Len(d)
  OBVIOUS
<1>2. at + Len(d) + Len(r) = Len(b)
  BY DEF Holds
<1>3. x \in Seq(Unit) /\ Len(x) = n /\ \A i \in 1 .. n : x[i] = d[i]
  <2>1. 1 \in 1 .. Len(d) + 1 /\ n \in 1 - 1 .. Len(d)
    BY <1>1
  <2>2. /\ x \in Seq(Unit) /\ Len(x) = n - 1 + 1
        /\ \A i \in 1 .. n - 1 + 1 : x[i] = d[1 + i - 1]
    BY <2>1, SubSeqFacts
  <2> QED BY <1>1, <2>2
<1>4. y \in Seq(Unit) /\ Len(y) = Len(d) - n /\ \A i \in 1 .. Len(d) - n : y[i] = d[n + i]
  <2>1. n + 1 \in 1 .. Len(d) + 1 /\ Len(d) \in (n + 1) - 1 .. Len(d)
    BY <1>1
  <2>2. /\ y \in Seq(Unit) /\ Len(y) = Len(d) - (n + 1) + 1
        /\ \A i \in 1 .. Len(d) - (n + 1) + 1 : y[i] = d[(n + 1) + i - 1]
    BY <2>1, SubSeqFacts
  <2> QED BY <1>1, <2>2
<1>5. z \in Seq(Unit) /\ Len(z) = n /\ \A i \in 1 .. n : z[i] = b[at + i]
  <2>1. at + 1 \in 1 .. Len(b) + 1 /\ at + n \in (at + 1) - 1 .. Len(b)
    BY <1>1, <1>2
  <2>2. /\ z \in Seq(Unit) /\ Len(z) = (at + n) - (at + 1) + 1
        /\ \A i \in 1 .. (at + n) - (at + 1) + 1 : z[i] = b[(at + 1) + i - 1]
    BY <2>1, SubSeqFacts
  <2> QED BY <1>1, <2>2
<1> HIDE DEF x, y, z
<1>6. x = z
  <2>1. \A i \in 1 .. n : x[i] = z[i]
    BY <1>1, <1>3, <1>5, SMTT(30) DEF Holds
  <2> QED BY <1>3, <1>5, <2>1, SeqEqual
<1>7. (at + n) + Len(y) + Len(r) = Len(b)
  <2>1. (at + n) + (Len(d) - n) + Len(r) = at + Len(d) + Len(r)
    BY <1>1, SumMoves
  <2> QED BY <1>2, <1>4, <2>1, Zenon
<1>8. ASSUME NEW i \in 1 .. Len(y)
      PROVE  y[i] = b[(at + n) + i]
  <2>1. y[i] = d[n + i] /\ n + i \in 1 .. Len(d)
    BY <1>1, <1>4
  <2>2. d[n + i] = b[at + (n + i)]
    BY <2>1 DEF Holds
  <2>3. at + (n + i) = (at + n) + i
    BY <1>1, <1>4
  <2> QED BY <2>1, <2>2, <2>3
<1>9. ASSUME NEW i \in 1 .. Len(r)
      PROVE  r[i] = b[(at + n) + Len(y) + i]
  <2>1. r[i] = b[at + Len(d) + i]
    BY DEF Holds
  <2>2. at + Len(d) + i = (at + n) + Len(y) + i
    BY <1>1, <1>4
  <2> QED BY <2>1, <2>2
<1>10. Holds(b, at + n, y, r)
  BY <1>7, <1>8, <1>9 DEF Holds
<1> QED BY <1>3, <1>4, <1>6, <1>10 DEF x, y, z

(* After message i comes message i + 1, unit by unit. *)
LEMMA NextMessage ==
  ASSUME NEW b \in Seq(Unit), Framed(b), NEW at \in Nat, at < Len(b), NEW i \in Nat,
         Boundary(b, at, i)
  PROVE  /\ b[at + 1].size \in Nat \ {0}
         /\ \A k \in 1 .. b[at + 1].size :
              at + k <= Len(b) =>
                b[at + k].msg = i + 1 /\ b[at + k].pos = k /\ b[at + k].size = b[at + 1].size
<1> DEFINE s == b[at + 1].size
<1>1. Len(b) \in Nat /\ at + 1 \in 1 .. Len(b)
  OBVIOUS
<1>2. b[at + 1].msg = i + 1 /\ b[at + 1].pos = 1
  <2>1. CASE at = 0
    <3>1. b # <<>>
      BY <1>1
    <3> QED BY <2>1, <3>1 DEF Framed, Boundary
  <2>2. CASE at # 0
    <3>1. at \in 1 .. Len(b) - 1
      BY <1>1, <2>2
    <3> QED BY <2>2, <3>1 DEF Framed, Boundary
  <2> QED BY <2>1, <2>2
<1>3. b[at + 1] \in Unit
  BY <1>1, ElementOfSeq
<1>4. s \in Nat /\ 1 <= s
  <2>1. s \in Nat
    BY <1>3 DEF Unit
  <2>2. b[at + 1].pos \in 1 .. b[at + 1].size
    BY <1>1 DEF Framed
  <2> QED BY <1>2, <2>1, <2>2
<1>5. ASSUME NEW k \in 1 .. s, at + k <= Len(b)
      PROVE  b[at + k].msg = i + 1 /\ b[at + k].pos = k /\ b[at + k].size = s
  <2>1. CASE k = 1
    BY <1>2, <2>1
  <2>2. CASE k # 1
    <3>1. /\ at + k \in 1 .. Len(b) /\ at + 1 < at + k
          /\ (at + k) - (at + 1) <= s - 1 /\ 1 + ((at + k) - (at + 1)) = k
      <4> HIDE DEF s
      <4>1. at + k \in 1 .. Len(b) /\ at + 1 < at + k
        BY <1>1, <1>4, <1>5, <2>2
      <4>2. (at + k) - (at + 1) = k - 1 /\ k \in Nat /\ k <= s
        BY <1>4
      <4> QED BY <1>4, <4>1, <4>2
    <3>2. \A p, q \in 1 .. Len(b) :
            p < q /\ q - p <= b[p].size - b[p].pos =>
              b[q].msg = b[p].msg /\ b[q].size = b[p].size /\ b[q].pos = b[p].pos + (q - p)
      BY DEF Framed
    <3>3. /\ b[at + k].msg = b[at + 1].msg /\ b[at + k].size = b[at + 1].size
          /\ b[at + k].pos = b[at + 1].pos + ((at + k) - (at + 1))
      BY <1>1, <1>2, <3>1, <3>2
    <3> QED BY <1>2, <3>1, <3>3
  <2> QED BY <2>1, <2>2
<1> QED BY <1>4, <1>5

(* No unit is beyond the last message. *)
LEMMA LastMessage ==
  ASSUME NEW b \in Seq(Unit), Framed(b), NEW i \in Nat, Boundary(b, Len(b), i),
         NEW p \in 1 .. Len(b)
  PROVE  b[p].msg \in 1 .. i
<1>1. Len(b) \in Nat /\ Len(b) # 0 /\ b # <<>>
  OBVIOUS
<1>2. b[Len(b)].msg = i /\ b[1].msg = 1
  BY <1>1 DEF Boundary, Framed
<1>3. b[p].msg \in Nat
  <2>1. b[p] \in Unit
    BY ElementOfSeq
  <2> QED BY <2>1 DEF Unit
<1>4. \A q \in 1 .. Len(b) : p < q => b[p].msg <= b[q].msg
  BY DEF Framed
<1>5. \A q \in 1 .. Len(b) : q < p => b[q].msg <= b[p].msg
  BY DEF Framed
<1>6. p = Len(b) \/ b[p].msg <= i
  BY <1>1, <1>2, <1>4
<1>7. p = 1 \/ 1 <= b[p].msg
  BY <1>1, <1>2, <1>5
<1> QED BY <1>2, <1>3, <1>6, <1>7

-----------------------------------------------------------------------------
(* What a call returns. *)

(* The reasons Unmarshal and params.set have to refuse the next message. *)
Unacceptable == (received = <<>> /\ ~req.paramsOK) \/ Len(received) + 1 \in req.bad

LEMMA ReqFacts ==
  ASSUME TypeOK
  PROVE  /\ req.codec \in {"json", "proto", "body", "none"} /\ req.streaming \in BOOLEAN
         /\ req.hasBody \in BOOLEAN /\ req.body \in Seq(Unit) /\ Framed(req.body)
         /\ Len(req.body) \in Nat /\ Limit \in Nat /\ 1 <= Limit
<1>1. req \in Requests
  BY DEF TypeOK
<1>2. /\ req \in [codec : {"json", "proto", "body", "none"}, streaming : BOOLEAN,
                  hasBody : BOOLEAN, body : Seq(Unit), bad : SUBSET Nat, paramsOK : BOOLEAN]
      /\ Framed(req.body) /\ Limit \in Nat \ {0}
  BY <1>1, RequestTypes
<1>3. req.body \in Seq(Unit)
  BY <1>2
<1> QED BY <1>2, <1>3

LEMMA DecodeFacts ==
  ASSUME TypeOK, Calls, pc # "idle", NEW m \in Seq(Unit), Decode(m)
  PROVE  \/ /\ last' = "error" /\ received' = received /\ params' = params
            /\ (req.codec = "json" /\ m = <<>>) \/ Unacceptable
         \/ /\ last' = "message" /\ received' = Append(received, m) /\ params' = {1}
            /\ ~(req.codec = "json" /\ m = <<>>)
<1>1. received \in Seq(Seq(Unit)) /\ recvCount = Len(received) + 1
  BY DEF TypeOK, Calls
<1>2. /\ Len(received) \in Nat /\ (received = <<>> <=> Len(received) = 0)
      /\ recvCount - 1 = Len(received)
  BY <1>1
<1>3. CASE ~Unmarshals(m)
  <2>1. last' = "error" /\ received' = received /\ params' = params
    BY <1>3 DEF Decode, ReturnError
  <2>2. (req.codec = "json" /\ m = <<>>) \/ Len(received) + 1 \in req.bad
    BY <1>3 DEF Unmarshals
  <2> QED BY <2>1, <2>2 DEF Unacceptable
<1>4. CASE Unmarshals(m) /\ received = <<>> /\ ~req.paramsOK
  <2>1. ReturnMessage(m, recvCount - 1) /\ recvCount - 1 = 0
    BY <1>2, <1>4 DEF Decode
  <2>2. last' = "error" /\ received' = received /\ params' = params
    BY <1>4, <2>1 DEF ReturnMessage, ReturnError
  <2> QED BY <1>4, <2>2 DEF Unacceptable
<1>5. CASE Unmarshals(m) /\ ~(received = <<>> /\ ~req.paramsOK)
  <2>1. /\ last' = "message" /\ received' = Append(received, m)
        /\ params' = IF recvCount - 1 = 0 THEN params \cup {Len(received) + 1} ELSE params
    <3>1. ReturnMessage(m, recvCount - 1) /\ ~(recvCount - 1 = 0 /\ ~req.paramsOK)
      BY <1>2, <1>5 DEF Decode
    <3> QED BY <3>1 DEF ReturnMessage
  <2>2. params = IF received = <<>> THEN {} ELSE {1}
    BY DEF Calls
  <2>3. params' = {1}
    <3>1. CASE Len(received) = 0
      <4>1. params = {} /\ Len(received) + 1 = 1
        BY <1>2, <2>2, <3>1
      <4> QED BY <1>2, <2>1, <3>1, <4>1
    <3>2. CASE Len(received) # 0
      BY <1>2, <2>1, <2>2, <3>2
    <3> QED BY <3>1, <3>2
  <2>4. ~(req.codec = "json" /\ m = <<>>)
    BY <1>5 DEF Unmarshals
  <2> QED BY <2>1, <2>3, <2>4
<1> QED BY <1>3, <1>4, <1>5

(* The types and the calls after a call has returned. *)
LEMMA AfterCall ==
  ASSUME TypeOK, Calls, pc # "idle", NEW m \in Seq(Unit),
         \/ last' = "error" /\ received' = received /\ params' = params
         \/ last' = "message" /\ received' = Append(received, m) /\ params' = {1},
         req' = req, eofEarly' = eofEarly, recvCount' = recvCount,
         pc' = "idle", buf' = <<>>, total' = 0,
         rest' \in Seq(Unit), rbuf' \in Seq(Unit), rEOF' \in BOOLEAN
  PROVE  TypeOK' /\ Calls'
<1>1. received \in Seq(Seq(Unit)) /\ recvCount = Len(received) + 1 /\ recvCount \in Nat
  BY DEF TypeOK, Calls
<1>2. Len(received) \in Nat
  BY <1>1
<1>3. params = (IF received = <<>> THEN {} ELSE {1}) /\ params \subseteq 1 .. Len(received)
  BY DEF Calls, TypeOK
<1>4. req \in Requests /\ eofEarly \in EOFWithData
  BY DEF TypeOK
<1>5. CASE last' = "error" /\ received' = received /\ params' = params
  <2>1. TypeOK'
    BY <1>1, <1>3, <1>4, <1>5 DEF TypeOK
  <2>2. Calls'
    BY <1>1, <1>2, <1>3, <1>5 DEF Calls
  <2> QED BY <2>1, <2>2
<1>6. CASE last' = "message" /\ received' = Append(received, m) /\ params' = {1}
  <2>1. received' \in Seq(Seq(Unit)) /\ Len(received') = Len(received) + 1 /\ received' # <<>>
    BY <1>1, <1>6
  <2>2. params' \subseteq 1 .. Len(received')
    BY <1>2, <1>6, <2>1
  <2>3. TypeOK'
    BY <1>1, <1>4, <1>6, <2>1, <2>2 DEF TypeOK
  <2>4. Calls'
    BY <1>1, <1>2, <1>6, <2>1 DEF Calls
  <2> QED BY <2>3, <2>4
<1> QED BY <1>5, <1>6

(* ReadNextReturns, whatever the codec. *)
LEMMA Returned ==
  ASSUME TypeOK, Calls, pc = "scan", NEW b \in Seq(Unit), NEW n \in 0 .. Len(b),
         NEW err \in {"nil", "eof", "error"}, rest' \in Seq(Unit), ReadNextReturns(b, n, err)
  PROVE  /\ TypeOK' /\ Calls'
         /\ req' = req /\ eofEarly' = eofEarly /\ pc' = "idle"
         /\ rbuf' = SubSeq(b, n + 1, Len(b)) /\ rEOF' = (err = "eof")
         /\ \/ /\ last' = "error" /\ received' = received
               /\ err = "error" \/ (req.codec = "json" /\ n = 0) \/ Unacceptable
            \/ /\ last' = "message" /\ received' = Append(received, SubSeq(b, 1, n))
               /\ err # "error" /\ ~(req.codec = "json" /\ n = 0)
<1> DEFINE m == SubSeq(b, 1, n)
<1>1. Len(b) \in Nat /\ n \in Nat /\ n <= Len(b)
  OBVIOUS
<1>2. m \in Seq(Unit) /\ (m = <<>> <=> n = 0)
  <2>1. 1 \in 1 .. Len(b) + 1 /\ n \in 1 - 1 .. Len(b)
    BY <1>1
  <2>2. m \in Seq(Unit) /\ Len(m) = n - 1 + 1
    BY <2>1, SubSeqFacts
  <2> HIDE DEF m
  <2> QED BY <1>1, <2>2
<1>3. SubSeq(b, n + 1, Len(b)) \in Seq(Unit)
  <2>1. n + 1 \in 1 .. Len(b) + 1 /\ Len(b) \in (n + 1) - 1 .. Len(b)
    BY <1>1
  <2> QED BY <2>1, SubSeqFacts
<1>4. /\ rbuf' = SubSeq(b, n + 1, Len(b)) /\ rEOF' = (rEOF \/ err = "eof")
      /\ IF err = "error" THEN ReturnError("error") ELSE Decode(m)
      /\ pc' = "idle" /\ buf' = <<>> /\ total' = 0
      /\ req' = req /\ eofEarly' = eofEarly /\ recvCount' = recvCount
  BY DEF ReadNextReturns
<1>5. rEOF' = (err = "eof")
  <2>1. ~rEOF
    BY DEF Calls
  <2> QED BY <1>4, <2>1
<1> HIDE DEF m
<1>6. \/ /\ last' = "error" /\ received' = received /\ params' = params
         /\ err = "error" \/ (req.codec = "json" /\ n = 0) \/ Unacceptable
      \/ /\ last' = "message" /\ received' = Append(received, m) /\ params' = {1}
         /\ err # "error" /\ ~(req.codec = "json" /\ n = 0)
  <2>1. CASE err = "error"
    BY <1>4, <2>1 DEF ReturnError
  <2>2. CASE err # "error"
    <3>1. Decode(m)
      BY <1>4, <2>2
    <3> QED BY <1>2, <2>2, <3>1, DecodeFacts
  <2> QED BY <2>1, <2>2
<1>7. TypeOK' /\ Calls'
  <2>1. rEOF' \in BOOLEAN /\ rbuf' \in Seq(Unit)
    BY <1>3, <1>4, <1>5
  <2> QED BY <1>2, <1>4, <1>6, <2>1, AfterCall
<1> QED BY <1>4, <1>5, <1>6, <1>7 DEF m

(* The end of a call that refuses a message. *)
LEMMA Refuses ==
  ASSUME SInv, pc = "scan", TypeOK', Calls', req' = req, last' = "error", received' = received,
         \/ TooLong(req, Len(received) + 1)
         \/ CutShort(req, Len(received) + 1)
         \/ Unacceptable
  PROVE  SInv'
<1>1. Framing' /\ Complete' /\ Unary'
  BY DEF Framing, Complete, Unary
<1>2. FramesInOrder'
  <2>1. ~rEOF /\ FramesInOrder
    BY DEF SInv, Calls
  <2> QED BY <2>1 DEF FramesInOrder, Stream
<1>3. RefusedForAReason'
  BY DEF RefusedForAReason, Unacceptable
<1> QED BY <1>1, <1>2, <1>3 DEF SInv

(* The end of a call that found a whole message. *)
LEMMA ReturnsMessage ==
  ASSUME SInv, pc = "scan", Stream, NEW at \in Nat, NEW b \in Seq(Unit), NEW n \in 0 .. Len(b),
         rest' \in Seq(Unit), Holds(req.body, at, b, rest'),
         Boundary(req.body, at + n, Len(received) + 1),
         Whole(req, SubSeq(b, 1, n), Len(received) + 1),
         req.codec = "json" => n # 0, ReadNextReturns(b, n, "nil")
  PROVE  SInv'
<1>1. TypeOK /\ Calls /\ FramesInOrder
  BY DEF SInv
<1>0. /\ TypeOK' /\ Calls'
      /\ req' = req /\ eofEarly' = eofEarly /\ pc' = "idle"
      /\ rbuf' = SubSeq(b, n + 1, Len(b)) /\ ~rEOF'
      /\ \/ last' = "error" /\ received' = received /\ Unacceptable
         \/ last' = "message" /\ received' = Append(received, SubSeq(b, 1, n))
  BY <1>1, Returned
<1> SUFFICES ASSUME last' = "message" /\ received' = Append(received, SubSeq(b, 1, n))
             PROVE  SInv'
  BY <1>0, Refuses
<1>2. /\ TypeOK' /\ Calls'
      /\ req' = req /\ eofEarly' = eofEarly /\ pc' = "idle"
      /\ rbuf' = SubSeq(b, n + 1, Len(b)) /\ ~rEOF'
      /\ last' = "message" /\ received' = Append(received, SubSeq(b, 1, n))
  BY <1>0
<1>3. ~rEOF /\ received \in Seq(Seq(Unit)) /\ req.body \in Seq(Unit) /\ req.streaming
  BY <1>1, ReqFacts DEF TypeOK, Calls
<1>4. /\ Len(received) \in Nat /\ Len(received') = Len(received) + 1
      /\ received'[Len(received) + 1] = SubSeq(b, 1, n)
      /\ \A i \in 1 .. Len(received) : received'[i] = received[i]
  <2>1. received' \in Seq(Seq(Unit))
    BY <1>2 DEF TypeOK
  <2> QED BY <1>2, <1>3, <2>1
<1>5. Framing'
  <2>1. Holds(req.body, at + n, SubSeq(b, n + 1, Len(b)), rest')
    BY <1>3, HoldsCut
  <2>2. Held' = SubSeq(b, n + 1, Len(b))
    BY <1>2 DEF Held
  <2>3. at + n \in 0 .. Len(req.body)
    <3>1. at + n \in Nat /\ Len(SubSeq(b, n + 1, Len(b))) \in Nat /\ Len(rest') \in Nat
      BY <1>3, HoldsCut
    <3>2. (at + n) + Len(SubSeq(b, n + 1, Len(b))) + Len(rest') = Len(req.body)
      BY <2>1 DEF Holds
    <3>3. Len(req.body) \in Nat
      BY <1>3
    <3> QED BY <3>1, <3>2, <3>3, SumBound
  <2>4. \E a \in 0 .. Len(req.body) :
          Boundary(req.body, a, Len(received')) /\ Holds(req.body, a, Held', rest')
    BY <1>4, <2>1, <2>2, <2>3
  <2> QED BY <1>2, <2>4 DEF Framing, Boundary, Holds
<1>6. Complete'
  BY <1>2 DEF Complete
<1>7. Unary'
  BY <1>2, <1>3 DEF Unary
<1>8. FramesInOrder'
  <2>1. ASSUME NEW i \in 1 .. Len(received) + 1
        PROVE  Whole(req', received'[i], i)
    <3>1. CASE i = Len(received) + 1
      BY <1>2, <1>4, <3>1
    <3>2. CASE i # Len(received) + 1
      <4>1. i \in 1 .. Len(received)
        BY <1>4, <3>2
      <4>2. Whole(req, received[i], i)
        BY <1>1, <1>3, <4>1 DEF FramesInOrder
      <4> QED BY <1>2, <1>4, <4>1, <4>2
    <3> QED BY <3>1, <3>2
  <2> QED BY <1>4, <2>1 DEF FramesInOrder
<1>9. RefusedForAReason'
  BY <1>2 DEF RefusedForAReason
<1> QED BY <1>2, <1>5, <1>6, <1>7, <1>8, <1>9 DEF SInv

(* The end of a call whose ReadNext fails. *)
LEMMA ReturnsError ==
  ASSUME SInv, pc = "scan", NEW b \in Seq(Unit), rest' \in Seq(Unit),
         ReadNextReturns(b, 0, "error"),
         \/ TooLong(req, Len(received) + 1)
         \/ CutShort(req, Len(received) + 1)
  PROVE  SInv'
<1>1. TypeOK /\ Calls
  BY DEF SInv
<1>2. 0 \in 0 .. Len(b)
  OBVIOUS
<1>3. TypeOK' /\ Calls' /\ req' = req /\ last' = "error" /\ received' = received
  BY <1>1, <1>2, Returned
<1> QED BY <1>3, Refuses

(* The end of a call that met the end of the body: JSON refuses it, protobuf *)
(* makes up an empty message.                                                *)
LEMMA ReturnsEOF ==
  ASSUME SInv, pc = "scan", Stream, NEW b \in Seq(Unit), rest' \in Seq(Unit),
         ReadNextReturns(b, 0, "eof"),
         ~eofEarly => \/ Boundary(req.body, Len(req.body), Len(received))
                      \/ req.codec = "json" /\ CutShort(req, Len(received) + 1)
  PROVE  SInv'
<1>1. TypeOK /\ Calls /\ FramesInOrder
  BY DEF SInv
<1>2. 0 \in 0 .. Len(b)
  OBVIOUS
<1>3. /\ TypeOK' /\ Calls' /\ req' = req /\ eofEarly' = eofEarly /\ rEOF'
      /\ \/ /\ last' = "error" /\ received' = received
            /\ req.codec = "json" \/ Unacceptable
         \/ /\ last' = "message" /\ received' = Append(received, SubSeq(b, 1, 0))
            /\ req.codec # "json"
  BY <1>1, <1>2, Returned
<1>4. ~rEOF /\ req.streaming /\ received \in Seq(Seq(Unit))
  BY <1>1 DEF Calls, TypeOK
<1>5. \A i \in 1 .. Len(received) : Whole(req, received[i], i)
  BY <1>1, <1>4 DEF FramesInOrder
<1>6. Framing' /\ Unary'
  BY <1>3, <1>4 DEF Framing, Unary
<1>7. CASE last' = "error" /\ received' = received /\ (req.codec = "json" \/ Unacceptable)
  <2>1. CASE Unacceptable \/ CutShort(req, Len(received) + 1)
    BY <1>3, <1>7, <2>1, Refuses
  <2>2. CASE req.codec = "json" /\ ~CutShort(req, Len(received) + 1)
    <3>1. Complete'
      BY <1>7 DEF Complete
    <3>2. FramesInOrder'
      BY <1>3, <1>5, <1>7 DEF FramesInOrder, Stream
    <3>3. eofEarly \/ AllReceived
      <4>1. SUFFICES ASSUME ~eofEarly, NEW p \in 1 .. Len(req.body)
                     PROVE  req.body[p].msg \in 1 .. Len(received)
        BY DEF AllReceived
      <4>2. Boundary(req.body, Len(req.body), Len(received)) /\ Len(received) \in Nat
        BY <1>4, <2>2, <4>1
      <4> QED BY <1>1, <4>2, ReqFacts, LastMessage
    <3>4. AllReceived => AllReceived'
      BY <1>3, <1>7 DEF AllReceived
    <3>5. EndOfJSON'
      BY <1>3, <1>4, <2>2, <3>3, <3>4 DEF EndOfJSON
    <3>6. RefusedForAReason'
      BY <3>5 DEF RefusedForAReason
    <3> QED BY <1>3, <1>6, <3>1, <3>2, <3>6 DEF SInv
  <2> QED BY <1>7, <2>1, <2>2
<1>8. CASE /\ last' = "message" /\ received' = Append(received, SubSeq(b, 1, 0))
           /\ req.codec # "json"
  <2>1. SubSeq(b, 1, 0) = <<>>
    BY SubSeqEmpty
  <2>2. /\ Len(received) \in Nat /\ Len(received') = Len(received) + 1
        /\ received'[Len(received) + 1] = <<>>
        /\ \A i \in 1 .. Len(received) : received'[i] = received[i]
    <3>1. <<>> \in Seq(Unit) /\ received' = Append(received, <<>>)
      BY <1>8, <2>1
    <3> QED BY <1>4, <3>1
  <2>3. \A i \in 1 .. Len(received) : Whole(req', received'[i], i)
    BY <1>3, <1>5, <2>2
  <2>4. FramesInOrder'
    <3>1. \A i \in 1 .. Len(received) + 1 : i \in 1 .. Len(received) \/ i = Len(received) + 1
      BY <2>2
    <3> QED BY <1>3, <2>2, <2>3, <3>1 DEF FramesInOrder
  <2>5. Complete'
    <3> SUFFICES ASSUME ~eofEarly, NEW p \in 1 .. Len(req.body)
                 PROVE  /\ req.body[p].msg \in 1 .. Len(received')
                        /\ Whole(req', received'[req.body[p].msg], req.body[p].msg)
      BY <1>3 DEF Complete
    <3>1. req.codec = "proto"
      BY <1>1, <1>8, ReqFacts DEF Stream
    <3>2. req.body[p].msg \in 1 .. Len(received)
      BY <1>1, <2>2, <3>1, ReqFacts, LastMessage
    <3> QED BY <2>2, <2>3, <3>2
  <2>6. RefusedForAReason'
    BY <1>8 DEF RefusedForAReason
  <2> QED BY <1>3, <1>6, <2>4, <2>5, <2>6 DEF SInv
<1> QED BY <1>3, <1>7, <1>8

-----------------------------------------------------------------------------
(* The steps of a call. *)

(* In ReadNext of a framed stream: where the message begins. *)
LEMMA Scanning ==
  ASSUME SInv, pc = "scan", Stream
  PROVE  /\ ~rEOF /\ last \in {"none", "message"}
         /\ buf \in Seq(Unit) /\ rest \in Seq(Unit)
         /\ \E at \in 0 .. Len(req.body) :
              Boundary(req.body, at, Len(received)) /\ Holds(req.body, at, buf, rest)
<1>1. ~rEOF /\ last \in {"none", "message"}
  BY DEF SInv, Calls
<1>2. Held = buf
  BY DEF Held
<1> QED BY <1>1, <1>2 DEF SInv, TypeOK, Framing

(* A step of ReadNext that only reads. *)
LEMMA ReadsOn ==
  ASSUME SInv, pc = "scan", NEW k \in 0 .. Len(rest), NEW b \in Seq(Unit), Len(buf) <= Len(b),
         NEW t \in Nat, t <= Len(b), b = buf \o SubSeq(rest, 1, k),
         rest' = SubSeq(rest, k + 1, Len(rest)), buf' = b, total' = t,
         UNCHANGED <<req, eofEarly, pc, rbuf, rEOF, recvCount, received, params, last>>
  PROVE  SInv'
<1>1. TypeOK /\ Calls
  BY DEF SInv
<1>2. rest \in Seq(Unit) /\ Len(rest) \in Nat /\ buf \in Seq(Unit)
  BY <1>1 DEF TypeOK
<1>3. rest' \in Seq(Unit)
  <2>1. k + 1 \in 1 .. Len(rest) + 1 /\ Len(rest) \in (k + 1) - 1 .. Len(rest)
    BY <1>2
  <2> QED BY <1>2, <2>1, SubSeqFacts
<1>4. TypeOK'
  BY <1>1, <1>3 DEF TypeOK
<1>5. Calls'
  BY <1>1 DEF Calls
<1>6. Unary'
  BY <1>1 DEF Unary, Calls
<1>7. FramesInOrder' /\ RefusedForAReason'
  <2>1. FramesInOrder'
    BY DEF SInv, FramesInOrder, Stream
  <2>2. last' # "error"
    BY <1>1 DEF Calls
  <2> QED BY <2>1, <2>2 DEF RefusedForAReason
<1>8. Complete'
  BY DEF SInv, Complete, Stream
<1>9. Framing'
  <2> SUFFICES ASSUME Stream PROVE Framing'
    BY DEF Framing, Stream
  <2>1. PICK at \in 0 .. Len(req.body) :
          Boundary(req.body, at, Len(received)) /\ Holds(req.body, at, buf, rest)
    BY Scanning
  <2>2. req.body \in Seq(Unit) /\ at \in Nat
    BY <1>1, ReqFacts
  <2>3. Holds(req.body, at, b, rest')
    BY <1>2, <2>1, <2>2, HoldsRead
  <2>4. Held' = b
    BY DEF Held
  <2> QED BY <2>1, <2>3, <2>4 DEF Framing
<1> QED BY <1>4, <1>5, <1>6, <1>7, <1>8, <1>9 DEF SInv

(* Reads, as the lemmas use it. *)
LEMMA ReadsFacts ==
  ASSUME TypeOK, NEW k \in 0 .. Len(rest), NEW eof \in BOOLEAN, Reads(k, eof)
  PROVE  /\ rest' = SubSeq(rest, k + 1, Len(rest)) /\ rest' \in Seq(Unit)
         /\ buf \o SubSeq(rest, 1, k) \in Seq(Unit)
         /\ Len(buf \o SubSeq(rest, 1, k)) = Len(buf) + k
         /\ Len(rest') = Len(rest) - k
         /\ eof => k = Len(rest)
         /\ eof /\ ~eofEarly => rest = <<>>
<1>1. rest \in Seq(Unit) /\ Len(rest) \in Nat /\ buf \in Seq(Unit) /\ k \in Nat /\ k <= Len(rest)
  BY DEF TypeOK
<1>2. rest' = SubSeq(rest, k + 1, Len(rest))
  BY DEF Reads
<1>3. rest' \in Seq(Unit) /\ Len(rest') = Len(rest) - k
  <2>1. k + 1 \in 1 .. Len(rest) + 1 /\ Len(rest) \in (k + 1) - 1 .. Len(rest)
    BY <1>1
  <2>2. rest' \in Seq(Unit) /\ Len(rest') = Len(rest) - (k + 1) + 1
    BY <1>1, <1>2, <2>1, SubSeqFacts
  <2> QED BY <1>1, <2>2
<1>4. SubSeq(rest, 1, k) \in Seq(Unit) /\ Len(SubSeq(rest, 1, k)) = k
  <2>1. 1 \in 1 .. Len(rest) + 1 /\ k \in 1 - 1 .. Len(rest)
    BY <1>1
  <2>2. SubSeq(rest, 1, k) \in Seq(Unit) /\ Len(SubSeq(rest, 1, k)) = k - 1 + 1
    BY <1>1, <2>1, SubSeqFacts
  <2> QED BY <1>1, <2>2
<1>5. /\ buf \o SubSeq(rest, 1, k) \in Seq(Unit)
      /\ Len(buf \o SubSeq(rest, 1, k)) = Len(buf) + k
  BY <1>1, <1>4, ConcatProperties
<1>6. (eof => k = Len(rest)) /\ (eof /\ ~eofEarly => rest = <<>>)
  BY DEF Reads
<1> QED BY <1>2, <1>3, <1>5, <1>6

LEMMA JSONFoundStep == SInv /\ JSONFound => SInv'
<1> SUFFICES ASSUME SInv, JSONFound PROVE SInv'
  OBVIOUS
<1>1. PICK n \in Closing : (\A i \in Closing : n <= i) /\ ReadNextReturns(buf, n, "nil")
  BY DEF JSONFound
<1>2. pc = "scan" /\ req.codec = "json" /\ rest' = rest
  BY DEF JSONFound
<1>3. TypeOK /\ Calls /\ Stream
  BY <1>2 DEF SInv, Calls, Stream
<1>4. PICK at \in 0 .. Len(req.body) :
        Boundary(req.body, at, Len(received)) /\ Holds(req.body, at, buf, rest)
  BY <1>2, <1>3, Scanning
<1>5. /\ req.body \in Seq(Unit) /\ Framed(req.body) /\ Len(req.body) \in Nat /\ Limit \in Nat
      /\ buf \in Seq(Unit) /\ rest \in Seq(Unit) /\ Len(buf) \in Nat /\ Len(rest) \in Nat
      /\ at \in Nat /\ Len(received) \in Nat
  <2>1. received \in Seq(Seq(Unit)) /\ buf \in Seq(Unit) /\ rest \in Seq(Unit)
    BY <1>3 DEF TypeOK
  <2> QED BY <1>3, <2>1, ReqFacts
<1>6. n \in 1 .. Len(buf) /\ n <= Limit /\ buf[n].pos = buf[n].size
  BY <1>1 DEF Closing
<1>7. /\ at + Len(buf) + Len(rest) = Len(req.body)
      /\ \A k \in 1 .. Len(buf) : buf[k] = req.body[at + k]
  BY <1>4 DEF Holds
<1>8. \A k \in 1 .. Len(buf) : at + k <= Len(req.body)
  BY <1>5, <1>7
<1>9. at < Len(req.body)
  BY <1>5, <1>6, <1>7
<1> DEFINE s == req.body[at + 1].size
           i == Len(received) + 1
<1>10. /\ s \in Nat /\ 1 <= s
       /\ \A k \in 1 .. s :
            at + k <= Len(req.body) =>
              req.body[at + k].msg = i /\ req.body[at + k].pos = k /\ req.body[at + k].size = s
  BY <1>4, <1>5, <1>9, NextMessage
<1> HIDE DEF s, i
<1>11. n = s
  <2>1. s <= n
    <3> SUFFICES ASSUME n < s PROVE FALSE
      BY <1>6, <1>10
    <3>1. n \in 1 .. s /\ n # s
      BY <1>6, <1>10
    <3>2. req.body[at + n].pos = n /\ req.body[at + n].size = s
      BY <1>6, <1>8, <1>10, <3>1
    <3> QED BY <1>6, <1>7, <3>1, <3>2
  <2>2. s \in 1 .. Len(buf) /\ s <= Limit
    BY <1>5, <1>6, <1>10, <2>1
  <2>3. buf[s].pos = buf[s].size
    <3>1. s \in 1 .. s
      BY <1>10
    <3>2. req.body[at + s].pos = s /\ req.body[at + s].size = s
      BY <1>8, <1>10, <2>2, <3>1
    <3> QED BY <1>7, <2>2, <3>2
  <2>4. s \in Closing
    BY <2>2, <2>3 DEF Closing
  <2> QED BY <1>1, <1>6, <1>10, <2>1, <2>4
<1>12. /\ req.body[at + 1].msg = i /\ req.body[at + 1].pos = 1
       /\ req.body[at + n].msg = i /\ req.body[at + n].pos = req.body[at + n].size
       /\ at + 1 \in 1 .. Len(req.body) /\ at + n \in 1 .. Len(req.body)
  <2>1. 1 \in 1 .. s /\ n \in 1 .. s /\ at + 1 <= Len(req.body) /\ at + n <= Len(req.body)
    BY <1>5, <1>6, <1>8, <1>9, <1>10, <1>11
  <2>2. req.body[at + 1].msg = i /\ req.body[at + 1].pos = 1
    BY <1>10, <2>1
  <2>3. req.body[at + n].msg = i /\ req.body[at + n].pos = n /\ req.body[at + n].size = s
    BY <1>10, <2>1
  <2>4. at + 1 \in 1 .. Len(req.body) /\ at + n \in 1 .. Len(req.body)
    BY <1>5, <1>6, <2>1
  <2> QED BY <1>11, <2>2, <2>3, <2>4
<1>13. Boundary(req.body, at + n, i)
  <2>1. at + n # 0
    BY <1>5, <1>6
  <2> QED BY <1>12, <2>1 DEF Boundary
<1>14. Whole(req, SubSeq(buf, 1, n), i)
  <2>1. SubSeq(buf, 1, n) = SubSeq(req.body, at + 1, at + n)
    <3>1. n \in 0 .. Len(buf)
      BY <1>5, <1>6
    <3> QED BY <1>4, <1>5, <3>1, HoldsCut
  <2>2. IsMessage(req.body, i, at + 1, at + n)
    BY <1>12 DEF IsMessage
  <2> QED BY <1>2, <1>12, <2>1, <2>2 DEF Whole
<1>15. n \in 0 .. Len(buf) /\ n # 0
  BY <1>5, <1>6
<1> QED
  <2>1. Holds(req.body, at, buf, rest') /\ rest' \in Seq(Unit)
    BY <1>2, <1>4, <1>5
  <2> QED BY <1>1, <1>2, <1>3, <1>5, <1>13, <1>14, <1>15, <2>1, ReturnsMessage DEF i

LEMMA JSONTooLargeStep == SInv /\ JSONTooLarge => SInv'
<1> SUFFICES ASSUME SInv, JSONTooLarge PROVE SInv'
  OBVIOUS
<1>1. /\ pc = "scan" /\ req.codec = "json" /\ rest' = rest /\ Closing = {} /\ Len(buf) >= Limit
      /\ ReadNextReturns(buf, 0, "error")
  BY DEF JSONTooLarge
<1>2. TypeOK /\ Calls /\ Stream
  BY <1>1 DEF SInv, Calls, Stream
<1>3. PICK at \in 0 .. Len(req.body) :
        Boundary(req.body, at, Len(received)) /\ Holds(req.body, at, buf, rest)
  BY <1>1, <1>2, Scanning
<1>4. /\ req.body \in Seq(Unit) /\ Framed(req.body) /\ Len(req.body) \in Nat
      /\ Limit \in Nat /\ 1 <= Limit
      /\ buf \in Seq(Unit) /\ rest \in Seq(Unit) /\ Len(buf) \in Nat /\ Len(rest) \in Nat
      /\ at \in Nat /\ Len(received) \in Nat
  <2>1. received \in Seq(Seq(Unit)) /\ buf \in Seq(Unit) /\ rest \in Seq(Unit)
    BY <1>2 DEF TypeOK
  <2> QED BY <1>2, <2>1, ReqFacts
<1>5. /\ at + Len(buf) + Len(rest) = Len(req.body)
      /\ \A k \in 1 .. Len(buf) : buf[k] = req.body[at + k]
  BY <1>3 DEF Holds
<1>6. (\A k \in 1 .. Len(buf) : at + k <= Len(req.body)) /\ at < Len(req.body)
  BY <1>1, <1>4, <1>5
<1> DEFINE s == req.body[at + 1].size
           i == Len(received) + 1
<1>7. /\ s \in Nat /\ 1 <= s
      /\ \A k \in 1 .. s :
           at + k <= Len(req.body) =>
             req.body[at + k].msg = i /\ req.body[at + k].pos = k /\ req.body[at + k].size = s
  BY <1>3, <1>4, <1>6, NextMessage
<1>8. req.body[at + 1].msg = i
  <2>1. 1 \in 1 .. s /\ at + 1 <= Len(req.body)
    BY <1>4, <1>6, <1>7
  <2> QED BY <1>7, <2>1
<1>9. s > Limit
  <2> HIDE DEF s, i
  <2> SUFFICES ASSUME s <= Limit PROVE FALSE
    BY <1>4, <1>7
  <2>1. s \in 1 .. Len(buf) /\ s \in 1 .. s
    BY <1>1, <1>4, <1>7
  <2>2. req.body[at + s].pos = s /\ req.body[at + s].size = s
    BY <1>6, <1>7, <2>1
  <2>3. s \in Closing
    BY <1>5, <2>1, <2>2 DEF Closing
  <2> QED BY <1>1, <2>3
<1>10. TooLong(req, Len(received) + 1)
  <2>1. at + 1 \in 1 .. Len(req.body)
    BY <1>4, <1>6
  <2> QED BY <1>1, <1>8, <1>9, <2>1 DEF TooLong
<1> QED BY <1>1, <1>4, <1>10, ReturnsError

(* Nothing more to read, and no closing brace in what is held. *)
LEMMA JSONAtEnd ==
  ASSUME SInv, pc = "scan", Stream, Closing = {}, Len(buf) < Limit, rest = <<>>
  PROVE  \/ Boundary(req.body, Len(req.body), Len(received))
         \/ CutShort(req, Len(received) + 1)
<1>1. TypeOK
  BY DEF SInv
<1>2. PICK at \in 0 .. Len(req.body) :
        Boundary(req.body, at, Len(received)) /\ Holds(req.body, at, buf, rest)
  BY Scanning
<1>3. /\ req.body \in Seq(Unit) /\ Framed(req.body) /\ Len(req.body) \in Nat /\ Limit \in Nat
      /\ buf \in Seq(Unit) /\ Len(buf) \in Nat /\ at \in Nat /\ Len(received) \in Nat
  <2>1. received \in Seq(Seq(Unit)) /\ buf \in Seq(Unit)
    BY <1>1 DEF TypeOK
  <2> QED BY <1>1, <2>1, ReqFacts
<1>4. /\ at + Len(buf) + Len(<<>>) = Len(req.body)
      /\ \A k \in 1 .. Len(buf) : buf[k] = req.body[at + k]
  BY <1>2 DEF Holds
<1>5. at + Len(buf) = Len(req.body)
  BY <1>3, <1>4
<1>6. CASE Len(buf) = 0
  <2>1. at = Len(req.body)
    BY <1>3, <1>5, <1>6
  <2> QED BY <1>2, <2>1
<1>7. CASE Len(buf) # 0
  <2> DEFINE s == req.body[at + 1].size
             i == Len(received) + 1
  <2>1. at < Len(req.body) /\ 1 <= Len(buf)
    BY <1>3, <1>5, <1>7
  <2>2. /\ s \in Nat /\ 1 <= s
        /\ \A k \in 1 .. s :
             at + k <= Len(req.body) =>
               req.body[at + k].msg = i /\ req.body[at + k].pos = k /\ req.body[at + k].size = s
    BY <1>2, <1>3, <2>1, NextMessage
  <2> HIDE DEF s, i
  <2>3. Len(buf) < s
    <3> SUFFICES ASSUME s <= Len(buf) PROVE FALSE
      BY <1>3, <2>2
    <3>1. s \in 1 .. Len(buf) /\ s <= Limit /\ at + s <= Len(req.body) /\ s \in 1 .. s
      BY <1>3, <1>5, <2>2
    <3>2. req.body[at + s].pos = s /\ req.body[at + s].size = s
      BY <2>2, <3>1
    <3>3. buf[s].pos = buf[s].size
      BY <1>4, <3>1, <3>2
    <3>4. s \in Closing
      BY <3>1, <3>3 DEF Closing
    <3> QED BY <3>4
  <2>4. Len(buf) \in 1 .. s /\ at + Len(buf) <= Len(req.body)
    BY <1>3, <1>5, <2>1, <2>2, <2>3
  <2>5. /\ req.body[Len(req.body)].msg = i /\ req.body[Len(req.body)].pos = Len(buf)
        /\ req.body[Len(req.body)].size = s
    BY <1>5, <2>2, <2>4
  <2>6. Last(req.body) = req.body[Len(req.body)] /\ req.body # <<>>
    BY <1>3, <2>1 DEF Last
  <2> QED BY <2>3, <2>5, <2>6 DEF CutShort, i
<1> QED BY <1>6, <1>7

LEMMA JSONReadStep ==
  ASSUME SInv, NEW k \in 0 .. Len(rest), NEW eof \in BOOLEAN, JSONRead(k, eof)
  PROVE  SInv'
<1> DEFINE b == buf \o SubSeq(rest, 1, k)
<1>1. /\ pc = "scan" /\ req.codec = "json" /\ Reads(k, eof)
      /\ Closing = {} /\ Len(buf) < Limit
      /\ IF eof THEN ReadNextReturns(b, 0, "eof")
         ELSE /\ buf' = b
              /\ UNCHANGED <<req, eofEarly, pc, total, rbuf, rEOF, recvCount,
                             received, params, last>>
  BY DEF JSONRead
<1>2. TypeOK /\ Calls /\ Stream
  BY <1>1 DEF SInv, Calls, Stream
<1>3. /\ rest' = SubSeq(rest, k + 1, Len(rest)) /\ rest' \in Seq(Unit)
      /\ b \in Seq(Unit) /\ Len(b) = Len(buf) + k
      /\ eof /\ ~eofEarly => rest = <<>>
  BY <1>1, <1>2, ReadsFacts
<1>4. buf \in Seq(Unit) /\ total \in Nat /\ total <= Len(buf) /\ rest \in Seq(Unit)
  BY <1>2 DEF TypeOK, Calls
<1>5. Len(buf) <= Len(b) /\ total <= Len(b)
  <2>1. Len(buf) \in Nat /\ k \in Nat
    BY <1>4
  <2> HIDE DEF b
  <2> QED BY <1>3, <1>4, <2>1
<1>6. CASE eof
  <2>1. ReadNextReturns(b, 0, "eof")
    BY <1>1, <1>6
  <2> HIDE DEF b
  <2>2. ~eofEarly => \/ Boundary(req.body, Len(req.body), Len(received))
                     \/ CutShort(req, Len(received) + 1)
    BY <1>1, <1>2, <1>3, <1>6, JSONAtEnd
  <2> QED BY <1>1, <1>2, <1>3, <2>1, <2>2, ReturnsEOF
<1>7. CASE ~eof
  BY <1>1, <1>3, <1>4, <1>5, <1>7, ReadsOn
<1> QED BY <1>6, <1>7

LEMMA ProtoSizeReadStep ==
  ASSUME SInv, NEW k \in 0 .. Len(rest), NEW eof \in BOOLEAN, ProtoSizeRead(k, eof)
  PROVE  SInv'
<1> DEFINE b == buf \o SubSeq(rest, 1, k)
<1>1. pc = "scan" /\ req.codec = "proto" /\ Reads(k, eof) /\ buf = <<>>
  BY DEF ProtoSizeRead
<1>2. TypeOK /\ Calls /\ Stream
  BY <1>1 DEF SInv, Calls, Stream
<1>3. /\ rest' = SubSeq(rest, k + 1, Len(rest)) /\ rest' \in Seq(Unit)
      /\ b \in Seq(Unit) /\ Len(b) = Len(buf) + k
      /\ eof => k = Len(rest)
      /\ eof /\ ~eofEarly => rest = <<>>
  BY <1>1, <1>2, ReadsFacts
<1>4. buf \in Seq(Unit) /\ total \in Nat /\ total <= Len(buf) /\ rest \in Seq(Unit)
  BY <1>2 DEF TypeOK, Calls
<1>5. b = SubSeq(rest, 1, k)
  <2>1. 1 \in 1 .. Len(rest) + 1 /\ k \in 1 - 1 .. Len(rest)
    BY <1>4
  <2>2. SubSeq(rest, 1, k) \in Seq(Unit)
    BY <1>4, <2>1, SubSeqFacts
  <2> QED BY <1>1, <2>2, ConcatEmptySeq
<1>6. IF eof THEN ReadNextReturns(b, 0, "eof")
      ELSE /\ buf' = b
           /\ UNCHANGED <<req, eofEarly, pc, total, rbuf, rEOF, recvCount,
                          received, params, last>>
  BY <1>5 DEF ProtoSizeRead
<1>7. Len(buf) <= Len(b) /\ total <= Len(b)
  <2>1. Len(buf) \in Nat /\ k \in Nat
    BY <1>4
  <2> HIDE DEF b
  <2> QED BY <1>3, <1>4, <2>1
<1>8. CASE eof
  <2>1. ReadNextReturns(b, 0, "eof")
    BY <1>6, <1>8
  <2>2. ASSUME ~eofEarly
        PROVE  Boundary(req.body, Len(req.body), Len(received))
    <3>1. rest = <<>>
      BY <1>3, <1>8, <2>2
    <3>2. PICK at \in 0 .. Len(req.body) :
            Boundary(req.body, at, Len(received)) /\ Holds(req.body, at, buf, rest)
      BY <1>1, <1>2, Scanning
    <3>3. at + Len(<<>>) + Len(<<>>) = Len(req.body)
      BY <1>1, <3>1, <3>2 DEF Holds
    <3>4. at = Len(req.body)
      BY <3>3
    <3> QED BY <3>2, <3>4
  <2> HIDE DEF b
  <2> QED BY <1>1, <1>2, <1>3, <2>1, <2>2, ReturnsEOF
<1>9. CASE ~eof
  BY <1>1, <1>3, <1>4, <1>6, <1>7, <1>9, ReadsOn
<1> QED BY <1>8, <1>9

LEMMA ProtoMessageStep == SInv /\ ProtoMessage => SInv'
<1> SUFFICES ASSUME SInv, ProtoMessage PROVE SInv'
  OBVIOUS
<1>1. pc = "scan" /\ req.codec = "proto" /\ buf # <<>>
  BY DEF ProtoMessage
<1>2. TypeOK /\ Calls /\ Stream
  BY <1>1 DEF SInv, Calls, Stream
<1>3. PICK at \in 0 .. Len(req.body) :
        Boundary(req.body, at, Len(received)) /\ Holds(req.body, at, buf, rest)
  BY <1>1, <1>2, Scanning
<1>4. /\ req.body \in Seq(Unit) /\ Framed(req.body) /\ Len(req.body) \in Nat /\ Limit \in Nat
      /\ buf \in Seq(Unit) /\ rest \in Seq(Unit) /\ Len(buf) \in Nat /\ Len(rest) \in Nat
      /\ at \in Nat /\ Len(received) \in Nat /\ 1 <= Len(buf)
  <2>1. received \in Seq(Seq(Unit)) /\ buf \in Seq(Unit) /\ rest \in Seq(Unit)
    BY <1>2 DEF TypeOK
  <2>2. 1 <= Len(buf)
    BY <1>1, <2>1
  <2> QED BY <1>2, <2>1, <2>2, ReqFacts
<1>5. /\ at + Len(buf) + Len(rest) = Len(req.body)
      /\ \A k \in 1 .. Len(buf) : buf[k] = req.body[at + k]
  BY <1>3 DEF Holds
<1>6. at < Len(req.body) /\ at + 1 \in 1 .. Len(req.body)
  BY <1>4, <1>5
<1> DEFINE s == req.body[at + 1].size
           i == Len(received) + 1
           size == s - 1
           b == Tail(buf)
           missing == size - Len(b)
<1>7. /\ s \in Nat /\ 1 <= s
      /\ \A k \in 1 .. s :
           at + k <= Len(req.body) =>
             req.body[at + k].msg = i /\ req.body[at + k].pos = k /\ req.body[at + k].size = s
  BY <1>3, <1>4, <1>6, NextMessage
<1>8. Head(buf).size = s
  <2>1. Head(buf) = buf[1] /\ 1 \in 1 .. Len(buf)
    BY <1>4
  <2>2. buf[1] = req.body[at + 1]
    BY <1>5, <2>1
  <2> QED BY <2>1, <2>2
<1>9. IF size > Limit
        THEN ReadNextReturns(buf, 0, "error") /\ rest' = rest
        ELSE IF size <= Len(b)
          THEN ReadNextReturns(b, size, "nil") /\ rest' = rest
          ELSE IF missing <= Len(rest)
            THEN /\ ReadNextReturns(b \o SubSeq(rest, 1, missing), size, "nil")
                 /\ rest' = SubSeq(rest, missing + 1, Len(rest))
            ELSE ReadNextReturns(b, 0, "error") /\ rest' = <<>>
  BY <1>8 DEF ProtoMessage
<1>10. /\ Holds(req.body, at + 1, b, rest) /\ b \in Seq(Unit) /\ Len(b) = Len(buf) - 1
       /\ Len(b) \in Nat
  <2>1. 1 \in 0 .. Len(buf)
    BY <1>4
  <2>2. b = SubSeq(buf, 1 + 1, Len(buf))
    BY <1>1, <1>4, TailIsSubSeq
  <2>3. /\ Holds(req.body, at + 1, SubSeq(buf, 1 + 1, Len(buf)), rest)
        /\ SubSeq(buf, 1 + 1, Len(buf)) \in Seq(Unit)
        /\ Len(SubSeq(buf, 1 + 1, Len(buf))) = Len(buf) - 1
    <3>1. \A n \in 0 .. Len(buf) :
            /\ Holds(req.body, at + n, SubSeq(buf, n + 1, Len(buf)), rest)
            /\ SubSeq(buf, n + 1, Len(buf)) \in Seq(Unit)
            /\ Len(SubSeq(buf, n + 1, Len(buf))) = Len(buf) - n
      BY <1>3, <1>4, HoldsCut
    <3> QED BY <2>1, <3>1, Zenon
  <2> HIDE DEF b
  <2> QED BY <1>4, <2>2, <2>3
<1>11. req.body[at + 1].msg = i /\ req.body[at + 1].pos = 1
  <2>1. 1 \in 1 .. s /\ at + 1 <= Len(req.body)
    BY <1>4, <1>6, <1>7
  <2> QED BY <1>7, <2>1
<1> HIDE DEF s, i, b
<1>12. ASSUME NEW d \in Seq(Unit), size \in 0 .. Len(d), rest' \in Seq(Unit),
              Holds(req.body, at + 1, d, rest'), ReadNextReturns(d, size, "nil")
       PROVE  SInv'
  <2>1. at + s \in 1 .. Len(req.body) /\ at + s <= Len(req.body) /\ at + 1 + size = at + s
    <3>1. (at + 1) + Len(d) + Len(rest') = Len(req.body)
      BY <1>12 DEF Holds
    <3>2. Len(d) \in Nat /\ Len(rest') \in Nat /\ size \in Nat /\ size <= Len(d)
      BY <1>12
    <3>3. at + 1 \in Nat /\ size + 1 = s
      BY <1>4, <1>7
    <3> HIDE DEF size
    <3> QED BY <1>4, <1>7, <3>1, <3>2, <3>3
  <2>2. req.body[at + s].msg = i /\ req.body[at + s].pos = req.body[at + s].size
    <3>1. s \in 1 .. s
      BY <1>7
    <3> QED BY <1>7, <2>1, <3>1
  <2>3. Boundary(req.body, at + 1 + size, i)
    <3>1. at + s # 0
      BY <2>1
    <3> HIDE DEF size
    <3> QED BY <2>1, <2>2, <3>1 DEF Boundary
  <2>4. Whole(req, SubSeq(d, 1, size), i)
    <3>1. at + 1 \in Nat
      BY <1>4
    <3>2. SubSeq(d, 1, size) = SubSeq(req.body, (at + 1) + 1, (at + 1) + size)
      <4> HIDE DEF size
      <4> QED BY <1>4, <1>12, <3>1, HoldsCut
    <3>3. IsMessage(req.body, i, at + 1, at + s)
      BY <1>11, <2>2 DEF IsMessage
    <3> HIDE DEF size
    <3>4. SubSeq(d, 1, size) = SubSeq(req.body, (at + 1) + 1, at + s)
      BY <2>1, <3>2
    <3> QED BY <1>1, <1>6, <2>1, <3>3, <3>4 DEF Whole
  <2>5. at + 1 \in Nat /\ req.codec # "json"
    BY <1>1, <1>4
  <2> HIDE DEF size
  <2> QED BY <1>1, <1>2, <1>12, <2>3, <2>4, <2>5, ReturnsMessage DEF i
<1>13. size \in Int /\ size >= 0
  BY <1>7
<1>14. CASE size > Limit
  <2>1. ReadNextReturns(buf, 0, "error") /\ rest' = rest
    BY <1>9, <1>14
  <2>2. req.body[at + 1].size > Limit + 1
    BY <1>4, <1>7, <1>14 DEF s
  <2>3. TooLong(req, Len(received) + 1)
    BY <1>1, <1>6, <1>11, <2>2 DEF TooLong, i
  <2> QED BY <1>1, <1>4, <2>1, <2>3, ReturnsError
<1>15. CASE ~(size > Limit) /\ size <= Len(b)
  <2>1. ReadNextReturns(b, size, "nil") /\ rest' = rest
    BY <1>9, <1>15
  <2>2. size \in 0 .. Len(b)
    BY <1>10, <1>13, <1>15
  <2> HIDE DEF size
  <2> QED BY <1>4, <1>10, <1>12, <2>1, <2>2
<1>16. CASE ~(size > Limit) /\ ~(size <= Len(b)) /\ missing <= Len(rest)
  <2> DEFINE d == b \o SubSeq(rest, 1, missing)
  <2>1. ReadNextReturns(d, size, "nil") /\ rest' = SubSeq(rest, missing + 1, Len(rest))
    BY <1>9, <1>16
  <2>2. missing \in 0 .. Len(rest) /\ missing \in Nat
    BY <1>4, <1>10, <1>13, <1>16
  <2>3. SubSeq(rest, 1, missing) \in Seq(Unit) /\ Len(SubSeq(rest, 1, missing)) = missing
    <3>1. 1 \in 1 .. Len(rest) + 1 /\ missing \in 1 - 1 .. Len(rest)
      BY <1>4, <2>2
    <3> HIDE DEF missing
    <3>2. SubSeq(rest, 1, missing) \in Seq(Unit) /\ Len(SubSeq(rest, 1, missing)) = missing - 1 + 1
      BY <1>4, <3>1, SubSeqFacts
    <3> QED BY <2>2, <3>2
  <2>4. rest' \in Seq(Unit)
    <3>1. missing + 1 \in 1 .. Len(rest) + 1 /\ Len(rest) \in (missing + 1) - 1 .. Len(rest)
      BY <1>4, <2>2
    <3> HIDE DEF missing
    <3> QED BY <1>4, <2>1, <3>1, SubSeqFacts
  <2>5. d \in Seq(Unit) /\ Len(d) = Len(b) + missing
    <3> HIDE DEF missing
    <3> QED BY <1>10, <2>3, ConcatProperties
  <2>6. size \in 0 .. Len(d)
    BY <1>10, <1>13, <2>5
  <2>7. Holds(req.body, at + 1, d, rest')
    <3>1. at + 1 \in Nat
      BY <1>4
    <3> HIDE DEF missing
    <3> QED BY <1>4, <1>10, <2>1, <2>2, <3>1, HoldsRead
  <2> HIDE DEF d, size
  <2> QED BY <1>12, <2>1, <2>4, <2>5, <2>6, <2>7
<1>17. CASE ~(size > Limit) /\ ~(size <= Len(b)) /\ ~(missing <= Len(rest))
  <2>1. ReadNextReturns(b, 0, "error") /\ rest' = <<>>
    BY <1>9, <1>17
  <2>2. at + s > Len(req.body)
    <3>1. (at + 1) + Len(b) + Len(rest) = Len(req.body)
      BY <1>10 DEF Holds
    <3>2. size > Len(b) + Len(rest)
      BY <1>4, <1>10, <1>13, <1>17
    <3> QED BY <1>4, <1>7, <1>10, <3>1, <3>2
  <2>3. CutShort(req, Len(received) + 1)
    <3>1. PICK k \in Nat : at + k = Len(req.body) /\ 1 <= k /\ k < s
      <4>1. Len(req.body) - at \in Nat /\ at + (Len(req.body) - at) = Len(req.body)
        BY <1>4, <1>6
      <4>2. 1 <= Len(req.body) - at /\ Len(req.body) - at < s
        BY <1>4, <1>6, <1>7, <2>2
      <4> QED BY <4>1, <4>2
    <3>2. req.body[at + k].msg = i /\ req.body[at + k].pos = k /\ req.body[at + k].size = s
      <4>1. k \in 1 .. s /\ at + k <= Len(req.body)
        BY <1>4, <1>7, <3>1
      <4> QED BY <1>7, <4>1
    <3>3. Last(req.body) = req.body[at + k] /\ req.body # <<>>
      BY <1>4, <1>6, <3>1 DEF Last
    <3> QED BY <3>1, <3>2, <3>3 DEF CutShort, i
  <2>4. rest' \in Seq(Unit)
    BY <2>1
  <2> QED BY <1>1, <1>10, <2>1, <2>3, <2>4, ReturnsError
<1> QED BY <1>14, <1>15, <1>16, <1>17

LEMMA BodyReadStep ==
  ASSUME SInv, NEW k \in 0 .. Len(rest), NEW eof \in BOOLEAN, BodyRead(k, eof)
  PROVE  SInv'
<1> DEFINE b == buf \o SubSeq(rest, 1, k)
           n == IF total + k > Limit THEN Limit ELSE total + k
           err == IF eof THEN "eof" ELSE "nil"
<1>1. /\ pc = "scan" /\ req.codec = "body" /\ Reads(k, eof)
      /\ IF eof \/ n = Limit THEN ReadNextReturns(b, n, err)
         ELSE /\ buf' = b /\ total' = n
              /\ UNCHANGED <<req, eofEarly, pc, rbuf, rEOF, recvCount, received, params, last>>
  BY DEF BodyRead
<1>2. TypeOK /\ Calls /\ FramesInOrder /\ req.streaming
  BY <1>1 DEF SInv, Calls
<1>3. /\ rest' = SubSeq(rest, k + 1, Len(rest)) /\ rest' \in Seq(Unit)
      /\ b \in Seq(Unit) /\ Len(b) = Len(buf) + k
  BY <1>1, <1>2, ReadsFacts
<1>4. /\ buf \in Seq(Unit) /\ total \in Nat /\ total <= Len(buf) /\ rest \in Seq(Unit)
      /\ Limit \in Nat
  BY <1>2, ReqFacts DEF TypeOK, Calls
<1>5. Len(buf) <= Len(b) /\ n <= Len(b) /\ n \in Nat
  <2>1. Len(buf) \in Nat /\ k \in Nat
    BY <1>4
  <2> HIDE DEF b
  <2> QED BY <1>3, <1>4, <2>1
<1>6. CASE eof \/ n = Limit
  <2>1. ReadNextReturns(b, n, err)
    BY <1>1, <1>6
  <2>2. n \in 0 .. Len(b) /\ err \in {"nil", "eof", "error"} /\ err # "error"
    <3>1. Len(b) \in Nat
      BY <1>3
    <3> HIDE DEF n, b
    <3> QED BY <1>5, <3>1
  <2> HIDE DEF n, b, err
  <2>3. /\ TypeOK' /\ Calls' /\ req' = req
        /\ last' = "message" \/ (last' = "error" /\ received' = received /\ Unacceptable)
    BY <1>1, <1>2, <1>3, <2>1, <2>2, Returned
  <2>4. CASE last' = "message"
    BY <1>1, <1>2, <2>3, <2>4
       DEF SInv, Framing, Complete, Unary, FramesInOrder, RefusedForAReason, Stream
  <2>5. CASE last' = "error" /\ received' = received /\ Unacceptable
    BY <1>1, <2>3, <2>5, Refuses
  <2> QED BY <2>3, <2>4, <2>5
<1>7. CASE ~(eof \/ n = Limit)
  <2> HIDE DEF n
  <2> QED BY <1>1, <1>3, <1>4, <1>5, <1>7, ReadsOn
<1> QED BY <1>6, <1>7

LEMMA ReadAllStep ==
  ASSUME SInv, NEW k \in 0 .. Len(rest), NEW eof \in BOOLEAN, ReadAll(k, eof)
  PROVE  SInv'
<1> DEFINE b == buf \o SubSeq(rest, 1, k)
<1>1. /\ pc = "all" /\ Reads(k, eof)
      /\ req' = req /\ eofEarly' = eofEarly /\ rbuf' = rbuf /\ recvCount' = recvCount
      /\ IF total + k > Limit
           THEN /\ ReturnError("error")
                /\ pc' = "idle" /\ buf' = <<>> /\ total' = 0 /\ rEOF' = rEOF
           ELSE IF eof
             THEN Decode(b) /\ rEOF' = TRUE /\ pc' = "idle" /\ buf' = <<>> /\ total' = 0
             ELSE /\ buf' = b /\ total' = total + k
                  /\ UNCHANGED <<pc, rEOF, received, params, last>>
  BY DEF ReadAll
<1>2. TypeOK /\ Calls /\ ~req.streaming /\ ~rEOF /\ req.hasBody /\ last # "error"
  BY <1>1 DEF SInv, Calls
<1>3. /\ rest' = SubSeq(rest, k + 1, Len(rest)) /\ rest' \in Seq(Unit)
      /\ b \in Seq(Unit) /\ Len(b) = Len(buf) + k /\ Len(rest') = Len(rest) - k
      /\ eof => k = Len(rest)
  BY <1>1, <1>2, ReadsFacts
<1>4. /\ buf \in Seq(Unit) /\ total \in Nat /\ rest \in Seq(Unit) /\ Limit \in Nat
      /\ rbuf \in Seq(Unit) /\ rEOF \in BOOLEAN /\ Len(rest) \in Nat /\ Len(buf) \in Nat
      /\ req.body \in Seq(Unit) /\ Len(req.body) \in Nat
  BY <1>2, ReqFacts DEF TypeOK
<1>5. Len(buf) = total /\ total + Len(rest) = Len(req.body)
  BY <1>2 DEF SInv, Unary
<1>6. ~Stream /\ ~Stream'
  BY <1>1, <1>2 DEF Stream
<1>7. Framing' /\ Complete' /\ FramesInOrder'
  BY <1>6 DEF Framing, Complete, FramesInOrder
<1> HIDE DEF b
<1>8. CASE total + k > Limit
  <2>1. last' = "error" /\ received' = received /\ params' = params
    BY <1>1, <1>8 DEF ReturnError
  <2>2. TypeOK' /\ Calls'
    <3>1. <<>> \in Seq(Unit) /\ pc # "idle"
      BY <1>1
    <3> QED BY <1>1, <1>2, <1>3, <1>4, <1>8, <2>1, <3>1, AfterCall
  <2>3. Unary'
    BY <2>1 DEF Unary
  <2>4. Len(req.body) > Limit
    BY <1>3, <1>4, <1>5, <1>8
  <2>5. RefusedForAReason'
    BY <1>1, <1>2, <2>4 DEF RefusedForAReason
  <2> QED BY <1>7, <2>2, <2>3, <2>5 DEF SInv
<1>9. CASE ~(total + k > Limit) /\ eof
  <2>1. /\ Decode(b) /\ rEOF' = TRUE /\ pc' = "idle" /\ buf' = <<>> /\ total' = 0
        /\ pc # "idle"
    BY <1>1, <1>9
  <2>2. \/ /\ last' = "error" /\ received' = received /\ params' = params
           /\ (req.codec = "json" /\ b = <<>>) \/ Unacceptable
        \/ last' = "message" /\ received' = Append(received, b) /\ params' = {1}
    BY <1>2, <1>3, <2>1, DecodeFacts
  <2>3. TypeOK' /\ Calls'
    BY <1>1, <1>2, <1>3, <1>4, <2>1, <2>2, AfterCall
  <2>4. Unary'
    BY <2>1 DEF Unary
  <2>5. ASSUME b = <<>> PROVE AllReceived'
    <3>1. Len(b) = 0
      BY <2>5
    <3>2. Len(req.body) = 0
      BY <1>3, <1>4, <1>5, <1>9, <3>1
    <3> QED BY <1>1, <3>2 DEF AllReceived
  <2>6. RefusedForAReason'
    BY <1>1, <2>1, <2>2, <2>5 DEF RefusedForAReason, EndOfJSON, Unacceptable
  <2> QED BY <1>7, <2>3, <2>4, <2>6 DEF SInv
<1>10. CASE ~(total + k > Limit) /\ ~eof
  <2>1. /\ buf' = b /\ total' = total + k
        /\ UNCHANGED <<pc, rEOF, received, params, last>>
    BY <1>1, <1>10
  <2>2. k \in Nat /\ total + k \in Nat /\ Len(b) = total + k
    BY <1>3, <1>4, <1>5
  <2>3. TypeOK'
    BY <1>1, <1>2, <1>3, <2>1, <2>2 DEF TypeOK
  <2>4. Calls'
    BY <1>1, <1>2, <2>1, <2>2 DEF Calls
  <2>5. Unary'
    <3>1. (total + k) + (Len(rest) - k) = total + Len(rest)
      BY <1>4, <2>2
    <3> QED BY <1>1, <1>3, <1>5, <2>1, <2>2, <3>1 DEF Unary
  <2>6. RefusedForAReason'
    BY <1>2, <2>1 DEF RefusedForAReason
  <2> QED BY <1>7, <2>3, <2>4, <2>5, <2>6 DEF SInv
<1> QED BY <1>8, <1>9, <1>10

LEMMA RecvMsgStep == SInv /\ RecvMsg => SInv'
<1> SUFFICES ASSUME SInv, RecvMsg PROVE SInv'
  OBVIOUS
<1>1. /\ pc = "idle" /\ last \in {"none", "message"}
      /\ rEOF' = (rEOF \/ ~req.hasBody)
      /\ UNCHANGED <<req, eofEarly, rest, total, rbuf>>
  BY DEF RecvMsg
<1>2. /\ TypeOK /\ Calls /\ Framing /\ Complete /\ Unary /\ FramesInOrder
      /\ buf = <<>> /\ total = 0 /\ recvCount = Len(received) + 0
  BY <1>1 DEF SInv, Calls
<1>3. /\ received \in Seq(Seq(Unit)) /\ Len(received) \in Nat /\ recvCount \in Nat
      /\ rbuf \in Seq(Unit) /\ req.hasBody \in BOOLEAN /\ req.streaming \in BOOLEAN
      /\ params = IF received = <<>> THEN {} ELSE {1}
  <2>1. received \in Seq(Seq(Unit))
    BY <1>2 DEF TypeOK
  <2> QED BY <1>2, <2>1, ReqFacts DEF TypeOK, Calls
<1>4. recvCount = Len(received)
  BY <1>2, <1>3
<1>0. CASE req.hasBody /\ req.codec = "none"
  <2>1. /\ last' = "error" /\ rEOF' = rEOF
        /\ UNCHANGED <<pc, buf, recvCount, received, params>>
    BY <1>1, <1>0, <1>2 DEF RecvMsg, ReturnError, TypeOK
  <2>2. TypeOK'
    BY <1>1, <1>2, <2>1 DEF TypeOK
  <2>3. Calls'
    BY <1>0, <1>1, <1>2, <2>1 DEF Calls
  <2>4. Framing' /\ Unary' /\ RefusedForAReason' /\ Complete' /\ FramesInOrder'
    BY <1>0, <1>1, <2>1 DEF Framing, Unary, RefusedForAReason, Complete, FramesInOrder, Stream
  <2> QED BY <2>2, <2>3, <2>4 DEF SInv
<1>5. CASE req.hasBody /\ rEOF /\ req.codec # "none"
  <2>1. /\ last' = "eof" /\ rEOF'
        /\ UNCHANGED <<pc, buf, recvCount, received, params>>
    BY <1>1, <1>5 DEF RecvMsg, ReturnError
  <2>2. recvCount # 0
    BY <1>2, <1>5 DEF Calls
  <2>3. TypeOK'
    BY <1>1, <1>2, <2>1 DEF TypeOK
  <2>4. Calls'
    BY <1>1, <1>2, <2>1, <2>2 DEF Calls
  <2>5. Framing' /\ Unary' /\ RefusedForAReason'
    BY <2>1 DEF Framing, Unary, RefusedForAReason
  <2>6. Complete'
    <3>1. last # "error"
      BY <1>1
    <3> QED BY <1>1, <1>2, <1>5, <2>1, <3>1 DEF Complete, Stream
  <2>7. FramesInOrder'
    BY <1>1, <1>2, <1>5, <2>1 DEF FramesInOrder, Stream
  <2> QED BY <2>3, <2>4, <2>5, <2>6, <2>7 DEF SInv
<1>6. CASE req.hasBody /\ ~rEOF /\ req.codec # "none"
  <2>1. /\ ~rEOF' /\ recvCount' = recvCount + 1
        /\ pc' = IF req.streaming THEN "scan" ELSE "all"
        /\ buf' = IF req.streaming THEN rbuf ELSE <<>>
        /\ UNCHANGED <<received, params, last>>
    BY <1>1, <1>6 DEF RecvMsg
  <2>2. TypeOK'
    BY <1>1, <1>2, <1>3, <1>6, <2>1 DEF TypeOK
  <2>3. Calls'
    <3>1. 0 <= Len(buf')
      BY <1>3, <2>1
    <3> QED BY <1>1, <1>2, <1>3, <1>4, <1>6, <2>1, <3>1 DEF Calls
  <2>4. Framing'
    <3> SUFFICES ASSUME Stream PROVE Framing'
      BY <1>1 DEF Framing, Stream
    <3>1. Held = rbuf /\ Held' = rbuf
      BY <1>1, <2>1 DEF Held, Stream
    <3>2. last # "error"
      BY <1>1
    <3>3. \E at \in 0 .. Len(req.body) :
            Boundary(req.body, at, Len(received)) /\ Holds(req.body, at, rbuf, rest)
      BY <1>2, <1>6, <3>1, <3>2 DEF Framing
    <3> QED BY <1>1, <2>1, <3>1, <3>3 DEF Framing
  <2>5. Complete'
    BY <2>1 DEF Complete
  <2>6. Unary'
    <3> SUFFICES ASSUME ~req.streaming PROVE Unary'
      BY <1>1 DEF Unary
    <3>1. last # "error" /\ buf' = buf
      BY <1>1, <1>2, <2>1
    <3> QED BY <1>1, <1>2, <1>6, <2>1, <3>1 DEF Unary
  <2>7. FramesInOrder'
    BY <1>1, <1>2, <1>6, <2>1 DEF FramesInOrder, Stream
  <2>8. RefusedForAReason'
    BY <1>1, <2>1 DEF RefusedForAReason
  <2> QED BY <2>2, <2>3, <2>4, <2>5, <2>6, <2>7, <2>8 DEF SInv
<1>7. CASE ~req.hasBody
  <2>1. /\ rEOF' /\ recvCount' = recvCount + 1 /\ UNCHANGED <<pc, buf>>
        /\ IF rEOF THEN ReturnError("eof") ELSE ReturnMessage(<<>>, recvCount)
    BY <1>1, <1>7 DEF RecvMsg
  <2>2. ~Stream' /\ ~req'.hasBody
    BY <1>1, <1>7 DEF Stream
  <2>3. Framing' /\ Complete' /\ Unary' /\ FramesInOrder'
    BY <2>2 DEF Framing, Complete, Unary, FramesInOrder
  <2>4. CASE rEOF
    <3>1. last' = "eof" /\ UNCHANGED <<received, params>>
      BY <2>1, <2>4 DEF ReturnError
    <3>2. TypeOK'
      BY <1>1, <1>2, <2>1, <3>1 DEF TypeOK
    <3>3. Calls'
      BY <1>1, <1>2, <1>3, <2>1, <3>1 DEF Calls
    <3>4. RefusedForAReason'
      BY <3>1 DEF RefusedForAReason
    <3> QED BY <2>3, <3>2, <3>3, <3>4 DEF SInv
  <2>6. CASE ~rEOF /\ recvCount = 0 /\ ~req.paramsOK
    <3>1. last' = "error" /\ UNCHANGED <<received, params>>
      BY <2>1, <2>6 DEF ReturnMessage, ReturnError
    <3>2. TypeOK'
      BY <1>1, <1>2, <2>1, <3>1 DEF TypeOK
    <3>3. Calls'
      BY <1>1, <1>2, <1>3, <2>1, <3>1 DEF Calls
    <3>4. received = <<>>
      BY <1>2, <2>6 DEF Calls
    <3>5. received' = <<>> /\ ~req'.paramsOK
      BY <1>1, <2>1, <2>6, <3>1, <3>4
    <3>6. RefusedForAReason'
      BY <3>5 DEF RefusedForAReason
    <3> QED BY <2>3, <3>2, <3>3, <3>6 DEF SInv
  <2>5. CASE ~rEOF /\ ~(recvCount = 0 /\ ~req.paramsOK)
    <3>1. /\ last' = "message" /\ received' = Append(received, <<>>)
          /\ params' = IF recvCount = 0 THEN params \cup {Len(received) + 1} ELSE params
      BY <2>1, <2>5 DEF ReturnMessage
    <3>2. received' \in Seq(Seq(Unit)) /\ Len(received') = Len(received) + 1 /\ received' # <<>>
      <4>1. <<>> \in Seq(Unit)
        OBVIOUS
      <4>2. /\ Append(received, <<>>) \in Seq(Seq(Unit)) /\ Append(received, <<>>) # <<>>
            /\ Len(Append(received, <<>>)) = Len(received) + 1
        BY <1>3, <4>1, AppendFacts
      <4> QED BY <3>1, <4>2, Zenon
    <3>3. params' = {1}
      <4>1. received = <<>> <=> Len(received) = 0
        BY <1>3
      <4>2. CASE Len(received) = 0
        <5>1. params = {} /\ Len(received) + 1 = 1
          BY <1>3, <4>1, <4>2
        <5> QED BY <1>4, <3>1, <4>2, <5>1
      <4>3. CASE Len(received) # 0
        BY <1>3, <1>4, <3>1, <4>1, <4>3
      <4> QED BY <4>2, <4>3
    <3>4. params' \subseteq 1 .. Len(received')
      BY <1>3, <3>2, <3>3
    <3>5. rEOF' \in BOOLEAN /\ recvCount' \in Nat
      BY <1>1, <1>3, <2>1
    <3>6. TypeOK'
      BY <1>1, <1>2, <2>1, <3>1, <3>2, <3>4, <3>5 DEF TypeOK
    <3>7. Calls'
      <4>1. recvCount' = Len(received') + 0 /\ recvCount' # 0
        BY <1>3, <1>4, <2>1, <3>2
      <4>2. pc' = "idle" /\ buf' = <<>> /\ total' = 0 /\ last' = "message" /\ total' <= Len(buf')
        BY <1>1, <1>2, <2>1, <3>1
      <4> QED BY <3>2, <3>3, <4>1, <4>2 DEF Calls
    <3>8. RefusedForAReason'
      BY <3>1 DEF RefusedForAReason
    <3> QED BY <2>3, <3>6, <3>7, <3>8 DEF SInv
  <2> QED BY <2>4, <2>5, <2>6
<1> QED BY <1>0, <1>3, <1>5, <1>6, <1>7

-----------------------------------------------------------------------------
(* Whatever the pieces, the requests and the limit, the stream keeps SInv.   *)

LEMMA InitSInv == Init => SInv
<1> SUFFICES ASSUME Init PROVE SInv
  OBVIOUS
<1>1. req \in Requests /\ req.body \in Seq(Unit) /\ Len(req.body) \in Nat
  BY RequestTypes DEF Init
<1>2. TypeOK
  <2>1. <<>> \in Seq(Unit) /\ <<>> \in Seq(Seq(Unit))
    OBVIOUS
  <2> QED BY <1>1, <2>1 DEF Init, TypeOK
<1>3. Calls
  <2>1. Len(<<>>) = 0
    OBVIOUS
  <2> QED BY <2>1 DEF Init, Calls
<1>4. Framing
  <2>1. Held = <<>> /\ rest = req.body /\ received = <<>>
    BY DEF Init, Held
  <2>2. Holds(req.body, 0, <<>>, req.body)
    BY <1>1 DEF Holds
  <2>3. Boundary(req.body, 0, Len(<<>>))
    BY DEF Boundary
  <2> QED BY <1>1, <2>1, <2>2, <2>3 DEF Framing
<1>5. Complete
  BY DEF Init, Complete
<1>6. Unary
  BY <1>1 DEF Init, Unary
<1>7. FramesInOrder
  <2>1. received = <<>>
    BY DEF Init
  <2>2. 1 .. Len(<<>>) = {}
    OBVIOUS
  <2> QED BY <2>1, <2>2 DEF FramesInOrder
<1>8. RefusedForAReason
  BY DEF Init, RefusedForAReason
<1> QED BY <1>2, <1>3, <1>4, <1>5, <1>6, <1>7, <1>8 DEF SInv

LEMMA VarsUnchanged == SInv /\ UNCHANGED vars => SInv'
<1> SUFFICES ASSUME SInv, UNCHANGED vars PROVE SInv'
  OBVIOUS
<1>1. /\ req' = req /\ eofEarly' = eofEarly /\ rest' = rest /\ pc' = pc /\ buf' = buf
      /\ total' = total /\ rbuf' = rbuf /\ rEOF' = rEOF /\ recvCount' = recvCount
      /\ received' = received /\ params' = params /\ last' = last
  BY DEF vars
<1>2. TypeOK'
  BY <1>1 DEF SInv, TypeOK
<1>3. Calls'
  BY <1>1 DEF SInv, Calls
<1>4. Framing'
  BY <1>1 DEF SInv, Framing, Held, Stream
<1>5. Complete'
  BY <1>1 DEF SInv, Complete, Stream
<1>6. Unary'
  BY <1>1 DEF SInv, Unary
<1>7. FramesInOrder'
  BY <1>1 DEF SInv, FramesInOrder, Stream
<1>8. RefusedForAReason'
  <2>1. EndOfJSON' = EndOfJSON
    BY <1>1 DEF EndOfJSON, AllReceived
  <2> QED BY <1>1, <2>1 DEF SInv, RefusedForAReason
<1> QED BY <1>2, <1>3, <1>4, <1>5, <1>6, <1>7, <1>8 DEF SInv

LEMMA StreamStep == SInv /\ Next => SInv'
<1> SUFFICES ASSUME SInv, Next PROVE SInv'
  OBVIOUS
<1>1. CASE RecvMsg
  BY <1>1, RecvMsgStep
<1>2. CASE JSONFound
  BY <1>2, JSONFoundStep
<1>3. CASE JSONTooLarge
  BY <1>3, JSONTooLargeStep
<1>4. CASE ProtoMessage
  BY <1>4, ProtoMessageStep
<1>5. CASE Read
  <2>1. PICK k \in 0 .. Len(rest), eof \in BOOLEAN :
          JSONRead(k, eof) \/ ProtoSizeRead(k, eof) \/ BodyRead(k, eof) \/ ReadAll(k, eof)
    BY <1>5 DEF Read
  <2> QED BY <2>1, JSONReadStep, ProtoSizeReadStep, BodyReadStep, ReadAllStep
<1> QED BY <1>1, <1>2, <1>3, <1>4, <1>5 DEF Next

-----------------------------------------------------------------------------
(* The answer. *)

IsWire(w) ==
  /\ w = [status |-> w.status, header |-> w.header, body |-> w.body]
  /\ w.status \in Nat
  /\ \E S : w.body \in Seq(S)

(* The handler has written something. *)
Answered(w) == \E i \in 1 .. Len(w.body) : w.body[i].kind \in {"message", "raw"}

(* A header has the metadata. *)
HasMD(h, md) ==
  \A k \in DOMAIN md : isReservedHeader(k) \/ (k \in DOMAIN h /\ h[k] = Outgoing(k, md[k]))

TypeSet(h) == ContentType \in DOMAIN h /\ \E t : h[ContentType] = <<Plain(t)>>

(* Who reads the body: the codec or the handler. *)
RawReader ==
  raw.reader => recvCount # 0 /\ req.streaming /\ req.codec = "body" /\ last # "error"

Ended == Stream /\ last = "eof" => rEOF

(* While the handler runs and no SendMsg has failed, nothing is on the wire  *)
(* before a message is, and then the header that went with it has its type   *)
(* and all the metadata.                                                     *)
Sending ==
  /\ phase = "start" => wire.status = 0 /\ sendCount = 0 /\ ~sentHeader
  /\ phase \in {"start", "handler"} =>
       /\ wire.status = 0 => wire.body = <<>>
       /\ wire.status # 0 /\ serr # 13 => sentHeader /\ HasMD(wire.header, header)
       /\ wire.status # 0 /\ serr = 0 =>
            Answered(wire) /\ wire.header[ContentType] = <<Plain(Head(wire.body).type)>>
       /\ sendCount = 0 => ~raw.writer /\ (serr = 0 => wire.status = 0)
       /\ sendCount # 0 => sentHeader /\ TypeSet(wHeader)
       /\ sendCount # 0 /\ serr = 0 /\ ~raw.writer => wire.status # 0
       /\ raw.writer => rep.output = "HttpBody"
       /\ sentHeader => HasMD(wHeader, header)

RInv ==
  /\ SInv /\ RawReader /\ Ended
  /\ ReplyTypeOK /\ IsWire(wire) /\ Sending
  /\ ErrorSeenUnlessBegun /\ ContentTypeIsTrue /\ MetadataSent

LEMMA StatusCodes ==
  ASSUME NEW c \in Nat
  PROVE  /\ HTTPStatusCode(c) \in Nat
         /\ c # 0 /\ HTTPStatusCode(c) # 0 => HTTPStatusCode(c) >= 400
<1>1. Len(codeToHTTPStatus) = 17
  BY DEF codeToHTTPStatus
<1>2. CASE c > 17
  BY <1>1, <1>2 DEF HTTPStatusCode
<1>3. CASE c = 17
  BY <1>1, <1>3 DEF HTTPStatusCode
<1>4. CASE c \in 0 .. 16
  <2>1. HTTPStatusCode(c) = codeToHTTPStatus[c + 1]
    BY <1>1, <1>4 DEF HTTPStatusCode
  <2>2. \A i \in 1 .. 17 : codeToHTTPStatus[i] \in Nat /\ (i # 1 => codeToHTTPStatus[i] >= 400)
    BY DEF codeToHTTPStatus
  <2>3. c + 1 \in 1 .. 17 /\ (c # 0 => c + 1 # 1)
    BY <1>4
  <2> QED BY <2>1, <2>2, <2>3
<1> QED BY <1>2, <1>3, <1>4

LEMMA AppendedPart ==
  ASSUME NEW s, NEW S, s \in Seq(S), NEW e
  PROVE  /\ \E U : Append(s, e) \in Seq(U)
         /\ Len(Append(s, e)) = Len(s) + 1 /\ Len(s) \in Nat
         /\ Append(s, e) # <<>>
         /\ \A i \in 1 .. Len(s) : Append(s, e)[i] = s[i]
         /\ Append(s, e)[Len(s) + 1] = e
         /\ Head(Append(s, e)) = IF s = <<>> THEN e ELSE Head(s)
<1> DEFINE U == S \cup {e}
<1>1. s \in Seq(U) /\ e \in U
  OBVIOUS
<1> HIDE DEF U
<1> DEFINE a == Append(s, e)
<1>2. a \in Seq(U) /\ a # <<>> /\ Len(a) = Len(s) + 1 /\ Len(s) \in Nat
  BY <1>1, AppendFacts
<1>3. /\ \A i \in 1 .. Len(s) : a[i] = s[i]
      /\ a[Len(s) + 1] = e
  BY <1>1, AppendProperties
<1>4. Head(a) = a[1] /\ (s # <<>> => Head(s) = s[1])
  BY <1>1, <1>2, HeadTailProperties
<1>5. s = <<>> => Len(s) + 1 = 1
  BY <1>1
<1>6. s # <<>> => 1 \in 1 .. Len(s)
  BY <1>1, EmptySeq
<1>7. Head(a) = IF s = <<>> THEN e ELSE Head(s)
  BY <1>3, <1>4, <1>5, <1>6
<1> QED BY <1>2, <1>3, <1>7

LEMMA BodyExcept ==
  ASSUME NEW w, IsWire(w), NEW b
  PROVE  [w EXCEPT !.body = b] = [status |-> w.status, header |-> w.header, body |-> b]
<1> DEFINE X == {w.status}
           Y == {w.header}
           Z == {w.body}
<1>1. w.status \in X /\ w.header \in Y /\ w.body \in Z
  OBVIOUS
<1> HIDE DEF X, Y, Z
<1>2. [status |-> w.status, header |-> w.header, body |-> w.body]
        \in [status : X, header : Y, body : Z]
  BY <1>1
<1>3. w \in [status : X, header : Y, body : Z]
  BY <1>2, Zenon DEF IsWire
<1> QED BY <1>3

LEMMA WithStatusFacts ==
  ASSUME NEW w, IsWire(w), NEW h, NEW n \in Nat
  PROVE  /\ IsWire(WithStatus(w, h, n))
         /\ WithStatus(w, h, n).body = w.body
         /\ WithStatus(w, h, n).status = IF w.status # 0 THEN w.status ELSE n
         /\ WithStatus(w, h, n).header = IF w.status # 0 THEN w.header ELSE h
<1>1. WithStatus(w, h, n) =
        IF w.status # 0 THEN w ELSE [status |-> n, header |-> h, body |-> w.body]
  BY DEF WithStatus
<1>2. CASE w.status # 0
  BY <1>1, <1>2
<1>3. CASE w.status = 0
  <2>1. WithStatus(w, h, n) = [status |-> n, header |-> h, body |-> w.body]
    BY <1>1, <1>3
  <2>2. \E S : w.body \in Seq(S)
    BY DEF IsWire
  <2>3. IsWire([status |-> n, header |-> h, body |-> w.body])
    BY <2>2 DEF IsWire
  <2> QED BY <1>3, <2>1, <2>3
<1> QED BY <1>2, <1>3

LEMMA WrittenFacts ==
  ASSUME NEW w, IsWire(w), NEW h, NEW p
  PROVE  /\ IsWire(Written(w, h, p))
         /\ Written(w, h, p).status = IF w.status # 0 THEN w.status ELSE 200
         /\ Written(w, h, p).header = IF w.status # 0 THEN w.header ELSE h
         /\ Written(w, h, p).body # <<>>
         /\ Head(Written(w, h, p).body) = IF w.body = <<>> THEN p ELSE Head(w.body)
         /\ Answered(w) \/ p.kind \in {"message", "raw"} => Answered(Written(w, h, p))
<1> DEFINE v == WithStatus(w, h, 200)
           b == Append(w.body, p)
<1>1. /\ IsWire(v) /\ v.body = w.body
      /\ v.status = IF w.status # 0 THEN w.status ELSE 200
      /\ v.header = IF w.status # 0 THEN w.header ELSE h
  <2>1. 200 \in Nat
    OBVIOUS
  <2> QED BY <2>1, WithStatusFacts
<1>2. Written(w, h, p) = [v EXCEPT !.body = Append(@, p)]
  BY DEF Written
<1> HIDE DEF v
<1>3. v = [status |-> v.status, header |-> v.header, body |-> v.body] /\ v.status \in Nat
  BY <1>1 DEF IsWire
<1>4. Written(w, h, p) = [status |-> v.status, header |-> v.header, body |-> b]
  <2>1. [v EXCEPT !.body = b] = [status |-> v.status, header |-> v.header, body |-> b]
    BY <1>1, BodyExcept
  <2>2. Written(w, h, p) = [v EXCEPT !.body = b]
    BY <1>1, <1>2
  <2> QED BY <2>1, <2>2
<1>5. PICK S : w.body \in Seq(S)
  BY DEF IsWire
<1>6. /\ \E U : b \in Seq(U)
      /\ Len(b) = Len(w.body) + 1 /\ Len(w.body) \in Nat
      /\ b # <<>>
      /\ \A i \in 1 .. Len(w.body) : b[i] = w.body[i]
      /\ b[Len(w.body) + 1] = p
      /\ Head(b) = IF w.body = <<>> THEN p ELSE Head(w.body)
  BY <1>5, AppendedPart
<1> HIDE DEF b
<1>7. IsWire([status |-> v.status, header |-> v.header, body |-> b])
  BY <1>3, <1>6 DEF IsWire
<1>8. ASSUME Answered(w) \/ p.kind \in {"message", "raw"}
      PROVE  Answered([status |-> v.status, header |-> v.header, body |-> b])
  <2>1. CASE Answered(w)
    <3>1. PICK i \in 1 .. Len(w.body) : w.body[i].kind \in {"message", "raw"}
      BY <2>1 DEF Answered
    <3>2. i \in 1 .. Len(b) /\ b[i] = w.body[i]
      BY <1>6
    <3> QED BY <3>1, <3>2 DEF Answered
  <2>2. CASE p.kind \in {"message", "raw"}
    <3>1. Len(b) \in 1 .. Len(b) /\ b[Len(b)] = p
      BY <1>6
    <3> QED BY <2>2, <3>1 DEF Answered
  <2> QED BY <1>8, <2>1, <2>2
<1> QED BY <1>1, <1>4, <1>6, <1>7, <1>8

(* Flush begins an answer, and writes nothing. *)
LEMMA FlushedFacts ==
  ASSUME NEW w, IsWire(w), NEW h
  PROVE  /\ IsWire(Flushed(w, h)) /\ Flushed(w, h).body = w.body
         /\ w.status # 0 => Flushed(w, h) = w
         /\ w.status = 0 => Flushed(w, h).header = h \/ Flushed(w, h).status = 0
<1>1. CASE encoding = "none"
  <2>1. Flushed(w, h) = WithStatus(w, h, 200)
    BY <1>1 DEF Flushed
  <2>2. 200 \in Nat
    OBVIOUS
  <2>3. IsWire(WithStatus(w, h, 200)) /\ WithStatus(w, h, 200).body = w.body
    BY <2>2, WithStatusFacts
  <2>4. w.status # 0 => WithStatus(w, h, 200) = w
    BY DEF WithStatus
  <2>5. w.status = 0 => WithStatus(w, h, 200).header = h
    BY DEF WithStatus
  <2> QED BY <2>1, <2>3, <2>4, <2>5
<1>2. CASE encoding # "none"
  BY <1>2 DEF Flushed
<1> QED BY <1>1, <1>2

LEMMA WriterClosedFacts ==
  ASSUME NEW w, IsWire(w), NEW h
  PROVE  IsWire(WriterClosed(w, h))
<1>1. CASE encoding = "none"
  BY <1>1 DEF WriterClosed
<1>2. CASE encoding # "none"
  <2> DEFINE q == Part("footer", NoType, encoding)
  <2>1. WriterClosed(w, h) = Written(w, h, q)
    BY <1>2 DEF WriterClosed
  <2> HIDE DEF q
  <2> QED BY <2>1, WrittenFacts
<1> QED BY <1>1, <1>2

(* The compressor closes the answer: what was written stays. *)
LEMMA ClosedFacts ==
  ASSUME NEW w, IsWire(w), NEW h
  PROVE  /\ IsWire(Closed(w, h))
         /\ Closed(w, h).status = IF w.status # 0 THEN w.status ELSE 200
         /\ Closed(w, h).header = IF w.status # 0 THEN w.header ELSE h
         /\ Answered(w) => Answered(Closed(w, h))
         /\ w.body # <<>> => Closed(w, h).body # <<>> /\ Head(Closed(w, h).body) = Head(w.body)
         /\ w.body = <<>> /\ Closed(w, h).body # <<>> => Head(Closed(w, h).body).kind = "footer"
<1>1. CASE encoding = "none"
  <2>1. 200 \in Nat
    OBVIOUS
  <2>2. Closed(w, h) = WithStatus(w, h, 200)
    BY <1>1 DEF Closed, WriterClosed
  <2> DEFINE v == WithStatus(w, h, 200)
  <2>3. /\ IsWire(v) /\ v.body = w.body
        /\ v.status = IF w.status # 0 THEN w.status ELSE 200
        /\ v.header = IF w.status # 0 THEN w.header ELSE h
    BY <2>1, WithStatusFacts
  <2> HIDE DEF v
  <2>4. Answered(w) => Answered(v)
    BY <2>3 DEF Answered
  <2> QED BY <2>2, <2>3, <2>4 DEF v
<1>2. CASE encoding # "none"
  <2> DEFINE p == Part("footer", NoType, encoding)
             v == Written(w, h, p)
  <2>1. Closed(w, h) = WithStatus(v, h, 200)
    BY <1>2 DEF Closed, WriterClosed
  <2>2. p.kind = "footer"
    BY DEF Part
  <2> HIDE DEF p
  <2>3. /\ IsWire(v)
        /\ v.status = IF w.status # 0 THEN w.status ELSE 200
        /\ v.header = IF w.status # 0 THEN w.header ELSE h
        /\ v.body # <<>>
        /\ Head(v.body) = IF w.body = <<>> THEN p ELSE Head(w.body)
        /\ Answered(w) \/ p.kind \in {"message", "raw"} => Answered(v)
    BY WrittenFacts
  <2>4. v.status # 0
    BY <2>3 DEF IsWire
  <2> HIDE DEF v
  <2>5. Closed(w, h) = v
    BY <2>1, <2>4 DEF WithStatus
  <2> QED BY <2>2, <2>3, <2>5
<1> QED BY <1>1, <1>2

-----------------------------------------------------------------------------
(* Headers. *)

LEMMA TypeReserved == isReservedHeader(ContentType)
BY DEF isReservedHeader, ContentType, Key

LEMMA SetFacts ==
  ASSUME NEW h, NEW k, NEW v
  PROVE  /\ k \in DOMAIN Set(h, k, v) /\ Set(h, k, v)[k] = <<Plain(v)>>
         /\ \A x \in DOMAIN h : x # k => x \in DOMAIN Set(h, k, v) /\ Set(h, k, v)[x] = h[x]
BY DEF Set, SetText

LEMMA SetKeepsMD ==
  ASSUME NEW h, NEW md, HasMD(h, md), NEW v
  PROVE  HasMD(Set(h, ContentType, v), md)
<1> SUFFICES ASSUME NEW k \in DOMAIN md, ~isReservedHeader(k)
             PROVE  /\ k \in DOMAIN Set(h, ContentType, v)
                    /\ Set(h, ContentType, v)[k] = Outgoing(k, md[k])
  BY DEF HasMD
<1>1. k \in DOMAIN h /\ h[k] = Outgoing(k, md[k])
  BY DEF HasMD
<1>2. k # ContentType
  BY TypeReserved
<1> QED BY <1>1, <1>2, SetFacts

LEMMA OutgoingFacts ==
  ASSUME NEW h, NEW md
  PROVE  /\ HasMD(setOutgoingHeader(h, md), md)
         /\ ContentType \in DOMAIN h =>
              /\ ContentType \in DOMAIN setOutgoingHeader(h, md)
              /\ setOutgoingHeader(h, md)[ContentType] = h[ContentType]
<1> DEFINE sent == {k \in DOMAIN md : ~isReservedHeader(k)}
           o == [k \in DOMAIN h \cup sent |-> IF k \in sent THEN Outgoing(k, md[k]) ELSE h[k]]
<1>1. setOutgoingHeader(h, md) = o
  BY DEF setOutgoingHeader
<1>2. HasMD(o, md)
  BY DEF HasMD
<1>3. ContentType \notin sent
  BY TypeReserved
<1>4. ContentType \in DOMAIN h => ContentType \in DOMAIN o /\ o[ContentType] = h[ContentType]
  BY <1>3
<1> QED BY <1>1, <1>2, <1>4

LEMMA FirstHeaderFacts ==
  ASSUME NEW t, sentHeader => HasMD(wHeader, header)
  PROVE  /\ ContentType \in DOMAIN FirstHeader(t)
         /\ FirstHeader(t)[ContentType] = <<Plain(t)>>
         /\ HasMD(FirstHeader(t), header)
<1> DEFINE h == Set(wHeader, ContentType, t)
<1>1. ContentType \in DOMAIN h /\ h[ContentType] = <<Plain(t)>>
  BY SetFacts
<1>2. sentHeader => HasMD(h, header)
  BY SetKeepsMD
<1>3. FirstHeader(t) = IF sentHeader THEN h ELSE setOutgoingHeader(h, header)
  BY DEF FirstHeader
<1> HIDE DEF h
<1>4. CASE sentHeader
  BY <1>1, <1>2, <1>3, <1>4
<1>5. CASE ~sentHeader
  BY <1>1, <1>3, <1>5, OutgoingFacts
<1> QED BY <1>4, <1>5

(* encError: an error status, or an answer that had begun. *)
LEMMA EncErrorFacts ==
  ASSUME NEW c \in Nat \ {0}, NEW h, encError(c, h), IsWire(wire),
         wire.status = 0 => wire.body = <<>>,
         wire.status # 0 /\ serr # 13 => HasMD(wire.header, header),
         wire.status # 0 /\ serr = 0 =>
           Answered(wire) /\ wire.header[ContentType] = <<Plain(Head(wire.body).type)>>,
         sentHeader => HasMD(h, header)
  PROVE  /\ IsWire(wire')
         /\ \/ phase' = "panic"
            \/ /\ phase' = "done"
               /\ wire'.status >= 400 \/ Answered(wire') \/ serr # 0
               /\ serr = 0 => wire'.header[ContentType] = <<Plain(Head(wire'.body).type)>>
               /\ sentHeader /\ serr # 13 => HasMD(wire'.header, header)
<1>1. CASE HTTPStatusCode(c) = 0 \/ CannotEncode
  <2> DEFINE g == Set(h, ContentType, ErrorType)
             n == HTTPStatusCode(c)
  <2>1. /\ phase' = "panic"
        /\ wire' = WriterClosed(wire, g) \/ wire' = WriterClosed(WithStatus(wire, g, n), g)
    BY <1>1 DEF encError
  <2>2. n \in Nat
    BY StatusCodes
  <2> HIDE DEF g, n
  <2>3. IsWire(WithStatus(wire, g, n))
    BY <2>2, WithStatusFacts
  <2>4. /\ IsWire(WriterClosed(wire, g))
        /\ IsWire(WriterClosed(WithStatus(wire, g, n), g))
    BY <2>3, WriterClosedFacts
  <2> QED BY <2>1, <2>4
<1>2. CASE ~(HTTPStatusCode(c) = 0 \/ CannotEncode)
  <2> DEFINE g == Set(h, ContentType, ErrorType)
             n == HTTPStatusCode(c)
             p == Part("error", ErrorType, "none")
             u == WithStatus(wire, g, n)
             v == Written(u, g, p)
             z == Closed(v, g)
  <2>1. wire' = z /\ phase' = "done"
    BY <1>2 DEF encError
  <2>2. n \in Nat /\ n >= 400 /\ n # 0
    BY <1>2, StatusCodes
  <2>3. g[ContentType] = <<Plain(ErrorType)>> /\ (sentHeader => HasMD(g, header))
    BY SetFacts, SetKeepsMD
  <2>4. p.type = ErrorType
    BY DEF Part
  <2> HIDE DEF g, n, p
  <2>5. /\ IsWire(u) /\ u.body = wire.body
        /\ u.status = IF wire.status # 0 THEN wire.status ELSE n
        /\ u.header = IF wire.status # 0 THEN wire.header ELSE g
    BY <2>2, WithStatusFacts
  <2>6. u.status # 0
    BY <2>2, <2>5
  <2>7. Answered(wire) => Answered(u)
    BY <2>5 DEF Answered
  <2> HIDE DEF u
  <2>8. /\ IsWire(v)
        /\ v.status = IF u.status # 0 THEN u.status ELSE 200
        /\ v.header = IF u.status # 0 THEN u.header ELSE g
        /\ v.body # <<>>
        /\ Head(v.body) = IF u.body = <<>> THEN p ELSE Head(u.body)
        /\ Answered(u) \/ p.kind \in {"message", "raw"} => Answered(v)
    BY <2>5, WrittenFacts
  <2> HIDE DEF v
  <2>9. /\ IsWire(z)
        /\ z.status = IF v.status # 0 THEN v.status ELSE 200
        /\ z.header = IF v.status # 0 THEN v.header ELSE g
        /\ Answered(v) => Answered(z)
        /\ v.body # <<>> => z.body # <<>> /\ Head(z.body) = Head(v.body)
    BY <2>8, ClosedFacts
  <2> HIDE DEF z
  <2>10. z.status = u.status /\ z.header = u.header
    BY <2>6, <2>8, <2>9
  <2>11. CASE wire.status = 0
    <3>1. z.status = n /\ z.header = g /\ Head(z.body) = p
      BY <2>5, <2>8, <2>9, <2>10, <2>11
    <3> QED BY <2>1, <2>2, <2>3, <2>4, <2>9, <3>1
  <2>12. CASE wire.status # 0
    <3>1. z.header = wire.header
      BY <2>5, <2>8, <2>9, <2>10, <2>12
    <3>2. CASE serr # 0
      BY <2>1, <2>9, <2>12, <3>1, <3>2
    <3>3. CASE serr = 0
      <4>1. wire.body # <<>>
        BY <2>12, <3>3 DEF Answered
      <4>2. Head(z.body) = Head(wire.body) /\ Answered(z)
        BY <2>5, <2>7, <2>8, <2>9, <2>10, <2>12, <3>3, <4>1
      <4> QED BY <2>1, <2>9, <2>12, <3>1, <3>3, <4>2
    <3> QED BY <3>2, <3>3
  <2> QED BY <2>11, <2>12
<1> QED BY <1>1, <1>2

-----------------------------------------------------------------------------
(* Steps that leave the stream alone. *)

LEMMA StreamSame ==
  ASSUME RInv, vars' = vars, raw'.reader = raw.reader
  PROVE  SInv' /\ RawReader' /\ Ended' /\ TypeOK' /\ req' = req
<1>1. /\ req' = req /\ recvCount' = recvCount /\ rEOF' = rEOF /\ last' = last
  BY DEF vars
<1>2. SInv'
  BY VarsUnchanged DEF RInv
<1>3. RawReader'
  BY <1>1 DEF RInv, RawReader
<1>4. Ended'
  BY <1>1 DEF RInv, Ended, Stream
<1>5. TypeOK'
  BY <1>2 DEF SInv
<1> QED BY <1>1, <1>2, <1>3, <1>4, <1>5

(* The types of the reply, for the step lemmas. *)
LEMMA ReplyFacts ==
  ASSUME RInv
  PROVE  /\ req \in Requests /\ rep \in RepliesFor(req)
         /\ rep.twirp \in BOOLEAN /\ rep.serverStream \in BOOLEAN /\ rep.sends \in Nat
         /\ sendCount \in Nat /\ sendCount <= rep.sends /\ sentHeader \in BOOLEAN
         /\ raw \in [reader : BOOLEAN, writer : BOOLEAN]
         /\ encoding \in {"none", "gzip"} /\ rawBody \in Seq(Unit)
         /\ serr \in {0, 2, 13} /\ herr \in Codes \cup RefuseCodes \cup {0, 2, 13}
         /\ phase \in {"start", "handler", "done", "panic"}
         /\ IsWire(wire) /\ Sending
<1>1. ReplyTypeOK /\ TypeOK /\ IsWire(wire) /\ Sending
  BY DEF RInv, ReplyTypeOK
<1>2. req \in Requests /\ rep \in RepliesFor(req)
  BY <1>1 DEF ReplyTypeOK, TypeOK
<1>3. rep.twirp \in BOOLEAN /\ rep.serverStream \in BOOLEAN /\ rep.sends \in Nat
  BY <1>2, ReplyTypes
<1>4. sendCount \in 0 .. rep.sends
  BY <1>1 DEF ReplyTypeOK
<1>5. sendCount \in Nat /\ sendCount <= rep.sends
  BY <1>3, <1>4
<1> QED BY <1>1, <1>2, <1>3, <1>5 DEF ReplyTypeOK

(* While the handler runs, the properties of the answer say nothing yet. *)
LEMMA Running ==
  ASSUME phase' \notin {"done"}
  PROVE  ErrorSeenUnlessBegun' /\ ContentTypeIsTrue' /\ MetadataSent'
BY DEF ErrorSeenUnlessBegun, ContentTypeIsTrue, MetadataSent

LEMMA RefuseStep ==
  ASSUME RInv, NEW c \in RefuseCodes, Refuse(c)
  PROVE  RInv'
<1>1. /\ phase = "start" /\ herr' = c /\ encError(c, wHeader)
      /\ vars' = vars /\ rep' = rep /\ encoding' = encoding /\ header' = header
      /\ sentHeader' = sentHeader /\ sendCount' = sendCount /\ raw' = raw
      /\ rawBody' = rawBody /\ serr' = serr
  BY DEF Refuse
<1>2. SInv' /\ RawReader' /\ Ended' /\ TypeOK' /\ req' = req
  BY <1>1, StreamSame
<1>3. wire.status = 0 /\ ~sentHeader /\ IsWire(wire) /\ wire.body = <<>>
  BY <1>1, ReplyFacts DEF Sending
<1>4. c \in Nat \ {0}
  BY DEF RefuseCodes
<1>5. /\ IsWire(wire')
      /\ \/ phase' = "panic"
         \/ /\ phase' = "done"
            /\ wire'.status >= 400 \/ Answered(wire') \/ serr # 0
            /\ serr = 0 => wire'.header[ContentType] = <<Plain(Head(wire'.body).type)>>
  BY <1>1, <1>3, <1>4, EncErrorFacts
<1>6. ReplyTypeOK'
  <2>1. wire'.status \in Nat /\ phase' \in {"start", "handler", "done", "panic"}
    BY <1>5 DEF IsWire
  <2>2. herr' \in Codes \cup RefuseCodes \cup {0, 2, 13}
    BY <1>1
  <2>3. sendCount' \in 0 .. rep'.sends
    BY <1>1 DEF RInv, ReplyTypeOK
  <2> QED BY <1>1, <1>2, <2>1, <2>2, <2>3, ReplyFacts DEF ReplyTypeOK
<1>7. Sending'
  BY <1>5 DEF Sending
<1>8. ErrorSeenUnlessBegun'
  BY <1>1, <1>5 DEF ErrorSeenUnlessBegun, Answered, SendFailed
<1>9. ContentTypeIsTrue' /\ MetadataSent'
  BY <1>1, <1>3, <1>5 DEF ContentTypeIsTrue, MetadataSent, SendFailed
<1> QED BY <1>2, <1>5, <1>6, <1>7, <1>8, <1>9 DEF RInv

LEMMA CallHandlerStep == RInv /\ CallHandler => RInv'
<1> SUFFICES ASSUME RInv, CallHandler PROVE RInv'
  OBVIOUS
<1>1. /\ phase = "start" /\ phase' = "handler"
      /\ vars' = vars /\ rep' = rep /\ header' = header
      /\ sentHeader' = sentHeader /\ sendCount' = sendCount /\ raw' = raw
      /\ rawBody' = rawBody /\ wire' = wire /\ serr' = serr /\ herr' = herr
  BY DEF CallHandler
<1>2. SInv' /\ RawReader' /\ Ended' /\ TypeOK' /\ req' = req
  BY <1>1, StreamSame
<1>3. wire.status = 0 /\ ~sentHeader /\ sendCount = 0 /\ wire.body = <<>> /\ IsWire(wire)
      /\ ~raw.writer
  BY <1>1, ReplyFacts DEF Sending
<1>4. encoding' \in {"none", "gzip"}
  <2> DEFINE e == negotiateContentEncoding(rep.acceptEncoding, encodingTypeOffers)
  <2>1. IF e \in DOMAIN compressors THEN encoding' = compressors[e] ELSE encoding' = encoding
    BY DEF CallHandler
  <2> HIDE DEF e
  <2>2. e \in DOMAIN compressors => compressors[e] = "gzip"
    BY DEF compressors
  <2> QED BY <2>1, <2>2, ReplyFacts
<1>5. ReplyTypeOK'
  <2>1. sendCount' \in 0 .. rep'.sends /\ wire'.status \in Nat
    BY <1>1 DEF RInv, ReplyTypeOK
  <2> QED BY <1>1, <1>2, <1>4, <2>1, ReplyFacts DEF ReplyTypeOK
<1>6. Sending'
  BY <1>1, <1>3 DEF Sending
<1>7. IsWire(wire')
  BY <1>1, <1>3
<1> QED BY <1>1, <1>2, <1>5, <1>6, <1>7, Running DEF RInv

LEMMA SetHeaderStep ==
  ASSUME RInv, NEW md, SetHeader(md)
  PROVE  RInv'
<1>1. /\ phase = "handler" /\ phase' = phase /\ ~sentHeader
      /\ vars' = vars /\ rep' = rep /\ encoding' = encoding
      /\ sentHeader' = sentHeader /\ sendCount' = sendCount /\ raw' = raw
      /\ rawBody' = rawBody /\ wHeader' = wHeader /\ wire' = wire /\ serr' = serr /\ herr' = herr
  BY DEF SetHeader, MaySet, InHandler
<1>2. SInv' /\ RawReader' /\ Ended' /\ TypeOK' /\ req' = req
  BY <1>1, StreamSame
<1>3. /\ wire.status = 0 \/ serr = 13
      /\ wire.status = 0 => wire.body = <<>>
      /\ sendCount = 0 /\ IsWire(wire) /\ ~raw.writer
  BY <1>1, ReplyFacts DEF Sending
<1>4. ReplyTypeOK'
  <2>1. sendCount' \in 0 .. rep'.sends /\ wire'.status \in Nat
    BY <1>1 DEF RInv, ReplyTypeOK
  <2> QED BY <1>1, <1>2, <2>1, ReplyFacts DEF ReplyTypeOK
<1>5. Sending'
  BY <1>1, <1>3 DEF Sending
<1>6. IsWire(wire')
  BY <1>1, <1>3
<1> QED BY <1>1, <1>2, <1>4, <1>5, <1>6, Running DEF RInv

LEMMA SendHeaderStep ==
  ASSUME RInv, NEW md, SendHeader(md)
  PROVE  RInv'
<1>1. /\ phase = "handler" /\ phase' = phase /\ ~sentHeader
      /\ vars' = vars /\ rep' = rep /\ encoding' = encoding
      /\ sentHeader' = TRUE /\ sendCount' = sendCount /\ raw' = raw
      /\ rawBody' = rawBody /\ wHeader' = setOutgoingHeader(wHeader, header')
      /\ wire' = wire /\ serr' = serr /\ herr' = herr
  BY DEF SendHeader, MaySet, InHandler
<1>2. SInv' /\ RawReader' /\ Ended' /\ TypeOK' /\ req' = req
  BY <1>1, StreamSame
<1>3. /\ wire.status = 0 \/ serr = 13
      /\ wire.status = 0 => wire.body = <<>>
      /\ sendCount = 0 /\ IsWire(wire) /\ ~raw.writer
  BY <1>1, ReplyFacts DEF Sending
<1>4. ReplyTypeOK'
  <2>1. sendCount' \in 0 .. rep'.sends /\ wire'.status \in Nat
    BY <1>1 DEF RInv, ReplyTypeOK
  <2> QED BY <1>1, <1>2, <2>1, ReplyFacts DEF ReplyTypeOK
<1>5. HasMD(wHeader', header')
  BY <1>1, OutgoingFacts
<1>6. Sending'
  BY <1>1, <1>3, <1>5 DEF Sending
<1>7. IsWire(wire')
  BY <1>1, <1>3
<1> QED BY <1>1, <1>2, <1>4, <1>6, <1>7, Running DEF RInv

(* A message: the first one takes the header with it. *)
LEMMA WriteMsgStep ==
  ASSUME RInv, NEW codec, NEW type, NEW n \in Nat, MaySend, ~raw.writer, writeMsg(codec, type, n),
         vars' = vars, rep' = rep, phase' = phase, encoding' = encoding, header' = header,
         raw' = raw, rawBody' = rawBody, herr' = herr
  PROVE  RInv'
<1> DEFINE h == IF sendCount = 0 THEN FirstHeader(type) ELSE wHeader
           size == Written(wire, h, Part("size", type, encoding))
           p == Part("message", type, encoding)
           w == IF rep.serverStream /\ codec = "proto" THEN size ELSE wire
<1>1. /\ wHeader' = h /\ sentHeader' = TRUE /\ sendCount' = sendCount + 1
      /\ \/ wire' = Written(w, h, p) /\ serr' = serr
         \/ wire' = Flushed(wire, h) /\ serr' = 2
  BY DEF writeMsg
<1>2. SInv' /\ RawReader' /\ Ended' /\ TypeOK' /\ req' = req
  BY StreamSame
<1>3. phase = "handler" /\ sendCount < rep.sends /\ serr = 0
  BY DEF MaySend, InHandler
<1>4. /\ IsWire(wire) /\ (sentHeader => HasMD(wHeader, header))
      /\ wire.status = 0 => wire.body = <<>> /\ sendCount = 0
      /\ wire.status # 0 =>
           /\ Answered(wire) /\ HasMD(wire.header, header)
           /\ wire.header[ContentType] = <<Plain(Head(wire.body).type)>>
      /\ sendCount # 0 => TypeSet(wHeader) /\ HasMD(wHeader, header)
  BY <1>3, ReplyFacts DEF Sending
<1>5. /\ TypeSet(h) /\ HasMD(h, header)
      /\ wire.status = 0 => h[ContentType] = <<Plain(type)>>
  <2>1. CASE sendCount = 0
    BY <1>4, <2>1, FirstHeaderFacts DEF TypeSet
  <2>2. CASE sendCount # 0
    BY <1>4, <2>2
  <2> QED BY <2>1, <2>2
<1>6. sendCount \in Nat /\ rep.sends \in Nat
  BY ReplyFacts
<1>7. sendCount' # 0 /\ sendCount' \in 0 .. rep'.sends
  BY <1>1, <1>3, <1>6
<1>8. p.kind = "message" /\ p.type = type
  BY DEF Part
<1> HIDE DEF h, p
<1>9. /\ IsWire(wire')
      /\ wire'.status = 0 => wire'.body = <<>>
      /\ wire'.status # 0 => HasMD(wire'.header, header)
      /\ serr' = 0 => /\ wire'.status # 0 /\ Answered(wire')
                      /\ wire'.header[ContentType] = <<Plain(Head(wire'.body).type)>>
  <2>1. CASE wire' = Flushed(wire, h) /\ serr' = 2
    <3>1. /\ IsWire(wire') /\ wire'.body = wire.body
          /\ wire.status # 0 => wire' = wire
          /\ wire.status = 0 => wire'.header = h \/ wire'.status = 0
      BY <1>4, <2>1, FlushedFacts
    <3> QED BY <1>4, <1>5, <2>1, <3>1
  <2>2. CASE wire' = Written(w, h, p) /\ serr' = serr
    <3>1. /\ IsWire(w)
          /\ w.status # 0 \/ w = wire
          /\ w.status # 0 /\ w # wire =>
               /\ w.header = IF wire.status # 0 THEN wire.header ELSE h
               /\ w.body # <<>>
               /\ Head(w.body).type = IF wire.body = <<>> THEN type ELSE Head(wire.body).type
      <4>1. CASE rep.serverStream /\ codec = "proto"
        <5> DEFINE q == Part("size", type, encoding)
        <5>1. w = Written(wire, h, q)
          BY <4>1
        <5>2. q.type = type
          BY DEF Part
        <5> HIDE DEF q, w
        <5>3. /\ IsWire(w) /\ w.body # <<>>
              /\ w.status = IF wire.status # 0 THEN wire.status ELSE 200
              /\ w.header = IF wire.status # 0 THEN wire.header ELSE h
              /\ Head(w.body) = IF wire.body = <<>> THEN q ELSE Head(wire.body)
          BY <1>4, <5>1, WrittenFacts
        <5> QED BY <5>2, <5>3
      <4>2. CASE ~(rep.serverStream /\ codec = "proto")
        BY <1>4, <4>2
      <4> QED BY <4>1, <4>2
    <3> HIDE DEF w
    <3> DEFINE z == Written(w, h, p)
    <3>2. /\ IsWire(z) /\ z.body # <<>>
          /\ z.status = IF w.status # 0 THEN w.status ELSE 200
          /\ z.header = IF w.status # 0 THEN w.header ELSE h
          /\ Head(z.body) = IF w.body = <<>> THEN p ELSE Head(w.body)
          /\ Answered(w) \/ p.kind \in {"message", "raw"} => Answered(z)
      BY <3>1, WrittenFacts
    <3> HIDE DEF z
    <3>3. z.status # 0 /\ Answered(z)
      BY <1>8, <3>2
    <3>4. wire.status # 0 => wire.body # <<>>
      BY <1>4 DEF Answered
    <3>5. /\ z.header = IF wire.status # 0 THEN wire.header ELSE h
          /\ Head(z.body).type = IF wire.status = 0 THEN type ELSE Head(wire.body).type
      <4>1. CASE w = wire
        BY <1>4, <1>8, <3>2, <3>4, <4>1
      <4>2. CASE w # wire
        BY <1>4, <3>1, <3>2, <3>4, <4>2
      <4> QED BY <4>1, <4>2
    <3>6. HasMD(z.header, header) /\ z.header[ContentType] = <<Plain(Head(z.body).type)>>
      BY <1>4, <1>5, <3>5
    <3>7. wire' = z
      BY <2>2 DEF z
    <3> QED BY <3>2, <3>3, <3>6, <3>7
  <2> QED BY <1>1, <2>1, <2>2
<1>10. ReplyTypeOK'
  <2>1. wire'.status \in Nat
    BY <1>9 DEF IsWire
  <2>2. serr' \in {0, 2, 13}
    BY <1>1, <1>3
  <2> QED BY <1>1, <1>2, <1>7, <2>1, <2>2, ReplyFacts DEF ReplyTypeOK
<1>11. Sending'
  BY <1>1, <1>3, <1>5, <1>7, <1>9 DEF Sending
<1> QED BY <1>2, <1>3, <1>9, <1>10, <1>11, Running DEF RInv

LEMMA SendMsgStep ==
  ASSUME RInv, NEW n \in Nat, SendMsg(n)
  PROVE  RInv'
<1>1. /\ MaySend /\ rep.output = "plain" /\ phase = "handler"
      /\ vars' = vars /\ rep' = rep /\ encoding' = encoding /\ header' = header
      /\ raw' = raw /\ rawBody' = rawBody /\ herr' = herr
  BY DEF SendMsg, MaySend, InHandler
<1>2. ~raw.writer
  BY <1>1, ReplyFacts DEF Sending
<1>3. \/ /\ serr' = 13 /\ phase' = phase /\ sentHeader' = sentHeader /\ sendCount' = sendCount
         /\ wHeader' = wHeader /\ wire' = Flushed(wire, wHeader)
      \/ /\ phase' = "panic" /\ sentHeader' = sentHeader /\ sendCount' = sendCount
         /\ wHeader' = wHeader /\ serr' = serr
         /\ wire' = WriterClosed(Flushed(wire, wHeader), wHeader)
      \/ writeMsg(codecs[accept], accept, n) /\ phase' = phase
  BY DEF SendMsg
<1>4. CASE writeMsg(codecs[accept], accept, n) /\ phase' = phase
  BY <1>1, <1>2, <1>4, WriteMsgStep
<1>6. /\ IsWire(Flushed(wire, wHeader)) /\ Flushed(wire, wHeader).body = wire.body
      /\ wire.status # 0 => Flushed(wire, wHeader) = wire
  BY FlushedFacts, ReplyFacts
<1>5. CASE /\ phase' \in {"handler", "panic"} /\ sentHeader' = sentHeader
           /\ sendCount' = sendCount /\ wHeader' = wHeader
           /\ \/ serr' = 13 /\ wire' = Flushed(wire, wHeader)
              \/ /\ serr' = serr /\ phase' = "panic"
                 /\ wire' = WriterClosed(Flushed(wire, wHeader), wHeader)
  <2>1. SInv' /\ RawReader' /\ Ended' /\ TypeOK' /\ req' = req
    BY <1>1, StreamSame
  <2>3. IsWire(wire')
    BY <1>5, <1>6, WriterClosedFacts
  <2>2. ReplyTypeOK'
    <3>1. sendCount' \in 0 .. rep'.sends
      BY <1>1, <1>5 DEF RInv, ReplyTypeOK
    <3>2. wire'.status \in Nat
      BY <2>3 DEF IsWire
    <3> QED BY <1>1, <1>5, <2>1, <3>1, <3>2, ReplyFacts DEF ReplyTypeOK
  <2>4. Sending'
    <3>1. CASE phase' = "panic"
      BY <3>1 DEF Sending
    <3>2. CASE phase' = "handler" /\ serr' = 13 /\ wire' = Flushed(wire, wHeader)
      <4>1. Sending
        BY ReplyFacts
      <4>2. wire'.status = 0 => wire'.body = <<>>
        BY <1>1, <1>6, <3>2, <4>1 DEF Sending
      <4> QED BY <1>1, <1>5, <3>2, <4>1, <4>2 DEF Sending
    <3> QED BY <1>5, <3>1, <3>2
  <2> QED BY <1>5, <2>1, <2>2, <2>3, <2>4, Running DEF RInv
<1> QED BY <1>1, <1>3, <1>4, <1>5

LEMMA SendHttpBodyStep ==
  ASSUME RInv, NEW type, NEW n \in Nat, SendHttpBody(type, n)
  PROVE  RInv'
<1>1. /\ MaySend /\ ~raw.writer /\ writeMsg("body", type, n) /\ phase' = phase
      /\ vars' = vars /\ rep' = rep /\ encoding' = encoding /\ header' = header
      /\ raw' = raw /\ rawBody' = rawBody /\ herr' = herr
  BY DEF SendHttpBody
<1> QED BY <1>1, WriteMsgStep

LEMMA AsHTTPBodyWriterStep ==
  ASSUME RInv, NEW type, AsHTTPBodyWriter(type)
  PROVE  RInv'
<1>1. /\ phase = "handler" /\ phase' = phase /\ rep.sends > 0
      /\ rep.output = "HttpBody" /\ sendCount = 0
      /\ wHeader' = FirstHeader(type) /\ sentHeader' = TRUE /\ sendCount' = 1
      /\ raw' = [raw EXCEPT !.writer = TRUE]
      /\ vars' = vars /\ rep' = rep /\ encoding' = encoding /\ header' = header
      /\ rawBody' = rawBody /\ wire' = wire /\ serr' = serr /\ herr' = herr
  BY DEF AsHTTPBodyWriter, InHandler
<1>2. /\ raw' \in [reader : BOOLEAN, writer : BOOLEAN]
      /\ raw'.reader = raw.reader /\ raw'.writer = TRUE
  BY <1>1, ReplyFacts
<1>3. SInv' /\ RawReader' /\ Ended' /\ TypeOK' /\ req' = req
  BY <1>1, <1>2, StreamSame
<1>4. /\ IsWire(wire) /\ wire.status \in Nat
      /\ wire.status = 0 => wire.body = <<>>
      /\ serr = 0 => wire.status = 0
      /\ wire.status # 0 /\ serr # 13 => HasMD(wire.header, header)
      /\ sentHeader => HasMD(wHeader, header)
  BY <1>1, ReplyFacts DEF Sending, IsWire
<1>5. TypeSet(wHeader') /\ HasMD(wHeader', header')
  BY <1>1, <1>4, FirstHeaderFacts DEF TypeSet
<1>6. ReplyTypeOK'
  <2>1. sendCount' \in 0 .. rep'.sends /\ wire'.status \in Nat
    BY <1>1, <1>4, ReplyFacts
  <2> QED BY <1>1, <1>2, <1>3, <2>1, ReplyFacts DEF ReplyTypeOK
<1>7. Sending'
  BY <1>1, <1>2, <1>4, <1>5 DEF Sending
<1>8. IsWire(wire')
  BY <1>1, <1>4
<1> QED BY <1>1, <1>3, <1>6, <1>7, <1>8, Running DEF RInv

LEMMA WriteRawStep == RInv /\ WriteRaw => RInv'
<1> SUFFICES ASSUME RInv, WriteRaw PROVE RInv'
  OBVIOUS
<1> DEFINE t == wHeader[ContentType][1].data
           p == Part("raw", t, encoding)
<1>1. /\ phase = "handler" /\ phase' = phase /\ raw.writer
      /\ wire' = Written(wire, wHeader, p)
      /\ vars' = vars /\ rep' = rep /\ encoding' = encoding /\ header' = header
      /\ sentHeader' = sentHeader /\ sendCount' = sendCount /\ raw' = raw
      /\ rawBody' = rawBody /\ wHeader' = wHeader /\ serr' = serr /\ herr' = herr
  BY DEF WriteRaw, InHandler
<1>2. SInv' /\ RawReader' /\ Ended' /\ TypeOK' /\ req' = req
  BY <1>1, StreamSame
<1>3. /\ IsWire(wire) /\ sendCount # 0 /\ sentHeader /\ TypeSet(wHeader)
      /\ HasMD(wHeader, header) /\ rep.output = "HttpBody"
      /\ wire.status = 0 => wire.body = <<>>
      /\ wire.status # 0 /\ serr # 13 => HasMD(wire.header, header)
      /\ wire.status # 0 /\ serr = 0 =>
           Answered(wire) /\ wire.header[ContentType] = <<Plain(Head(wire.body).type)>>
  BY <1>1, ReplyFacts DEF Sending
<1>4. wHeader[ContentType] = <<Plain(t)>>
  <2>1. PICK u : wHeader[ContentType] = <<Plain(u)>>
    BY <1>3 DEF TypeSet
  <2>2. t = u
    BY <2>1 DEF Plain
  <2> QED BY <2>1, <2>2
<1>5. p.kind = "raw" /\ p.type = t
  BY DEF Part
<1> HIDE DEF t, p
<1>6. /\ IsWire(wire')
      /\ wire'.status = IF wire.status # 0 THEN wire.status ELSE 200
      /\ wire'.header = IF wire.status # 0 THEN wire.header ELSE wHeader
      /\ wire'.body # <<>>
      /\ Head(wire'.body) = IF wire.body = <<>> THEN p ELSE Head(wire.body)
      /\ Answered(wire) \/ p.kind \in {"message", "raw"} => Answered(wire')
  BY <1>1, <1>3, WrittenFacts
<1>7. /\ wire'.status # 0 /\ Answered(wire')
      /\ serr # 13 => HasMD(wire'.header, header')
      /\ serr = 0 => wire'.header[ContentType] = <<Plain(Head(wire'.body).type)>>
  <2>1. CASE wire.status = 0
    BY <1>1, <1>3, <1>4, <1>5, <1>6, <2>1
  <2>2. CASE wire.status # 0
    <3>1. serr = 0 => wire.body # <<>>
      BY <1>3, <2>2 DEF Answered
    <3> QED BY <1>1, <1>3, <1>5, <1>6, <2>2, <3>1
  <2> QED BY <2>1, <2>2
<1>8. ReplyTypeOK'
  <2>1. sendCount' \in 0 .. rep'.sends
    BY <1>1 DEF RInv, ReplyTypeOK
  <2>2. wire'.status \in Nat
    BY <1>6 DEF IsWire
  <2> QED BY <1>1, <1>2, <2>1, <2>2, ReplyFacts DEF ReplyTypeOK
<1>9. Sending'
  BY <1>1, <1>3, <1>7 DEF Sending
<1> QED BY <1>1, <1>2, <1>6, <1>8, <1>9, Running DEF RInv

LEMMA HandlerReturnsStep ==
  ASSUME RInv, NEW c \in Codes \cup {0, 2, 13}, HandlerReturns(c)
  PROVE  RInv'
<1>1. /\ phase = "handler" /\ herr' = c
      /\ vars' = vars /\ rep' = rep /\ encoding' = encoding /\ header' = header
      /\ sentHeader' = sentHeader /\ sendCount' = sendCount /\ raw' = raw
      /\ rawBody' = rawBody /\ serr' = serr
  BY DEF HandlerReturns, InHandler
<1>2. SInv' /\ RawReader' /\ Ended' /\ TypeOK' /\ req' = req
  BY <1>1, StreamSame
<1>3. /\ IsWire(wire) /\ (sentHeader => HasMD(wHeader, header))
      /\ wire.status = 0 => wire.body = <<>>
      /\ wire.status # 0 /\ serr # 13 => HasMD(wire.header, header)
      /\ wire.status # 0 /\ serr = 0 =>
           Answered(wire) /\ wire.header[ContentType] = <<Plain(Head(wire.body).type)>>
  BY <1>1, ReplyFacts DEF Sending
<1>4. /\ IsWire(wire')
      /\ phase' \in {"done", "panic"}
      /\ phase' = "done" =>
           /\ herr' # 0 => wire'.status >= 400 \/ Answered(wire') \/ serr # 0
           /\ wire'.body # <<>> /\ Head(wire'.body).kind # "footer" /\ serr = 0 =>
                wire'.header[ContentType] = <<Plain(Head(wire'.body).type)>>
           /\ sentHeader /\ serr # 13 => HasMD(wire'.header, header)
  <2>1. CASE c = 0
    <3>1. phase' = "done" /\ wire' = Closed(wire, wHeader)
      BY <2>1 DEF HandlerReturns
    <3>2. /\ IsWire(wire')
          /\ wire'.header = IF wire.status # 0 THEN wire.header ELSE wHeader
          /\ wire.body # <<>> => Head(wire'.body) = Head(wire.body)
          /\ wire.body = <<>> /\ wire'.body # <<>> => Head(wire'.body).kind = "footer"
      BY <1>3, <3>1, ClosedFacts
    <3>3. CASE wire.status = 0
      BY <1>1, <1>3, <2>1, <3>1, <3>2, <3>3
    <3>4. CASE wire.status # 0
      <4>1. serr = 0 => wire.body # <<>>
        BY <1>3, <3>4 DEF Answered
      <4> QED BY <1>1, <1>3, <2>1, <3>1, <3>2, <3>4, <4>1
    <3> QED BY <3>3, <3>4
  <2>2. CASE c # 0
    <3> DEFINE h == IF sentHeader THEN wHeader ELSE Set(wHeader, ContentEncoding, "identity")
    <3>1. encError(c, h)
      BY <2>2 DEF HandlerReturns
    <3>2. c \in Nat \ {0}
      BY <2>2, ReplyTypes
    <3>3. sentHeader => HasMD(h, header)
      BY <1>3
    <3> HIDE DEF h
    <3>4. /\ IsWire(wire')
          /\ \/ phase' = "panic"
             \/ /\ phase' = "done"
                /\ wire'.status >= 400 \/ Answered(wire') \/ serr # 0
                /\ serr = 0 => wire'.header[ContentType] = <<Plain(Head(wire'.body).type)>>
                /\ sentHeader /\ serr # 13 => HasMD(wire'.header, header)
      BY <1>3, <3>1, <3>2, <3>3, EncErrorFacts
    <3> QED BY <3>4
  <2> QED BY <2>1, <2>2
<1>5. ReplyTypeOK'
  <2>1. sendCount' \in 0 .. rep'.sends
    BY <1>1 DEF RInv, ReplyTypeOK
  <2>2. wire'.status \in Nat /\ phase' \in {"start", "handler", "done", "panic"}
    BY <1>4 DEF IsWire
  <2>3. herr' \in Codes \cup RefuseCodes \cup {0, 2, 13}
    BY <1>1
  <2> QED BY <1>1, <1>2, <2>1, <2>2, <2>3, ReplyFacts DEF ReplyTypeOK
<1>6. Sending'
  BY <1>4 DEF Sending
<1>7. ErrorSeenUnlessBegun'
  BY <1>1, <1>4 DEF ErrorSeenUnlessBegun, Answered, SendFailed
<1>8. ContentTypeIsTrue'
  BY <1>1, <1>4 DEF ContentTypeIsTrue, SendFailed
<1>9. MetadataSent'
  BY <1>1, <1>4 DEF MetadataSent, HasMD
<1> QED BY <1>2, <1>4, <1>5, <1>6, <1>7, <1>8, <1>9 DEF RInv

-----------------------------------------------------------------------------
(* Steps of the stream. *)

LEMMA NextKeeps == Next => req' = req /\ eofEarly' = eofEarly
BY DEF Next, RecvMsg, JSONFound, JSONTooLarge, ProtoMessage, Read, JSONRead, ProtoSizeRead,
       BodyRead, ReadAll, ReadNextReturns

LEMMA EndedStep == SInv /\ Ended /\ Next => Ended'
<1> SUFFICES ASSUME SInv, Ended, Next, Stream', last' = "eof" PROVE rEOF'
  BY DEF Ended
<1>1. Stream
  BY NextKeeps DEF Stream
<1>2. ASSUME NEW m, Decode(m) PROVE FALSE
  BY <1>2 DEF Decode, ReturnError, ReturnMessage
<1>3. ASSUME NEW b, NEW n, NEW e, ReadNextReturns(b, n, e) PROVE FALSE
  BY <1>2, <1>3 DEF ReadNextReturns, ReturnError
<1>4. CASE RecvMsg
  BY <1>1, <1>4 DEF RecvMsg, Ended, Stream, ReturnError
<1>5. CASE JSONFound \/ JSONTooLarge \/ ProtoMessage
  BY <1>3, <1>5 DEF JSONFound, JSONTooLarge, ProtoMessage
<1>6. CASE Read
  <2>1. PICK k \in 0 .. Len(rest), eof \in BOOLEAN :
          JSONRead(k, eof) \/ ProtoSizeRead(k, eof) \/ BodyRead(k, eof) \/ ReadAll(k, eof)
    BY <1>6 DEF Read
  <2>2. CASE JSONRead(k, eof) \/ ProtoSizeRead(k, eof)
    BY <1>1, <1>3, <2>2 DEF JSONRead, ProtoSizeRead, Ended
  <2>3. CASE BodyRead(k, eof)
    BY <1>1, <2>3 DEF BodyRead, Stream
  <2>4. CASE ReadAll(k, eof)
    <3>1. pc = "all"
      BY <2>4 DEF ReadAll
    <3> QED BY <1>1, <3>1 DEF SInv, Calls, Stream
  <2> QED BY <2>1, <2>2, <2>3, <2>4
<1> QED BY <1>4, <1>5, <1>6 DEF Next

(* What the stream does not say stays as it is. *)
LEMMA ReplySame ==
  ASSUME RInv, TypeOK', req' = req,
         rep' = rep, phase' = phase, encoding' = encoding, header' = header,
         sentHeader' = sentHeader, sendCount' = sendCount, wHeader' = wHeader, wire' = wire,
         serr' = serr, herr' = herr,
         raw' \in [reader : BOOLEAN, writer : BOOLEAN], raw'.writer = raw.writer,
         rawBody' \in Seq(Unit)
  PROVE  /\ ReplyTypeOK' /\ IsWire(wire') /\ Sending'
         /\ ErrorSeenUnlessBegun' /\ ContentTypeIsTrue' /\ MetadataSent'
<1>1. ReplyTypeOK'
  BY DEF RInv, ReplyTypeOK
<1>2. IsWire(wire')
  BY DEF RInv
<1>3. Sending'
  BY DEF RInv, Sending
<1>4. ErrorSeenUnlessBegun'
  BY DEF RInv, ErrorSeenUnlessBegun, SendFailed
<1>5. ContentTypeIsTrue'
  BY DEF RInv, ContentTypeIsTrue, SendFailed
<1>6. MetadataSent'
  BY DEF RInv, MetadataSent
<1> QED BY <1>1, <1>2, <1>3, <1>4, <1>5, <1>6

LEMMA ReceiveStep == RInv /\ Receive => RInv'
<1> SUFFICES ASSUME RInv, Receive PROVE RInv'
  OBVIOUS
<1>1. ~raw.reader /\ Next /\ UNCHANGED replyVars
  BY DEF Receive
<1>2. SInv' /\ Ended' /\ req' = req
  BY <1>1, StreamStep, EndedStep, NextKeeps DEF RInv
<1>3. RawReader'
  BY <1>1 DEF RawReader, replyVars
<1>4. /\ ReplyTypeOK' /\ IsWire(wire') /\ Sending'
      /\ ErrorSeenUnlessBegun' /\ ContentTypeIsTrue' /\ MetadataSent'
  <2>1. TypeOK'
    BY <1>2 DEF SInv
  <2> QED BY <1>1, <1>2, <2>1, ReplySame, ReplyFacts DEF replyVars
<1> QED BY <1>2, <1>3, <1>4 DEF RInv

(* The parameters cannot be set on the first message, which has the reader. *)
LEMMA ParamsRefusedStep ==
  ASSUME RInv, AsHTTPBodyReader, ~req.paramsOK
  PROVE  RInv'
<1>1. /\ pc = "idle" /\ req.streaming /\ req.codec = "body" /\ recvCount = 0 /\ ~raw.reader
      /\ last' = "error"
      /\ UNCHANGED <<req, eofEarly, rest, pc, buf, total, rbuf, rEOF, recvCount, received, params>>
      /\ UNCHANGED replyVars
  BY DEF AsHTTPBodyReader, MayTakeReader, ParamsRefused, ReturnError, InHandler
<1>2. TypeOK /\ Calls
  BY DEF RInv, SInv
<1>3. ~rEOF /\ received = <<>>
  BY <1>1, <1>2 DEF Calls
<1>4. TypeOK'
  BY <1>1, <1>2 DEF TypeOK
<1>5. Calls'
  BY <1>1, <1>2 DEF Calls
<1>6. ~Stream' /\ req'.streaming
  BY <1>1 DEF Stream
<1>7. RefusedForAReason'
  <2>1. received' = <<>> /\ ~req'.paramsOK
    BY <1>1, <1>3
  <2> QED BY <2>1 DEF RefusedForAReason
<1>8. SInv'
  BY <1>4, <1>5, <1>6, <1>7 DEF SInv, Framing, Complete, Unary, FramesInOrder
<1>9. RawReader' /\ Ended'
  BY <1>1, <1>6 DEF RawReader, Ended, replyVars
<1>10. /\ ReplyTypeOK' /\ IsWire(wire') /\ Sending'
       /\ ErrorSeenUnlessBegun' /\ ContentTypeIsTrue' /\ MetadataSent'
  BY <1>1, <1>4, ReplySame, ReplyFacts DEF replyVars
<1> QED BY <1>8, <1>9, <1>10 DEF RInv

(* The handler takes the reader of the body. *)
LEMMA AsHTTPBodyReaderStep == RInv /\ AsHTTPBodyReader => RInv'
<1> SUFFICES ASSUME RInv, AsHTTPBodyReader PROVE RInv'
  OBVIOUS
<1>0. CASE ~req.paramsOK
  BY <1>0, ParamsRefusedStep
<1> SUFFICES ASSUME req.paramsOK PROVE RInv'
  BY <1>0
<1>1. /\ pc = "idle" /\ req.streaming /\ req.codec = "body" /\ recvCount = 0
      /\ raw' = [raw EXCEPT !.reader = TRUE]
      /\ received' = Append(received, <<>>) /\ params' = params \cup {Len(received) + 1}
      /\ recvCount' = recvCount + 1
      /\ UNCHANGED <<req, eofEarly, rest, pc, buf, total, rbuf, rEOF, last, rep, phase, accept,
                     encoding, header, sentHeader, sendCount, rawBody, wHeader, wire, serr, herr>>
  BY DEF AsHTTPBodyReader, MayTakeReader, TakesReader, InHandler
<1>2. TypeOK /\ Calls
  BY DEF RInv, SInv
<1>3. last = "none" /\ ~rEOF /\ Len(received) = 0 /\ received \in Seq(Seq(Unit))
  <2>1. last = "none" /\ ~rEOF
    BY <1>1, <1>2 DEF Calls
  <2>2. recvCount = Len(received) + 0 /\ received \in Seq(Seq(Unit))
    BY <1>1, <1>2, <2>1 DEF Calls, TypeOK
  <2>3. Len(received) \in Nat
    BY <2>2
  <2> QED BY <1>1, <2>1, <2>2, <2>3
<1>4. received = <<>> /\ params = {}
  BY <1>2, <1>3 DEF Calls
<1>5. /\ received' \in Seq(Seq(Unit)) /\ received' # <<>> /\ Len(received') = 1
      /\ params' = {1} /\ recvCount' = 1
  <2>1. <<>> \in Seq(Unit)
    OBVIOUS
  <2>2. /\ received' \in Seq(Seq(Unit)) /\ received' # <<>>
        /\ Len(received') = Len(received) + 1
    BY <1>1, <1>3, <2>1, AppendFacts
  <2> QED BY <1>1, <1>3, <1>4, <2>2
<1>6. TypeOK'
  BY <1>1, <1>2, <1>5 DEF TypeOK
<1>7. Calls'
  BY <1>1, <1>2, <1>3, <1>5 DEF Calls
<1>8. ~Stream' /\ req'.streaming /\ last' # "error"
  BY <1>1, <1>3 DEF Stream
<1>9. SInv'
  BY <1>6, <1>7, <1>8 DEF SInv, Framing, Complete, Unary, FramesInOrder, RefusedForAReason
<1>10. RawReader' /\ Ended'
  BY <1>1, <1>5, <1>8 DEF RawReader, Ended
<1>11. raw' \in [reader : BOOLEAN, writer : BOOLEAN] /\ raw'.writer = raw.writer
  BY <1>1, ReplyFacts
<1>12. /\ ReplyTypeOK' /\ IsWire(wire') /\ Sending'
       /\ ErrorSeenUnlessBegun' /\ ContentTypeIsTrue' /\ MetadataSent'
  BY <1>1, <1>6, <1>11, ReplySame, ReplyFacts
<1> QED BY <1>9, <1>10, <1>12 DEF RInv

LEMMA ReadRawStep ==
  ASSUME RInv, NEW k \in 0 .. Len(rest), NEW eof \in BOOLEAN, ReadRaw(k, eof)
  PROVE  RInv'
<1>1. /\ pc = "idle" /\ raw.reader /\ last # "eof" /\ Reads(k, eof)
      /\ rawBody' = rawBody \o SubSeq(rest, 1, k)
      /\ last' = IF eof THEN "eof" ELSE last
      /\ UNCHANGED <<req, eofEarly, pc, buf, total, rbuf, rEOF, recvCount, received, params, rep,
                     phase, accept, encoding, header, sentHeader, sendCount, raw, wHeader, wire,
                     serr, herr>>
  BY DEF ReadRaw, InHandler
<1>2. TypeOK /\ Calls /\ RefusedForAReason
  BY DEF RInv, SInv
<1>3. req.streaming /\ req.codec = "body" /\ recvCount # 0 /\ last # "error"
  BY <1>1 DEF RInv, RawReader
<1>4. /\ rest' \in Seq(Unit) /\ SubSeq(rest, 1, k) \in Seq(Unit)
  <2>1. rest \in Seq(Unit) /\ Len(rest) \in Nat
    BY <1>2 DEF TypeOK
  <2>2. k + 1 \in 1 .. Len(rest) + 1 /\ Len(rest) \in (k + 1) - 1 .. Len(rest)
    BY <2>1
  <2>3. 1 \in 1 .. Len(rest) + 1 /\ k \in 1 - 1 .. Len(rest)
    BY <2>1
  <2>4. rest' = SubSeq(rest, k + 1, Len(rest))
    BY <1>1 DEF Reads
  <2> QED BY <2>1, <2>2, <2>3, <2>4, SubSeqFacts
<1>5. rawBody' \in Seq(Unit)
  <2>1. rawBody \in Seq(Unit)
    BY ReplyFacts
  <2> QED BY <1>1, <1>4, <2>1, ConcatProperties
<1>6. TypeOK'
  BY <1>1, <1>2, <1>4 DEF TypeOK
<1>7. Calls'
  BY <1>1, <1>2, <1>3 DEF Calls
<1>8. ~Stream' /\ req'.streaming
  BY <1>1, <1>3 DEF Stream
<1>9. RefusedForAReason'
  BY <1>1, <1>3 DEF RefusedForAReason
<1>10. SInv'
  BY <1>6, <1>7, <1>8, <1>9 DEF SInv, Framing, Complete, Unary, FramesInOrder
<1>11. RawReader' /\ Ended'
  BY <1>1, <1>3, <1>8 DEF RawReader, Ended
<1>12. /\ ReplyTypeOK' /\ IsWire(wire') /\ Sending'
       /\ ErrorSeenUnlessBegun' /\ ContentTypeIsTrue' /\ MetadataSent'
  BY <1>1, <1>5, <1>6, ReplySame, ReplyFacts
<1> QED BY <1>10, <1>11, <1>12 DEF RInv

-----------------------------------------------------------------------------
LEMMA ReplyInitRInv == ReplyInit => RInv
<1> SUFFICES ASSUME ReplyInit PROVE RInv
  OBVIOUS
<1>1. /\ Init /\ rep \in RepliesFor(req) /\ phase = "start" /\ encoding = "none"
      /\ sentHeader = FALSE /\ sendCount = 0
      /\ raw = [reader |-> FALSE, writer |-> FALSE] /\ rawBody = <<>>
      /\ wire = [status |-> 0, header |-> NoMD, body |-> <<>>]
      /\ serr = 0 /\ herr = 0
  BY DEF ReplyInit
<1>2. SInv
  BY <1>1, InitSInv
<1>3. TypeOK /\ req \in Requests
  BY <1>2 DEF SInv, TypeOK
<1>4. RawReader /\ Ended
  BY <1>1 DEF RawReader, Ended, Init
<1>5. wire.status = 0 /\ wire.body = <<>> /\ <<>> \in Seq({})
  BY <1>1
<1>6. IsWire(wire)
  BY <1>1, <1>5 DEF IsWire
<1>7. rep.sends \in Nat
  BY <1>1, <1>3, ReplyTypes
<1>8. ReplyTypeOK
  <2>1. <<>> \in Seq(Unit) /\ sendCount \in 0 .. rep.sends
    BY <1>1, <1>7
  <2> QED BY <1>1, <1>3, <1>5, <2>1 DEF ReplyTypeOK
<1>9. Sending
  BY <1>1, <1>5 DEF Sending
<1>10. ErrorSeenUnlessBegun /\ ContentTypeIsTrue /\ MetadataSent
  BY <1>1 DEF ErrorSeenUnlessBegun, ContentTypeIsTrue, MetadataSent
<1> QED BY <1>2, <1>4, <1>6, <1>8, <1>9, <1>10 DEF RInv

LEMMA ReplyStep == RInv /\ [ReplyNext]_allVars => RInv'
<1> SUFFICES ASSUME RInv, [ReplyNext]_allVars PROVE RInv'
  OBVIOUS
<1>1. ASSUME NEW c \in RefuseCodes, Refuse(c) PROVE RInv'
  BY <1>1, RefuseStep
<1>2. CASE CallHandler
  BY <1>2, CallHandlerStep
<1>3. CASE Receive
  BY <1>3, ReceiveStep
<1>4. ASSUME NEW md \in MDs, SetHeader(md) \/ SendHeader(md) PROVE RInv'
  BY <1>4, SetHeaderStep, SendHeaderStep
<1>5. ASSUME NEW n \in {SendLimit, SendLimit + 1},
             SendMsg(n) \/ \E t \in BodyTypes : SendHttpBody(t, n)
      PROVE  RInv'
  <2>1. n \in Nat
    BY ReplyTypes
  <2> QED BY <1>5, <2>1, SendMsgStep, SendHttpBodyStep
<1>6. CASE AsHTTPBodyReader
  BY <1>6, AsHTTPBodyReaderStep
<1>7. ASSUME NEW k \in 0 .. Len(rest), NEW eof \in BOOLEAN, ReadRaw(k, eof) PROVE RInv'
  BY <1>7, ReadRawStep
<1>8. ASSUME NEW t \in BodyTypes, AsHTTPBodyWriter(t) PROVE RInv'
  BY <1>8, AsHTTPBodyWriterStep
<1>9. CASE WriteRaw
  BY <1>9, WriteRawStep
<1>10. ASSUME NEW c \in Codes \cup {0, 2, 13}, HandlerReturns(c) PROVE RInv'
  BY <1>10, HandlerReturnsStep
<1>11. CASE UNCHANGED allVars
  <2>1. UNCHANGED vars /\ UNCHANGED replyVars
    BY <1>11 DEF allVars
  <2>2. SInv' /\ RawReader' /\ Ended' /\ TypeOK' /\ req' = req
    BY <2>1, StreamSame DEF replyVars
  <2>3. /\ ReplyTypeOK' /\ IsWire(wire') /\ Sending'
        /\ ErrorSeenUnlessBegun' /\ ContentTypeIsTrue' /\ MetadataSent'
    BY <2>1, <2>2, ReplySame, ReplyFacts DEF replyVars
  <2> QED BY <2>2, <2>3 DEF RInv
<1> QED BY <1>1, <1>2, <1>3, <1>4, <1>5, <1>6, <1>7, <1>8, <1>9, <1>10, <1>11
        DEF ReplyNext, Handler

LEMMA ReplyInvariant == ReplySpec => []RInv
<1>1. ReplyInit => RInv
  BY ReplyInitRInv
<1>2. RInv /\ [ReplyNext]_allVars => RInv'
  BY ReplyStep
<1> QED BY <1>1, <1>2, PTL DEF ReplySpec

(* Every variable of the request and of its answer has its type, whatever    *)
(* the requests, the limits, the codes and the metadata; no handler gets     *)
(* more messages out than it may send.                                       *)
THEOREM ReplyTyped == ReplySpec => []ReplyTypeOK
<1>1. RInv => ReplyTypeOK
  BY DEF RInv
<1> QED BY <1>1, ReplyInvariant, PTL

(* RecvMsg of an HTTP stream returns the messages of the body, each whole,   *)
(* in order, none missing at io.EOF, the parameters on the first one only,   *)
(* for any framed body, any limit and any pieces the reader hands out.       *)
THEOREM HTTPMessagesInOrder == ReplySpec => []MessagesInOrder
<1>1. RInv => MessagesInOrder
  <2> SUFFICES ASSUME RInv PROVE MessagesInOrder
    OBVIOUS
  <2>1. FramesInOrder /\ Complete /\ Calls /\ Ended
    BY DEF RInv, SInv
  <2>2. NothingLost
    <3> SUFFICES ASSUME last = "eof", ~eofEarly, Stream, NEW p \in 1 .. Len(req.body)
                 PROVE  /\ req.body[p].msg \in 1 .. Len(received)
                        /\ Whole(req, received[req.body[p].msg], req.body[p].msg)
      BY DEF NothingLost
    <3> QED BY <2>1 DEF Complete, Ended
  <2>3. ParamsOnFirst
    BY <2>1 DEF Calls, ParamsOnFirst
  <2> QED BY <2>1, <2>2, <2>3 DEF MessagesInOrder
<1> QED BY <1>1, ReplyInvariant, PTL

(* RecvMsg fails only where no codec is registered, where parameters of the  *)
(* URL or the bytes of the message are no good, for a message over the limit *)
(* and for a body that ends inside the message; and at the end of a body of  *)
(* JSON, which has no empty message for readMsg's io.EOF.                    *)
THEOREM HTTPRefusals == ReplySpec => []RefusedForAReason
<1>1. RInv => RefusedForAReason
  BY DEF RInv, SInv
<1> QED BY <1>1, ReplyInvariant, PTL

(* The error of a handler, or of serveHTTP, is on the wire with a status of  *)
(* 400 or more, unless a message or raw bytes were sent before it or a       *)
(* SendMsg had failed, whose deferred Flush sends 200.                       *)
THEOREM ErrorsAreSeen == ReplySpec => []ErrorSeenUnlessBegun
<1>1. RInv => ErrorSeenUnlessBegun
  BY DEF RInv
<1> QED BY <1>1, ReplyInvariant, PTL

(* The Content-Type of an answer is that of its first part, and the metadata *)
(* that the handler set are in its header, for any metadata and any order of *)
(* the calls, unless a SendMsg failed and flushed the header too early.      *)
THEOREM AnswersAreAsSaid == ReplySpec => []AnswerIsAsSaid
<1>1. RInv => AnswerIsAsSaid
  BY DEF RInv, AnswerIsAsSaid
<1> QED BY <1>1, ReplyInvariant, PTL

-----------------------------------------------------------------------------
(* The chunks of an HttpBody. *)

(* The units that are read and not yet returned. *)
InHand == IF pc = "idle" THEN rbuf ELSE buf

(* The units a, then d, then r are the body. *)
MakesUp(a, d, r, body) == a \o d \o r = body

(* What was received, what is in hand and what the reader has left make up   *)
(* the body; if the handler took the reader, what it read and what is left.  *)
(* rbuf is used only for a body that is longer than a chunk may be.          *)
OneChunk == Len(req.body) <= Limit => rbuf = <<>> /\ (pc = "scan" => total = Len(buf))

Chunks ==
  req.codec = "body" =>
    /\ \A i \in 1 .. Len(received) : Len(received[i]) <= Limit
    /\ req.hasBody /\ ~raw.reader /\ last # "error" =>
         MakesUp(FlattenSeq(received), InHand, rest, req.body) /\ OneChunk
    /\ raw.reader => rawBody \o rest = req.body
    /\ ~raw.reader => rawBody = <<>>
    /\ raw.reader \/ ~req.hasBody \/ last = "error" => FlattenSeq(received) = <<>>
    /\ last = "eof" => IF raw.reader THEN rest = <<>> ELSE rEOF
    /\ req.hasBody /\ rEOF => rest = <<>>
    /\ recvCount = 0 => rest = req.body
    /\ ~req.streaming => rbuf = <<>>
    /\ ~req.streaming /\ req.hasBody /\ ~rEOF => received = <<>>

LEMMA Split ==
  ASSUME NEW S, NEW s \in Seq(S), NEW n \in 0 .. Len(s)
  PROVE  /\ SubSeq(s, 1, n) \in Seq(S) /\ SubSeq(s, n + 1, Len(s)) \in Seq(S)
         /\ SubSeq(s, 1, n) \o SubSeq(s, n + 1, Len(s)) = s
<1>1. Len(s) \in Nat /\ n \in Nat /\ n <= Len(s)
  OBVIOUS
<1>2. 1 \in 1 .. Len(s) + 1 /\ n \in 1 - 1 .. Len(s) /\ Len(s) \in n .. Len(s)
  BY <1>1
<1>3. n + 1 \in 1 .. Len(s) + 1 /\ Len(s) \in (n + 1) - 1 .. Len(s)
  BY <1>1
<1>4. SubSeq(s, 1, n) \in Seq(S)
  BY <1>2, SubSeqFacts
<1>5. SubSeq(s, n + 1, Len(s)) \in Seq(S)
  BY <1>3, SubSeqFacts
<1>6. SubSeq(s, 1, n) \o SubSeq(s, n + 1, Len(s)) = SubSeq(s, 1, Len(s))
  BY <1>2, ConcatAdjacentSubSeq
<1> QED BY <1>4, <1>5, <1>6, SubSeqFull

(* The reader hands out k more of the units r. *)
LEMMA JoinRead ==
  ASSUME NEW S, NEW a \in Seq(S), NEW d \in Seq(S), NEW r \in Seq(S), NEW k \in 0 .. Len(r),
         NEW body, MakesUp(a, d, r, body)
  PROVE  MakesUp(a, d \o SubSeq(r, 1, k), SubSeq(r, k + 1, Len(r)), body)
<1> DEFINE x == SubSeq(r, 1, k)
           y == SubSeq(r, k + 1, Len(r))
<1>1. x \in Seq(S) /\ y \in Seq(S)
  BY Split
<1>2. x \o y = r
  BY Split
<1> HIDE DEF x, y
<1>3. (a \o d) \o x = a \o (d \o x)
  BY <1>1, ConcatAssociative
<1>4. a \o d \in Seq(S)
  BY ConcatProperties
<1>5. ((a \o d) \o x) \o y = (a \o d) \o (x \o y)
  <2> DEFINE e == a \o d
  <2>1. e \in Seq(S)
    BY <1>4
  <2> HIDE DEF e
  <2>2. (e \o x) \o y = e \o (x \o y)
    BY <1>1, <2>1, ConcatAssociative
  <2> QED BY <2>2 DEF e
<1>6. a \o (d \o x) \o y = a \o d \o r
  BY <1>2, <1>3, <1>5
<1> QED BY <1>6 DEF x, y, MakesUp

(* The first n units in hand are returned. *)
LEMMA JoinCut ==
  ASSUME NEW S, NEW a \in Seq(S), NEW d \in Seq(S), NEW r \in Seq(S), NEW n \in 0 .. Len(d),
         NEW body, MakesUp(a, d, r, body)
  PROVE  MakesUp(a \o SubSeq(d, 1, n), SubSeq(d, n + 1, Len(d)), r, body)
<1> DEFINE x == SubSeq(d, 1, n)
           y == SubSeq(d, n + 1, Len(d))
<1>1. x \in Seq(S) /\ y \in Seq(S)
  BY Split
<1>2. x \o y = d
  BY Split
<1> HIDE DEF x, y
<1>3. (a \o x) \o y = a \o (x \o y)
  BY <1>1, ConcatAssociative
<1>4. (a \o x) \o y \o r = a \o d \o r
  BY <1>2, <1>3
<1> QED BY <1>4 DEF x, y, MakesUp

LEMMA JoinPrefix ==
  ASSUME NEW S, NEW a \in Seq(S), NEW d \in Seq(S)
  PROVE  IsPrefix(a, a \o d)
<1>1. Len(a) \in Nat /\ Len(d) \in Nat /\ Len(a \o d) = Len(a) + Len(d)
  BY ConcatProperties
<1>2. CASE Len(a) = 0
  <2>1. SubSeq(a, 1, 0) = <<>> /\ SubSeq(a \o d, 1, 0) = <<>>
    BY SubSeqEmpty
  <2> QED BY <1>1, <1>2, <2>1 DEF IsPrefix
<1>3. CASE Len(a) # 0
  <2>1. 1 \in 1 .. Len(a) /\ Len(a) \in 1 .. Len(a)
    BY <1>1, <1>3
  <2>2. SubSeq(a \o d, 1, Len(a)) = SubSeq(a, 1, Len(a))
    BY <2>1, SubSeqOfConcat1
  <2> QED BY <1>1, <2>2 DEF IsPrefix
<1> QED BY <1>2, <1>3

LEMMA EmptyPrefix ==
  ASSUME NEW S, NEW d \in Seq(S)
  PROVE  IsPrefix(<<>>, d)
<1>1. <<>> \in Seq(S) /\ <<>> \o d = d
  BY ConcatEmptySeq
<1> QED BY <1>1, JoinPrefix

(* The property, from the invariant. *)
LEMMA ChunksSuffice == RInv /\ Chunks => BodyInOrder
<1> SUFFICES ASSUME RInv, Chunks, req.codec = "body" PROVE ChunksInOrder /\ BodyReachesHandler
  BY DEF BodyInOrder, ChunksInOrder, BodyReachesHandler
<1> DEFINE a == FlattenSeq(received)
<1>1. TypeOK /\ Calls
  BY DEF RInv, SInv
<1>2. /\ received \in Seq(Seq(Unit)) /\ rest \in Seq(Unit) /\ InHand \in Seq(Unit)
      /\ req.body \in Seq(Unit) /\ rawBody \in Seq(Unit) /\ rbuf \in Seq(Unit)
  BY <1>1, ReqFacts, ReplyFacts DEF TypeOK, InHand
<1>3. a \in Seq(Unit)
  BY <1>2, FlattenType
<1> HIDE DEF a
<1>4. IsPrefix(a, req.body)
  <2>1. CASE raw.reader \/ ~req.hasBody \/ last = "error"
    <3>1. a = <<>>
      BY <2>1 DEF Chunks, a
    <3> QED BY <1>2, <3>1, EmptyPrefix
  <2>2. CASE ~(raw.reader \/ ~req.hasBody \/ last = "error")
    <3>1. a \o InHand \o rest = req.body
      BY <2>2 DEF Chunks, a, MakesUp
    <3>2. (a \o InHand) \o rest = a \o (InHand \o rest) /\ InHand \o rest \in Seq(Unit)
      BY <1>2, <1>3, ConcatAssociative, ConcatProperties
    <3> QED BY <1>2, <1>3, <3>1, <3>2, JoinPrefix
  <2> QED BY <2>1, <2>2
<1>5. ChunksInOrder
  BY <1>4 DEF Chunks, ChunksInOrder, a
<1>6. BodyReachesHandler
  <2> SUFFICES ASSUME last = "eof"
               PROVE  IF raw.reader THEN rawBody = req.body
                      ELSE req.hasBody =>
                             /\ Len(req.body) <= Limit => a = req.body
                             /\ a \o rbuf = req.body
    BY DEF BodyReachesHandler, a
  <2>1. CASE raw.reader
    <3>1. rawBody \o rest = req.body /\ rest = <<>>
      BY <2>1 DEF Chunks
    <3> QED BY <1>2, <2>1, <3>1, ConcatEmptySeq
  <2>2. ASSUME ~raw.reader, req.hasBody
        PROVE  a \o rbuf = req.body /\ (Len(req.body) <= Limit => a = req.body)
    <3>1. a \o InHand \o rest = req.body /\ rEOF
      BY <2>2 DEF Chunks, a, MakesUp
    <3>2. rest = <<>>
      BY <2>2, <3>1 DEF Chunks
    <3>3. InHand = rbuf
      BY <1>1, <3>1 DEF Calls, InHand
    <3>4. a \o rbuf \in Seq(Unit)
      BY <1>2, <1>3, ConcatProperties
    <3>5. a \o rbuf = req.body
      BY <3>1, <3>2, <3>3, <3>4, ConcatEmptySeq
    <3>6. Len(req.body) <= Limit => rbuf = <<>>
      BY <2>2 DEF Chunks, OneChunk
    <3>7. a \o <<>> = a
      BY <1>3, ConcatEmptySeq
    <3> QED BY <3>5, <3>6, <3>7
  <2> QED BY <2>1, <2>2
<1> QED BY <1>5, <1>6

(* The types of the stream, for the step lemmas. *)
LEMMA StreamTypes ==
  ASSUME RInv
  PROVE  /\ TypeOK /\ Calls /\ Unary
         /\ received \in Seq(Seq(Unit)) /\ FlattenSeq(received) \in Seq(Unit)
         /\ rest \in Seq(Unit) /\ Len(rest) \in Nat /\ buf \in Seq(Unit) /\ rbuf \in Seq(Unit)
         /\ total \in Nat /\ Limit \in Nat /\ req.body \in Seq(Unit) /\ rawBody \in Seq(Unit)
         /\ recvCount \in Nat
<1>1. TypeOK /\ Calls /\ Unary
  BY DEF RInv, SInv
<1>2. received \in Seq(Seq(Unit))
  BY <1>1 DEF TypeOK
<1>3. FlattenSeq(received) \in Seq(Unit)
  BY <1>2, FlattenType
<1> QED BY <1>1, <1>2, <1>3, ReqFacts, ReplyFacts DEF TypeOK

(* What a message adds to those that were received. *)
LEMMA OneMore ==
  ASSUME NEW q \in Seq(Seq(Unit)), NEW m \in Seq(Unit), Len(m) <= Limit,
         \A i \in 1 .. Len(q) : Len(q[i]) <= Limit
  PROVE  /\ FlattenSeq(Append(q, m)) = FlattenSeq(q) \o m
         /\ \A i \in 1 .. Len(Append(q, m)) : Len(Append(q, m)[i]) <= Limit
<1>1. FlattenSeq(Append(q, m)) = FlattenSeq(q) \o m
  BY FlattenAppend
<1>2. ASSUME NEW i \in 1 .. Len(Append(q, m))
      PROVE  Len(Append(q, m)[i]) <= Limit
  <2>1. Len(q) \in Nat /\ Len(Append(q, m)) = Len(q) + 1
    OBVIOUS
  <2>2. CASE i = Len(q) + 1
    <3>1. Append(q, m)[i] = m
      BY <2>2
    <3> QED BY <3>1
  <2>3. CASE i # Len(q) + 1
    <3>1. i \in 1 .. Len(q)
      BY <2>1, <2>3
    <3>2. Append(q, m)[i] = q[i]
      BY <3>1
    <3> QED BY <3>1, <3>2
  <2> QED BY <2>2, <2>3
<1> QED BY <1>1, <1>2

(* Unmarshal takes any bytes for an HttpBody: only the parameters can fail. *)
LEMMA BodyDecodes ==
  ASSUME TypeOK, Calls, pc # "idle", req.codec = "body", NEW m, Decode(m)
  PROVE  \/ last' = "error" /\ received' = received /\ received = <<>>
         \/ last' = "message" /\ received' = Append(received, m)
<1>1. recvCount = Len(received) + 1 /\ received \in Seq(Seq(Unit))
  BY DEF Calls, TypeOK
<1>2. recvCount - 1 = 0 => received = <<>>
  BY <1>1
<1>3. ReturnMessage(m, recvCount - 1)
  BY DEF Decode, Unmarshals
<1> QED BY <1>2, <1>3 DEF ReturnMessage, ReturnError

LEMMA ChunksRecvMsg ==
  ASSUME RInv, Chunks, RecvMsg, ~raw.reader, UNCHANGED replyVars
  PROVE  Chunks'
<1> SUFFICES ASSUME req'.codec = "body" PROVE Chunks'
  BY DEF Chunks
<1>1. /\ pc = "idle" /\ last \in {"none", "message"} /\ req' = req /\ rest' = rest
      /\ rbuf' = rbuf /\ rEOF' = (rEOF \/ ~req.hasBody) /\ raw' = raw /\ rawBody' = rawBody
  BY DEF RecvMsg, replyVars
<1>2. /\ TypeOK /\ Calls /\ received \in Seq(Seq(Unit)) /\ recvCount \in Nat
      /\ req.codec = "body" /\ Limit \in Nat
  BY <1>1, StreamTypes
<1>3. /\ \A i \in 1 .. Len(received) : Len(received[i]) <= Limit
      /\ req.hasBody => MakesUp(FlattenSeq(received), rbuf, rest, req.body) /\ OneChunk
      /\ rawBody = <<>>
      /\ ~req.hasBody => FlattenSeq(received) = <<>>
      /\ req.hasBody /\ rEOF => rest = <<>>
      /\ recvCount = 0 => rest = req.body
      /\ ~req.streaming => rbuf = <<>>
      /\ ~req.streaming /\ req.hasBody /\ ~rEOF => received = <<>>
      /\ total = 0 /\ total' = total
  BY <1>1, <1>2 DEF Chunks, InHand, Calls, RecvMsg
<1>4. CASE req.hasBody /\ rEOF
  <2>1. /\ last' = "eof" /\ received' = received /\ pc' = pc /\ recvCount' = recvCount
        /\ rEOF'
    BY <1>1, <1>4 DEF RecvMsg, ReturnError
  <2>2. InHand' = rbuf
    BY <1>1, <2>1 DEF InHand
  <2>3. OneChunk'
    BY <1>1, <1>3, <1>4, <2>1 DEF OneChunk
  <2> QED BY <1>1, <1>2, <1>3, <1>4, <2>1, <2>2, <2>3 DEF Chunks
<1>5. CASE req.hasBody /\ ~rEOF
  <2>1. /\ last' = last /\ received' = received /\ recvCount' = recvCount + 1 /\ ~rEOF'
        /\ pc' = (IF req.streaming THEN "scan" ELSE "all")
        /\ buf' = (IF req.streaming THEN rbuf ELSE <<>>)
    BY <1>1, <1>5 DEF RecvMsg
  <2>2. InHand' = rbuf
    BY <1>3, <2>1 DEF InHand
  <2>3. recvCount' # 0 /\ last' \in {"none", "message"}
    BY <1>1, <1>2, <2>1
  <2>4. OneChunk'
    BY <1>1, <1>3, <1>5, <2>1 DEF OneChunk
  <2> QED BY <1>1, <1>2, <1>3, <1>5, <2>1, <2>2, <2>3, <2>4 DEF Chunks
<1>6. CASE ~req.hasBody
  <2>1. recvCount' = recvCount + 1 /\ rEOF'
    BY <1>1, <1>6 DEF RecvMsg
  <2>2. recvCount' # 0
    BY <1>2, <2>1
  <2>3. /\ \A i \in 1 .. Len(received') : Len(received'[i]) <= Limit
        /\ FlattenSeq(received') = <<>>
    <3>1. CASE received' = received
      BY <1>3, <1>6, <3>1
    <3>2. CASE received' = Append(received, <<>>)
      <4>1. <<>> \in Seq(Unit) /\ Len(<<>>) <= Limit
        BY <1>2
      <4>2. <<>> \o <<>> = <<>>
        BY <4>1, ConcatEmptySeq
      <4> QED BY <1>2, <1>3, <1>6, <3>2, <4>1, <4>2, OneMore
    <3> QED BY <1>6, <3>1, <3>2 DEF RecvMsg, ReturnError, ReturnMessage
  <2> QED BY <1>1, <1>2, <1>3, <1>6, <2>1, <2>2, <2>3 DEF Chunks
<1> QED BY <1>4, <1>5, <1>6

LEMMA ChunksBodyRead ==
  ASSUME RInv, Chunks, NEW k \in 0 .. Len(rest), NEW eof \in BOOLEAN, BodyRead(k, eof),
         ~raw.reader, UNCHANGED replyVars
  PROVE  Chunks'
<1> DEFINE b == buf \o SubSeq(rest, 1, k)
           n == IF total + k > Limit THEN Limit ELSE total + k
           err == IF eof THEN "eof" ELSE "nil"
           a == FlattenSeq(received)
<1>1. /\ pc = "scan" /\ req.codec = "body" /\ Reads(k, eof)
      /\ IF eof \/ n = Limit THEN ReadNextReturns(b, n, err)
         ELSE /\ buf' = b /\ total' = n
              /\ UNCHANGED <<req, eofEarly, pc, rbuf, rEOF, recvCount, received, params, last>>
  BY DEF BodyRead
<1>2. /\ TypeOK /\ Calls /\ received \in Seq(Seq(Unit)) /\ recvCount \in Nat
      /\ rest \in Seq(Unit) /\ Len(rest) \in Nat /\ buf \in Seq(Unit) /\ total \in Nat
      /\ Limit \in Nat /\ a \in Seq(Unit)
  BY StreamTypes
<1>3. /\ req.streaming /\ req.hasBody /\ ~rEOF /\ last \in {"none", "message"}
      /\ total <= Len(buf) /\ recvCount = Len(received) + 1
  BY <1>1, <1>2 DEF Calls
<1>4. recvCount # 0 /\ raw' = raw /\ rawBody' = rawBody /\ rawBody = <<>>
  <2>1. Len(received) \in Nat
    BY <1>2
  <2> QED BY <1>1, <1>3, <2>1 DEF replyVars, Chunks
<1>5. /\ rest' = SubSeq(rest, k + 1, Len(rest)) /\ rest' \in Seq(Unit)
      /\ b \in Seq(Unit) /\ Len(b) = Len(buf) + k
      /\ Len(rest') = Len(rest) - k /\ (eof => k = Len(rest))
  BY <1>1, <1>2, ReadsFacts
<1>6. eof => rest' = <<>>
  BY <1>2, <1>5
<1>7. /\ \A i \in 1 .. Len(received) : Len(received[i]) <= Limit
      /\ MakesUp(a, buf, rest, req.body) /\ OneChunk
  BY <1>1, <1>3 DEF Chunks, InHand
<1>8. MakesUp(a, b, rest', req.body)
  <2> HIDE DEF a
  <2>1. MakesUp(a, buf \o SubSeq(rest, 1, k), SubSeq(rest, k + 1, Len(rest)), req.body)
    BY <1>2, <1>7, JoinRead
  <2> QED BY <1>5, <2>1
<1>9. n \in 0 .. Len(b) /\ n <= Limit
  <2>1. Len(buf) \in Nat /\ k \in Nat
    BY <1>2
  <2> HIDE DEF b
  <2> QED BY <1>2, <1>3, <1>5, <2>1
<1>12. Len(req.body) <= Limit => n = Len(b) /\ rbuf = <<>>
  <2> SUFFICES ASSUME Len(req.body) <= Limit PROVE n = Len(b) /\ rbuf = <<>>
    OBVIOUS
  <2>1. total = Len(buf) /\ rbuf = <<>>
    BY <1>1, <1>7 DEF OneChunk
  <2>2. Len(b) <= Len(req.body)
    <3> HIDE DEF a, b
    <3>1. a \o b \in Seq(Unit) /\ Len(a \o b) = Len(a) + Len(b)
      BY <1>2, <1>5, ConcatProperties
    <3> DEFINE c == a \o b
    <3>2. c \in Seq(Unit) /\ Len(c) = Len(a) + Len(b) /\ c \o rest' = req.body
      BY <1>8, <3>1 DEF MakesUp
    <3> DEFINE r == rest'
    <3>r. r \in Seq(Unit)
      BY <1>5
    <3>c. c \in Seq(Unit)
      BY <3>2
    <3> HIDE DEF c, r
    <3>d. Len(c \o r) = Len(c) + Len(r)
      BY <3>c, <3>r, ConcatProperties
    <3>3. Len(c \o rest') = Len(c) + Len(rest')
      BY <3>d DEF r
    <3>4. Len(a) \in Nat /\ Len(b) \in Nat /\ Len(rest') \in Nat
      BY <1>2, <1>5
    <3>5. Len(req.body) = Len(a) + Len(b) + Len(rest')
      BY <3>2, <3>3
    <3> QED BY <3>4, <3>5
  <2>3. Len(buf) \in Nat /\ k \in Nat /\ Len(req.body) \in Nat
    BY <1>2, ReqFacts
  <2> HIDE DEF b
  <2> QED BY <1>2, <1>5, <2>1, <2>2, <2>3
<1>10. CASE eof \/ n = Limit
  <2>1. ReadNextReturns(b, n, err) /\ err # "error"
    BY <1>1, <1>10
  <2> DEFINE m == SubSeq(b, 1, n)
  <2>a. /\ req' = req /\ pc' = "idle" /\ rbuf' = SubSeq(b, n + 1, Len(b))
        /\ rEOF' = (rEOF \/ err = "eof") /\ Decode(m)
    <3> HIDE DEF b, n, err
    <3> QED BY <2>1 DEF ReadNextReturns
  <2>3. recvCount' = recvCount
    BY <2>1 DEF ReadNextReturns
  <2>4. rEOF' => rest' = <<>>
    BY <1>3, <1>6, <2>a
  <2> HIDE DEF b, n, err, a, m
  <2>b. \/ last' = "error" /\ received' = received /\ received = <<>>
        \/ last' = "message" /\ received' = Append(received, m)
    BY <1>1, <1>2, <2>a, BodyDecodes
  <2>c. CASE last' = "error" /\ received' = received /\ received = <<>>
    <3>1. FlattenSeq(received') = <<>>
      BY <2>c, FlattenEmpty
    <3> QED BY <1>3, <1>4, <1>7, <2>a, <2>3, <2>4, <2>c, <3>1 DEF Chunks
  <2> SUFFICES ASSUME last' = "message" /\ received' = Append(received, m) PROVE Chunks'
    BY <2>b, <2>c
  <2>2. /\ req' = req /\ pc' = "idle" /\ rbuf' = SubSeq(b, n + 1, Len(b))
        /\ last' = "message" /\ received' = Append(received, m)
    BY <2>a
  <2> USE DEF m
  <2>5. m \in Seq(Unit) /\ Len(m) = n
    <3>1. Len(b) \in Nat
      BY <1>5
    <3>2. 1 \in 1 .. Len(b) + 1 /\ n \in 1 - 1 .. Len(b) /\ n - 1 + 1 = n
      BY <1>9, <3>1
    <3> QED BY <1>5, <3>2, SubSeqFacts
  <2>6. /\ FlattenSeq(received') = a \o m
        /\ \A i \in 1 .. Len(received') : Len(received'[i]) <= Limit
    <3> HIDE DEF m
    <3>1. Len(m) <= Limit
      BY <1>9, <2>5
    <3> QED BY <1>2, <1>7, <2>2, <2>5, <3>1, OneMore DEF a
  <2>7. MakesUp(FlattenSeq(received'), rbuf', rest', req.body)
    <3>1. MakesUp(a \o SubSeq(b, 1, n), SubSeq(b, n + 1, Len(b)), rest', req.body)
      BY <1>2, <1>5, <1>8, <1>9, JoinCut
    <3> QED BY <2>2, <2>6, <3>1
  <2>8. InHand' = rbuf'
    BY <2>2 DEF InHand
  <2>9. OneChunk'
    <3>1. Len(req.body) <= Limit => rbuf' = SubSeq(b, Len(b) + 1, Len(b))
      BY <1>12, <2>2
    <3>2. SubSeq(b, Len(b) + 1, Len(b)) = <<>>
      <4>1. Len(b) \in Nat
        BY <1>5
      <4>2. Len(b) + 1 \in 1 .. Len(b) + 1 /\ Len(b) \in (Len(b) + 1) - 1 .. Len(b)
        BY <4>1
      <4>3. /\ SubSeq(b, Len(b) + 1, Len(b)) \in Seq(Unit)
            /\ Len(SubSeq(b, Len(b) + 1, Len(b))) = Len(b) - (Len(b) + 1) + 1
        BY <1>5, <4>2, SubSeqFacts
      <4> QED BY <4>1, <4>3
    <3> QED BY <2>2, <3>1, <3>2 DEF OneChunk
  <2> HIDE DEF m
  <2> QED BY <1>3, <1>4, <2>2, <2>3, <2>4, <2>6, <2>7, <2>8, <2>9 DEF Chunks
<1>11. CASE ~(eof \/ n = Limit)
  <2>1. /\ buf' = b /\ total' = n
        /\ UNCHANGED <<req, eofEarly, pc, rbuf, rEOF, recvCount, received, params, last>>
    BY <1>1, <1>11
  <2>2. InHand' = b
    BY <1>1, <2>1 DEF InHand
  <2>3. a' = a
    BY <2>1
  <2> HIDE DEF b, n
  <2>4. OneChunk'
    BY <1>12, <2>1 DEF OneChunk
  <2> QED BY <1>1, <1>3, <1>4, <1>7, <1>8, <2>1, <2>2, <2>3, <2>4 DEF Chunks
<1> QED BY <1>10, <1>11

LEMMA ChunksReadAll ==
  ASSUME RInv, Chunks, NEW k \in 0 .. Len(rest), NEW eof \in BOOLEAN, ReadAll(k, eof),
         ~raw.reader, UNCHANGED replyVars
  PROVE  Chunks'
<1> SUFFICES ASSUME req.codec = "body" PROVE Chunks'
  BY DEF Chunks, ReadAll
<1> DEFINE b == buf \o SubSeq(rest, 1, k)
<1>1. /\ pc = "all" /\ Reads(k, eof)
      /\ req' = req /\ eofEarly' = eofEarly /\ rbuf' = rbuf /\ recvCount' = recvCount
      /\ IF total + k > Limit
           THEN /\ ReturnError("error")
                /\ pc' = "idle" /\ buf' = <<>> /\ total' = 0 /\ rEOF' = rEOF
           ELSE IF eof
             THEN Decode(b) /\ rEOF' = TRUE /\ pc' = "idle" /\ buf' = <<>> /\ total' = 0
             ELSE /\ buf' = b /\ total' = total + k
                  /\ UNCHANGED <<pc, rEOF, received, params, last>>
  BY DEF ReadAll
<1>2. /\ TypeOK /\ Calls /\ Unary /\ received \in Seq(Seq(Unit)) /\ recvCount \in Nat
      /\ rest \in Seq(Unit) /\ Len(rest) \in Nat /\ buf \in Seq(Unit) /\ total \in Nat
      /\ Limit \in Nat
  BY StreamTypes
<1>3. /\ ~req.streaming /\ req.hasBody /\ ~rEOF /\ last \in {"none", "message"}
      /\ recvCount = Len(received) + 1 /\ Len(buf) = total
  <2>1. /\ ~req.streaming /\ req.hasBody /\ ~rEOF /\ last \in {"none", "message"}
        /\ recvCount = Len(received) + 1
    BY <1>1, <1>2 DEF Calls
  <2> QED BY <1>2, <2>1 DEF Unary
<1>4. /\ received = <<>> /\ rbuf = <<>> /\ MakesUp(FlattenSeq(received), buf, rest, req.body)
      /\ rawBody = <<>> /\ raw' = raw /\ rawBody' = rawBody
  BY <1>1, <1>3 DEF Chunks, InHand, replyVars
<1>5. recvCount # 0 /\ FlattenSeq(received) = <<>>
  BY <1>3, <1>4, FlattenEmpty
<1>6. /\ rest' = SubSeq(rest, k + 1, Len(rest)) /\ rest' \in Seq(Unit)
      /\ b \in Seq(Unit) /\ Len(b) = Len(buf) + k
      /\ Len(rest') = Len(rest) - k /\ (eof => k = Len(rest))
  BY <1>1, <1>2, ReadsFacts
<1>7. eof => rest' = <<>>
  BY <1>2, <1>6
<1>8. MakesUp(<<>>, b, rest', req.body)
  <2> DEFINE a == FlattenSeq(received)
  <2>1. a \in Seq(Unit)
    BY StreamTypes
  <2>2. MakesUp(a, buf, rest, req.body)
    BY <1>4
  <2>3. a = <<>>
    BY <1>5
  <2> HIDE DEF a
  <2>4. MakesUp(a, buf \o SubSeq(rest, 1, k), SubSeq(rest, k + 1, Len(rest)), req.body)
    BY <1>2, <2>1, <2>2, JoinRead
  <2>5. MakesUp(a, b, rest', req.body)
    BY <1>6, <2>4
  <2> HIDE DEF b
  <2> QED BY <2>3, <2>5
<1> HIDE DEF b
<1>12. pc' # "scan" => OneChunk'
  BY <1>1, <1>4 DEF OneChunk
<1>9. CASE total + k > Limit
  <2>1. /\ last' = "error" /\ received' = received /\ rEOF' = rEOF
    BY <1>1, <1>9 DEF ReturnError
  <2>2. /\ \A i \in 1 .. Len(received') : Len(received'[i]) <= Limit
        /\ FlattenSeq(received') = <<>>
    BY <1>4, <1>5, <2>1
  <2> QED BY <1>1, <1>3, <1>4, <1>5, <2>1, <2>2 DEF Chunks
<1>10. CASE ~(total + k > Limit) /\ eof
  <2>1. Decode(b) /\ rEOF' /\ pc' = "idle"
    BY <1>1, <1>10
  <2>a. \/ last' = "error" /\ received' = received
        \/ last' = "message" /\ received' = Append(received, b)
    BY <1>1, <1>2, <2>1, BodyDecodes
  <2>b. CASE last' = "error" /\ received' = received
    <3>1. /\ \A i \in 1 .. Len(received') : Len(received'[i]) <= Limit
          /\ FlattenSeq(received') = <<>>
      BY <1>4, <1>5, <2>b
    <3> QED BY <1>1, <1>3, <1>4, <1>5, <1>7, <1>10, <2>1, <2>b, <3>1 DEF Chunks
  <2> SUFFICES ASSUME last' = "message" /\ received' = Append(received, b) PROVE Chunks'
    BY <2>a, <2>b
  <2>2. last' = "message" /\ received' = Append(received, b)
    OBVIOUS
  <2>3. Len(b) <= Limit
    BY <1>2, <1>3, <1>6, <1>10
  <2>4. /\ FlattenSeq(received') = FlattenSeq(received) \o b
        /\ \A i \in 1 .. Len(received') : Len(received'[i]) <= Limit
    <3>1. \A i \in 1 .. Len(received) : Len(received[i]) <= Limit
      BY <1>4
    <3> QED BY <1>2, <1>6, <2>2, <2>3, <3>1, OneMore
  <2>5. FlattenSeq(received') = <<>> \o b
    BY <1>5, <2>4
  <2>6. (<<>> \o b) \o <<>> = <<>> \o b
    <3>1. <<>> \o b = b /\ b \o <<>> = b
      BY <1>6, ConcatEmptySeq
    <3> QED BY <3>1
  <2>7. InHand' = <<>>
    BY <1>1, <1>4, <2>1 DEF InHand
  <2>8. MakesUp(FlattenSeq(received'), InHand', rest', req.body)
    BY <1>8, <2>5, <2>6, <2>7 DEF MakesUp
  <2> QED BY <1>1, <1>3, <1>4, <1>5, <1>7, <1>10, <1>12, <2>1, <2>2, <2>4, <2>8 DEF Chunks
<1>11. CASE ~(total + k > Limit) /\ ~eof
  <2>1. buf' = b /\ UNCHANGED <<pc, rEOF, received, params, last>>
    BY <1>1, <1>11
  <2>2. InHand' = b
    BY <1>1, <2>1 DEF InHand
  <2>3. MakesUp(FlattenSeq(received'), InHand', rest', req.body)
    BY <1>5, <1>8, <2>1, <2>2
  <2> QED BY <1>1, <1>3, <1>4, <1>5, <1>12, <2>1, <2>3 DEF Chunks
<1> QED BY <1>9, <1>10, <1>11

LEMMA ChunksReceive == RInv /\ Chunks /\ Receive => Chunks'
<1> SUFFICES ASSUME RInv, Chunks, Receive PROVE Chunks'
  OBVIOUS
<1>1. ~raw.reader /\ Next /\ UNCHANGED replyVars
  BY DEF Receive
<1>2. CASE RecvMsg
  BY <1>1, <1>2, ChunksRecvMsg
<1>3. CASE JSONFound \/ JSONTooLarge \/ ProtoMessage
  <2>1. req.codec # "body"
    BY <1>3 DEF JSONFound, JSONTooLarge, ProtoMessage
  <2> QED BY <1>1, <2>1, NextKeeps DEF Chunks
<1>4. CASE Read
  <2>1. PICK k \in 0 .. Len(rest), eof \in BOOLEAN :
          JSONRead(k, eof) \/ ProtoSizeRead(k, eof) \/ BodyRead(k, eof) \/ ReadAll(k, eof)
    BY <1>4 DEF Read
  <2>2. CASE JSONRead(k, eof) \/ ProtoSizeRead(k, eof)
    <3>1. req.codec # "body"
      BY <2>2 DEF JSONRead, ProtoSizeRead
    <3> QED BY <1>1, <3>1, NextKeeps DEF Chunks
  <2>3. CASE BodyRead(k, eof)
    BY <1>1, <2>3, ChunksBodyRead
  <2>4. CASE ReadAll(k, eof)
    BY <1>1, <2>4, ChunksReadAll
  <2> QED BY <2>1, <2>2, <2>3, <2>4
<1> QED BY <1>1, <1>2, <1>3, <1>4 DEF Next

LEMMA ChunksTakeReader == RInv /\ Chunks /\ AsHTTPBodyReader => Chunks'
<1> SUFFICES ASSUME RInv, Chunks, AsHTTPBodyReader PROVE Chunks'
  OBVIOUS
<1>0. CASE ~req.paramsOK
  <2>1. /\ req.codec = "body" /\ req.streaming /\ recvCount = 0 /\ last' = "error"
        /\ UNCHANGED <<req, rest, pc, rbuf, rEOF, recvCount, received, raw, rawBody>>
    BY <1>0 DEF AsHTTPBodyReader, MayTakeReader, ParamsRefused, ReturnError, replyVars
  <2>2. received = <<>>
    BY <2>1, StreamTypes DEF Calls
  <2>3. FlattenSeq(received') = <<>>
    BY <2>1, <2>2, FlattenEmpty
  <2> QED BY <2>1, <2>2, <2>3 DEF Chunks
<1> SUFFICES ASSUME req.paramsOK PROVE Chunks'
  BY <1>0
<1>1. /\ pc = "idle" /\ req.streaming /\ req.codec = "body" /\ recvCount = 0
      /\ raw' = [raw EXCEPT !.reader = TRUE] /\ ~raw.reader
      /\ received' = Append(received, <<>>)
      /\ recvCount' = recvCount + 1
      /\ UNCHANGED <<req, rest, pc, rbuf, rEOF, last, rawBody>>
  BY DEF AsHTTPBodyReader, MayTakeReader, TakesReader, InHandler
<1>2. TypeOK /\ Calls /\ received \in Seq(Seq(Unit)) /\ Limit \in Nat /\ rest \in Seq(Unit)
  BY StreamTypes
<1>3. last = "none" /\ ~rEOF /\ received = <<>>
  <2>1. last = "none" /\ ~rEOF
    BY <1>1, <1>2 DEF Calls
  <2>2. recvCount = Len(received) + 0
    BY <1>1, <1>2, <2>1 DEF Calls
  <2>3. Len(received) = 0
    BY <1>1, <1>2, <2>2
  <2> QED BY <1>2, <2>1, <2>3
<1>4. rest = req.body /\ rawBody = <<>>
  BY <1>1 DEF Chunks
<1>5. raw'.reader
  BY <1>1, ReplyFacts
<1>6. /\ \A i \in 1 .. Len(received') : Len(received'[i]) <= Limit
      /\ FlattenSeq(received') = <<>>
  <2>1. <<>> \in Seq(Unit) /\ Len(<<>>) <= Limit
    BY <1>2
  <2>2. <<>> \o <<>> = <<>>
    BY <2>1, ConcatEmptySeq
  <2>3. \A i \in 1 .. Len(received) : Len(received[i]) <= Limit
    BY <1>3
  <2>4. /\ \A i \in 1 .. Len(received') : Len(received'[i]) <= Limit
        /\ FlattenSeq(received') = FlattenSeq(received) \o <<>>
    BY <1>1, <1>2, <2>1, <2>3, OneMore
  <2>5. FlattenSeq(received) = <<>>
    BY <1>3, FlattenEmpty
  <2> QED BY <2>2, <2>4, <2>5
<1>7. rawBody' \o rest' = req.body
  BY <1>1, <1>2, <1>4, ConcatEmptySeq
<1>8. recvCount' # 0
  BY <1>1
<1> QED BY <1>1, <1>3, <1>5, <1>6, <1>7, <1>8 DEF Chunks

LEMMA ChunksReadRaw ==
  ASSUME RInv, Chunks, NEW k \in 0 .. Len(rest), NEW eof \in BOOLEAN, ReadRaw(k, eof)
  PROVE  Chunks'
<1>1. /\ raw.reader /\ Reads(k, eof)
      /\ rawBody' = rawBody \o SubSeq(rest, 1, k)
      /\ last' = IF eof THEN "eof" ELSE last
      /\ last # "eof"
      /\ UNCHANGED <<req, pc, buf, rbuf, rEOF, recvCount, received, raw>>
  BY DEF ReadRaw, InHandler
<1>2. req.codec = "body" /\ recvCount # 0 /\ req.streaming
  BY <1>1 DEF RInv, RawReader
<1>3. /\ TypeOK /\ rest \in Seq(Unit) /\ Len(rest) \in Nat /\ rawBody \in Seq(Unit)
  BY StreamTypes
<1>4. /\ rest' = SubSeq(rest, k + 1, Len(rest)) /\ rest' \in Seq(Unit)
      /\ Len(rest') = Len(rest) - k /\ (eof => k = Len(rest))
  BY <1>1, <1>3, ReadsFacts
<1>5. /\ eof => rest' = <<>>
      /\ rest = <<>> => rest' = <<>>
  BY <1>3, <1>4
<1>6. rawBody' \o rest' = req.body
  <2> DEFINE x == SubSeq(rest, 1, k)
             y == SubSeq(rest, k + 1, Len(rest))
  <2>1. x \in Seq(Unit) /\ y \in Seq(Unit)
    BY <1>3, Split
  <2>2. x \o y = rest
    BY <1>3, Split
  <2>3. rawBody' = rawBody \o x /\ rest' = y
    BY <1>1, <1>4
  <2> HIDE DEF x, y
  <2>4. (rawBody \o x) \o y = rawBody \o (x \o y)
    BY <1>3, <2>1, ConcatAssociative
  <2>5. rawBody \o rest = req.body
    BY <1>1, <1>2 DEF Chunks
  <2> QED BY <2>2, <2>3, <2>4, <2>5
<1> QED BY <1>1, <1>2, <1>5, <1>6 DEF Chunks

LEMMA ChunksSame ==
  ASSUME Chunks, UNCHANGED vars, raw'.reader = raw.reader, rawBody' = rawBody
  PROVE  Chunks'
BY DEF Chunks, OneChunk, vars, InHand, MakesUp

LEMMA ChunksInit == ReplyInit => Chunks
<1> SUFFICES ASSUME ReplyInit PROVE Chunks
  OBVIOUS
<1>1. /\ Init /\ raw = [reader |-> FALSE, writer |-> FALSE] /\ rawBody = <<>>
  BY DEF ReplyInit
<1>2. /\ req \in Requests /\ rest = req.body /\ pc = "idle" /\ rbuf = <<>> /\ ~rEOF
      /\ received = <<>> /\ last = "none" /\ OneChunk
  BY <1>1 DEF Init, OneChunk
<1>3. FlattenSeq(received) = <<>>
  BY <1>2, FlattenEmpty
<1>4. MakesUp(<<>>, <<>>, rest, req.body)
  <2>1. TypeOK
    BY <1>1, InitSInv DEF SInv
  <2>2. <<>> \in Seq(Unit) /\ rest \in Seq(Unit)
    BY <1>2, <2>1, ReqFacts
  <2>3. <<>> \o <<>> = <<>> /\ <<>> \o rest = rest
    BY <2>2, ConcatEmptySeq
  <2> QED BY <1>2, <2>3 DEF MakesUp
<1>5. InHand = <<>>
  BY <1>2 DEF InHand
<1>6. ~raw.reader
  BY <1>1
<1> QED BY <1>1, <1>2, <1>3, <1>4, <1>5, <1>6 DEF Chunks

LEMMA ChunksStep == RInv /\ Chunks /\ [ReplyNext]_allVars => Chunks'
<1> SUFFICES ASSUME RInv, Chunks, [ReplyNext]_allVars PROVE Chunks'
  OBVIOUS
<1>1. CASE Receive
  BY <1>1, ChunksReceive
<1>2. CASE AsHTTPBodyReader
  BY <1>2, ChunksTakeReader
<1>3. ASSUME NEW k \in 0 .. Len(rest), NEW eof \in BOOLEAN, ReadRaw(k, eof) PROVE Chunks'
  BY <1>3, ChunksReadRaw
<1>4. ASSUME NEW t \in BodyTypes, AsHTTPBodyWriter(t) PROVE Chunks'
  <2>1. UNCHANGED vars /\ rawBody' = rawBody /\ raw' = [raw EXCEPT !.writer = TRUE]
    BY <1>4 DEF AsHTTPBodyWriter
  <2>2. raw'.reader = raw.reader
    BY <2>1, ReplyFacts
  <2> QED BY <2>1, <2>2, ChunksSame
<1>5. CASE UNCHANGED <<vars, raw, rawBody>>
  BY <1>5, ChunksSame
<1>6. CASE \/ \E c \in RefuseCodes : Refuse(c)
           \/ CallHandler \/ WriteRaw
           \/ \E md \in MDs : SetHeader(md) \/ SendHeader(md)
           \/ \E n \in {SendLimit, SendLimit + 1} :
                SendMsg(n) \/ \E t \in BodyTypes : SendHttpBody(t, n)
           \/ \E c \in Codes \cup {0, 2, 13} : HandlerReturns(c)
  <2>1. UNCHANGED <<vars, raw, rawBody>>
    BY <1>6 DEF Refuse, CallHandler, WriteRaw, SetHeader, SendHeader, SendMsg, SendHttpBody,
                HandlerReturns
  <2> QED BY <1>5, <2>1
<1>7. CASE UNCHANGED allVars
  BY <1>5, <1>7 DEF allVars, replyVars
<1> QED BY <1>1, <1>2, <1>3, <1>4, <1>6, <1>7 DEF ReplyNext, Handler

(* The chunks of an HttpBody are its beginning, in order, without a gap and  *)
(* none longer than the limit, and at io.EOF all of it but what rbuf holds;  *)
(* all of it if it is no longer than the limit or the handler took the       *)
(* reader.  For any body, any limit and any pieces the reader hands out.     *)
THEOREM HTTPBodyInOrder == ReplySpec => []BodyInOrder
<1>1. ReplyInit => Chunks
  BY ChunksInit
<1>2. RInv /\ Chunks /\ [ReplyNext]_allVars => Chunks'
  BY ChunksStep
<1>3. RInv /\ Chunks => BodyInOrder
  BY ChunksSuffice
<1> QED BY <1>1, <1>2, <1>3, ReplyInvariant, PTL DEF ReplySpec

-----------------------------------------------------------------------------
(* Negotiation: the loops of negotiateContentType and                        *)
(* negotiateContentEncoding, and what they find.                             *)

Spec1 == [main : STRING, sub : STRING, q : Nat]

(* What the loops keep: the best pair so far. *)
BestSoFar(O) == [q : Int, wild : 0 .. 3, offer : O]

OnePair(o, s) == [offer |-> o, spec |-> s]

(* The loops of negotiateContentType. *)
TypeRound(best, o, q) == BestSpec(BetterType, best, o, q)

TypeLoop(first, os, q) == BestPair(BetterType, first, os, q)

LEMMA WildnessType ==
  ASSUME NEW s, NEW o
  PROVE  Wildness(s, o) \in 0 .. 3
BY DEF Wildness

LEMMA BetterTypeType ==
  ASSUME NEW O, NEW o \in O, NEW s \in Spec1, NEW b \in BestSoFar(O)
  PROVE  BetterType(b, OnePair(o, s)) \in BestSoFar(O)
<1> DEFINE p == OnePair(o, s)
<1>1. p.spec = s /\ p.offer = o
  BY DEF OnePair
<1>2. Wildness(s, o) \in 0 .. 3 /\ s.q \in Int
  BY WildnessType DEF Spec1
<1> HIDE DEF p
<1>3. \/ BetterType(b, p) = b
      \/ BetterType(b, p) = [q |-> s.q, wild |-> Wildness(s, o), offer |-> o]
  BY <1>1 DEF BetterType
<1> QED BY <1>2, <1>3 DEF BestSoFar, p

(* f has the values of the inner loop. *)
RoundBy(f, best, o, q) ==
  /\ f[0] = best
  /\ \A j \in 1 .. Len(q) : f[j] = BetterType(f[j - 1], OnePair(o, q[j]))
  /\ TypeRound(best, o, q) = f[Len(q)]

(* The inner loop, round by round. *)
LEMMA SpecLoop ==
  ASSUME NEW O, NEW o \in O, NEW q \in Seq(Spec1), NEW best \in BestSoFar(O)
  PROVE  \E f \in [0 .. Len(q) -> BestSoFar(O)] : RoundBy(f, best, o, q)
<1> DEFINE n == Len(q)
           V == BestSoFar(O)
           F == [p \in (0 .. n) \X V |->
                   IF p[1] = 0 THEN p[2] ELSE BetterType(p[2], OnePair(o, q[p[1]]))]
           Step(v, j) == CHOOSE b \in {BetterType(x, [offer |-> o, spec |-> q[j]]) : x \in {v}} :
                           TRUE
           Eq(f) == f = [j \in 0 .. n |-> IF j = 0 THEN best ELSE Step(f[j - 1], j)]
           h == CHOOSE f : Eq(f)
<1>1. n \in Nat /\ \A j \in 1 .. n : q[j] \in Spec1
  OBVIOUS
<1>2. ASSUME NEW v, NEW j \in 1 .. n
      PROVE  Step(v, j) = BetterType(v, OnePair(o, q[j]))
  BY DEF OnePair
<1>3. ASSUME NEW j \in 0 .. n, NEW v \in V
      PROVE  /\ F[<<j, v>>] = IF j = 0 THEN v ELSE BetterType(v, OnePair(o, q[j]))
             /\ F[<<j, v>>] \in V
  <2>1. F[<<j, v>>] = IF j = 0 THEN v ELSE BetterType(v, OnePair(o, q[j]))
    OBVIOUS
  <2>2. CASE j = 0
    BY <2>1, <2>2
  <2>3. CASE j # 0
    <3>1. j \in 1 .. n
      BY <1>1, <2>3
    <3>2. q[j] \in Spec1
      BY <1>1, <3>1
    <3> HIDE DEF F
    <3> QED BY <2>1, <2>3, <3>2, BetterTypeType
  <2> QED BY <2>1, <2>2, <2>3
<1>4. F \in [(0 .. n) \X V -> V]
  <2>1. \A p \in (0 .. n) \X V : F[p] \in V
    <3> SUFFICES ASSUME NEW p \in (0 .. n) \X V PROVE F[p] \in V
      OBVIOUS
    <3>1. p = <<p[1], p[2]>> /\ p[1] \in 0 .. n /\ p[2] \in V
      OBVIOUS
    <3> HIDE DEF F, V, n
    <3> QED BY <1>3, <3>1
  <2>2. F = [p \in (0 .. n) \X V |-> F[p]]
    OBVIOUS
  <2> HIDE DEF F
  <2> QED BY <2>1, <2>2
<1> HIDE DEF F, V, Step
<1>5. PICK f \in [0 .. n -> V] : IsLoop(f, 0, n, best, F)
  <2>1. 0 \in Nat /\ n \in Nat /\ 0 <= n /\ best \in V
    BY <1>1 DEF V
  <2> HIDE DEF n
  <2> QED BY <1>4, <2>1, LoopExists
<1>6. f[0] = best /\ \A j \in 1 .. n : f[j] = BetterType(f[j - 1], OnePair(o, q[j]))
  <2>1. f[0] = best
    BY <1>1, <1>5 DEF IsLoop
  <2>2. ASSUME NEW j \in 1 .. n
        PROVE  f[j] = BetterType(f[j - 1], OnePair(o, q[j]))
    <3>1. j \in 0 .. n /\ j # 0 /\ j - 1 \in 0 .. n
      BY <1>1
    <3>2. f[j] = F[<<j, f[j - 1]>>] /\ f[j - 1] \in V
      BY <1>5, <3>1 DEF IsLoop
    <3> QED BY <1>3, <3>1, <3>2
  <2> QED BY <2>1, <2>2
<1>7. Eq(f)
  <2>1. ASSUME NEW j \in 0 .. n
        PROVE  f[j] = IF j = 0 THEN best ELSE Step(f[j - 1], j)
    <3>1. CASE j = 0
      BY <1>6, <3>1
    <3>2. CASE j # 0
      <4>1. j \in 1 .. n
        BY <1>1, <3>2
      <4> QED BY <1>2, <1>6, <3>2, <4>1
    <3> QED BY <3>1, <3>2
  <2> QED BY <2>1
<1>8. Eq(h)
  BY <1>7
<1>9. TypeRound(best, o, q) = h[n]
  BY DEF BestSpec, TypeRound, Step
<1> HIDE DEF h
<1>10. \A j \in 0 .. n : h[j] = f[j]
  <2> DEFINE T == {j \in 0 .. n : h[j] = f[j]}
  <2>1. 0 \in T
    BY <1>1, <1>7, <1>8
  <2>2. ASSUME NEW j \in 0 .. n, j + 1 <= n, j \in T
        PROVE  j + 1 \in T
    <3>1. j + 1 \in 0 .. n /\ (j + 1) - 1 = j /\ j + 1 # 0
      BY <1>1, <2>2
    <3>2. f[j + 1] = Step(f[j], j + 1) /\ h[j + 1] = Step(h[j], j + 1)
      BY <1>7, <1>8, <3>1
    <3> QED BY <2>2, <3>1, <3>2
  <2> HIDE DEF T
  <2>3. \A j \in 0 .. n : j \in T
    BY <1>1, <2>1, <2>2, Induction
  <2> QED BY <2>3 DEF T
<1>11. RoundBy(f, best, o, q)
  BY <1>1, <1>6, <1>9, <1>10 DEF RoundBy
<1> QED BY <1>5, <1>11 DEF V

(* Spec s covers offer o; it does so better than t covers u. *)
Covers(s, o) == s.q > 0 /\ Wildness(s, o) < 3

Beats(s, o, t, u) == s.q > t.q \/ (s.q = t.q /\ Wildness(s, o) < Wildness(t, u))

(* Offer k and spec h were tried, when spec j of offer i is the last one. *)
Tried(i, j, k, h) == k < i \/ (k = i /\ h <= j)

(* Spec h of offer k is the best that was tried. *)
Leads(b, os, q, i, j, k, h) ==
  /\ Tried(i, j, k, h) /\ Covers(q[h], os[k])
  /\ b = [q |-> q[h].q, wild |-> Wildness(q[h], os[k]), offer |-> os[k]]
  /\ \A x \in 1 .. Len(os), y \in 1 .. Len(q) :
       Tried(i, j, x, y) /\ Covers(q[y], os[x]) =>
         /\ ~Beats(q[y], os[x], q[h], os[k])
         /\ x < k => Beats(q[h], os[k], q[y], os[x])

NoneYet(d) == [q |-> -1, wild |-> 3, offer |-> d]

NoneCovers(os, q, i, j) ==
  \A x \in 1 .. Len(os), y \in 1 .. Len(q) : Tried(i, j, x, y) => ~Covers(q[y], os[x])

(* The invariant of the loops. *)
Found(b, os, q, i, j, d) ==
  \/ b = NoneYet(d) /\ NoneCovers(os, q, i, j)
  \/ \E k \in 1 .. Len(os), h \in 1 .. Len(q) : Leads(b, os, q, i, j, k, h)

LEMMA BeatsOrder ==
  ASSUME NEW s \in Spec1, NEW t \in Spec1, NEW u \in Spec1, NEW o, NEW p, NEW r
  PROVE  /\ ~Beats(s, o, s, o)
         /\ Beats(s, o, t, p) /\ ~Beats(u, r, t, p) =>
              Beats(s, o, u, r) /\ ~Beats(u, r, s, o)
<1> DEFINE a == s.q
           b == t.q
           c == u.q
           x == Wildness(s, o)
           y == Wildness(t, p)
           z == Wildness(u, r)
<1>1. a \in Nat /\ b \in Nat /\ c \in Nat
  BY DEF Spec1
<1>2. x \in 0 .. 3 /\ y \in 0 .. 3 /\ z \in 0 .. 3
  BY WildnessType
<1>3. /\ Beats(s, o, s, o) <=> (a > a \/ (a = a /\ x < x))
      /\ Beats(s, o, t, p) <=> (a > b \/ (a = b /\ x < y))
      /\ Beats(u, r, t, p) <=> (c > b \/ (c = b /\ z < y))
      /\ Beats(s, o, u, r) <=> (a > c \/ (a = c /\ x < z))
      /\ Beats(u, r, s, o) <=> (c > a \/ (c = a /\ z < x))
  BY DEF Beats
<1> HIDE DEF a, b, c, x, y, z
<1> QED BY <1>1, <1>2, <1>3

(* When BetterType takes the pair, and what it takes. *)
LEMMA BetterTypeCases ==
  ASSUME NEW O, NEW o \in O, NEW s \in Spec1, NEW b \in BestSoFar(O)
  PROVE  IF Covers(s, o) /\ (s.q > b.q \/ (s.q = b.q /\ Wildness(s, o) < b.wild))
         THEN BetterType(b, OnePair(o, s)) = [q |-> s.q, wild |-> Wildness(s, o), offer |-> o]
         ELSE BetterType(b, OnePair(o, s)) = b
<1> DEFINE p == OnePair(o, s)
<1>1. p.spec = s /\ p.offer = o
  BY DEF OnePair
<1>2. s.q \in Nat
  BY DEF Spec1
<1>3. s.q # 0 <=> s.q > 0
  BY <1>2
<1> HIDE DEF p
<1>4. BetterType(b, p) =
        IF Wildness(s, o) < 3 /\ s.q # 0 /\ (s.q > b.q \/ (s.q = b.q /\ Wildness(s, o) < b.wild))
        THEN [q |-> s.q, wild |-> Wildness(s, o), offer |-> o] ELSE b
  BY <1>1 DEF BetterType
<1> QED BY <1>3, <1>4 DEF Covers, p

LEMMA FoundStep ==
  ASSUME NEW O, NEW os \in Seq(O), NEW q \in Seq(Spec1), NEW d \in O, NEW b \in BestSoFar(O),
         NEW i \in 1 .. Len(os), NEW j \in 1 .. Len(q), Found(b, os, q, i, j - 1, d)
  PROVE  Found(BetterType(b, OnePair(os[i], q[j])), os, q, i, j, d)
<1> DEFINE s == q[j]
           o == os[i]
           c == BetterType(b, OnePair(o, s))
<1> SUFFICES Found(c, os, q, i, j, d)
  OBVIOUS
<1>1. /\ Len(q) \in Nat /\ Len(os) \in Nat /\ i \in Nat /\ j \in Nat /\ s \in Spec1 /\ o \in O
      /\ \A y \in 1 .. Len(q) : q[y] \in Spec1
  OBVIOUS
<1>2. ASSUME NEW x \in 1 .. Len(os), NEW y \in 1 .. Len(q), Tried(i, j, x, y)
      PROVE  (x = i /\ y = j) \/ Tried(i, j - 1, x, y)
  BY <1>1, <1>2 DEF Tried
<1>3. ASSUME NEW x \in 1 .. Len(os), NEW y \in 1 .. Len(q), Tried(i, j - 1, x, y)
      PROVE  Tried(i, j, x, y) /\ x <= i
  BY <1>1, <1>3 DEF Tried
<1>4. Tried(i, j, i, j) /\ ~(i < i)
  BY <1>1 DEF Tried
<1>5. s.q \in Nat /\ Wildness(s, o) \in 0 .. 3
  BY <1>1, WildnessType DEF Spec1
<1>6. CASE Covers(s, o) /\ (s.q > b.q \/ (s.q = b.q /\ Wildness(s, o) < b.wild))
  <2>1. c = [q |-> s.q, wild |-> Wildness(s, o), offer |-> o]
    BY <1>1, <1>6, BetterTypeCases
  <2>2. ASSUME NEW x \in 1 .. Len(os), NEW y \in 1 .. Len(q),
               Tried(i, j, x, y), Covers(q[y], os[x])
        PROVE  ~Beats(q[y], os[x], s, o) /\ (x < i => Beats(s, o, q[y], os[x]))
    <3>1. CASE x = i /\ y = j
      BY <1>1, <1>4, <3>1, BeatsOrder
    <3>2. CASE ~(x = i /\ y = j)
      <4>1. Tried(i, j - 1, x, y)
        BY <1>2, <2>2, <3>2
      <4>2. ~NoneCovers(os, q, i, j - 1)
        BY <2>2, <4>1 DEF NoneCovers
      <4>3. PICK k \in 1 .. Len(os), h \in 1 .. Len(q) : Leads(b, os, q, i, j - 1, k, h)
        BY <4>2 DEF Found
      <4>4. /\ b.q = q[h].q /\ b.wild = Wildness(q[h], os[k])
            /\ ~Beats(q[y], os[x], q[h], os[k])
        BY <2>2, <4>1, <4>3 DEF Leads
      <4>5. Beats(s, o, q[h], os[k])
        BY <1>6, <4>4 DEF Beats
      <4>6. q[h] \in Spec1 /\ q[y] \in Spec1
        BY <1>1
      <4> HIDE DEF s, o
      <4> QED BY <1>1, <4>4, <4>5, <4>6, BeatsOrder
    <3> QED BY <3>1, <3>2
  <2>3. Leads(c, os, q, i, j, i, j)
    BY <1>4, <1>6, <2>1, <2>2 DEF Leads
  <2> HIDE DEF c
  <2> QED BY <2>3 DEF Found
<1>7. CASE ~(Covers(s, o) /\ (s.q > b.q \/ (s.q = b.q /\ Wildness(s, o) < b.wild)))
  <2>1. c = b
    BY <1>1, <1>7, BetterTypeCases
  <2> HIDE DEF c
  <2>2. CASE b = NoneYet(d) /\ NoneCovers(os, q, i, j - 1)
    <3>1. b.q = -1
      BY <2>2 DEF NoneYet
    <3>2. ~Covers(s, o)
      BY <1>5, <1>7, <3>1
    <3>3. NoneCovers(os, q, i, j)
      BY <1>2, <2>2, <3>2 DEF NoneCovers
    <3> QED BY <2>1, <2>2, <3>3 DEF Found
  <2>3. ASSUME NEW k \in 1 .. Len(os), NEW h \in 1 .. Len(q), Leads(b, os, q, i, j - 1, k, h)
        PROVE  Found(c, os, q, i, j, d)
    <3>1. /\ Tried(i, j - 1, k, h) /\ Covers(q[h], os[k])
          /\ b = [q |-> q[h].q, wild |-> Wildness(q[h], os[k]), offer |-> os[k]]
      BY <2>3 DEF Leads
    <3>2. Tried(i, j, k, h) /\ k <= i
      BY <1>3, <3>1
    <3>3. ASSUME NEW x \in 1 .. Len(os), NEW y \in 1 .. Len(q),
                 Tried(i, j, x, y), Covers(q[y], os[x])
          PROVE  /\ ~Beats(q[y], os[x], q[h], os[k])
                 /\ x < k => Beats(q[h], os[k], q[y], os[x])
      <4>1. CASE x = i /\ y = j
        <5>1. b.q = q[h].q /\ b.wild = Wildness(q[h], os[k])
          BY <3>1
        <5>2. ~Beats(s, o, q[h], os[k])
          BY <1>7, <3>3, <4>1, <5>1 DEF Beats
        <5>3. ~(i < k)
          BY <1>1, <3>2
        <5> QED BY <4>1, <5>2, <5>3
      <4>2. CASE ~(x = i /\ y = j)
        <5>1. Tried(i, j - 1, x, y)
          BY <1>2, <3>3, <4>2
        <5> QED BY <2>3, <3>3, <5>1 DEF Leads
      <4> QED BY <4>1, <4>2
    <3>4. Leads(b, os, q, i, j, k, h)
      BY <3>1, <3>2, <3>3 DEF Leads
    <3> QED BY <2>1, <3>4 DEF Found
  <2> QED BY <2>2, <2>3 DEF Found
<1> QED BY <1>6, <1>7

LEMMA InnerFinds ==
  ASSUME NEW O, NEW os \in Seq(O), NEW q \in Seq(Spec1), NEW d \in O, NEW b \in BestSoFar(O),
         NEW i \in 1 .. Len(os), Found(b, os, q, i, 0, d)
  PROVE  /\ TypeRound(b, os[i], q) \in BestSoFar(O)
         /\ Found(TypeRound(b, os[i], q), os, q, i, Len(q), d)
<1> DEFINE n == Len(q)
<1>1. n \in Nat /\ os[i] \in O
  OBVIOUS
<1>2. PICK f \in [0 .. n -> BestSoFar(O)] :
        /\ f[0] = b
        /\ \A j \in 1 .. n : f[j] = BetterType(f[j - 1], OnePair(os[i], q[j]))
        /\ TypeRound(b, os[i], q) = f[n]
  <2> DEFINE o == os[i]
  <2>1. o \in O
    BY <1>1
  <2> HIDE DEF o
  <2>2. \E f \in [0 .. Len(q) -> BestSoFar(O)] : RoundBy(f, b, o, q)
    BY <2>1, SpecLoop
  <2> QED BY <2>2 DEF o, RoundBy
<1> DEFINE T == {j \in 0 .. n : Found(f[j], os, q, i, j, d)}
<1>3. 0 \in T
  BY <1>1, <1>2
<1>4. ASSUME NEW j \in 0 .. n, j + 1 <= n, j \in T
      PROVE  j + 1 \in T
  <2>1. j + 1 \in 1 .. n /\ j + 1 \in 0 .. n /\ (j + 1) - 1 = j
    BY <1>1, <1>4
  <2>2. f[j] \in BestSoFar(O) /\ f[j + 1] = BetterType(f[j], OnePair(os[i], q[j + 1]))
    BY <1>2, <2>1
  <2>3. Found(f[j], os, q, i, (j + 1) - 1, d)
    BY <1>4, <2>1
  <2>4. Found(BetterType(f[j], OnePair(os[i], q[j + 1])), os, q, i, j + 1, d)
    BY <2>1, <2>2, <2>3, FoundStep
  <2> QED BY <2>1, <2>2, <2>4
<1> HIDE DEF T
<1>5. \A j \in 0 .. n : j \in T
  BY <1>1, <1>3, <1>4, Induction
<1>6. n \in 0 .. n
  BY <1>1
<1>7. Found(f[n], os, q, i, n, d) /\ f[n] \in BestSoFar(O)
  BY <1>5, <1>6 DEF T
<1> QED BY <1>2, <1>7

(* When all specs were tried for offer i, the next one is i + 1. *)
LEMMA FoundNext ==
  ASSUME NEW O, NEW os \in Seq(O), NEW q \in Seq(Spec1), NEW d, NEW b,
         NEW i \in Nat, Found(b, os, q, i, Len(q), d)
  PROVE  Found(b, os, q, i + 1, 0, d)
<1>1. ASSUME NEW x \in 1 .. Len(os), NEW y \in 1 .. Len(q)
      PROVE  Tried(i, Len(q), x, y) <=> Tried(i + 1, 0, x, y)
  <2>1. Len(os) \in Nat /\ Len(q) \in Nat /\ x \in Nat /\ y \in Nat /\ 1 <= y /\ y <= Len(q)
    OBVIOUS
  <2> QED BY <2>1 DEF Tried
<1>2. NoneCovers(os, q, i, Len(q)) => NoneCovers(os, q, i + 1, 0)
  BY <1>1 DEF NoneCovers
<1>3. ASSUME NEW k \in 1 .. Len(os), NEW h \in 1 .. Len(q), Leads(b, os, q, i, Len(q), k, h)
      PROVE  Leads(b, os, q, i + 1, 0, k, h)
  BY <1>1, <1>3 DEF Leads
<1> QED BY <1>2, <1>3 DEF Found

(* The outer loop, round by round. *)
LEMMA OfferLoop ==
  ASSUME NEW O, NEW os \in Seq(O), NEW q \in Seq(Spec1), NEW first \in BestSoFar(O)
  PROVE  \E f \in [0 .. Len(os) -> BestSoFar(O)] :
           /\ f[0] = first
           /\ \A i \in 1 .. Len(os) : f[i] = TypeRound(f[i - 1], os[i], q)
           /\ TypeLoop(first, os, q) = f[Len(os)]
<1> DEFINE n == Len(os)
           V == BestSoFar(O)
           Step(v, i) == TypeRound(v, os[i], q)
           F == [p \in (0 .. n) \X V |-> IF p[1] = 0 THEN p[2] ELSE Step(p[2], p[1])]
           Eq(f) == f = [i \in 0 .. n |-> IF i = 0 THEN first ELSE Step(f[i - 1], i)]
           h == CHOOSE f : Eq(f)
<1>1. n \in Nat /\ \A i \in 1 .. n : os[i] \in O
  OBVIOUS
<1>2. ASSUME NEW v \in V, NEW i \in 1 .. n
      PROVE  Step(v, i) \in V
  <2>1. os[i] \in O /\ Len(q) \in Nat
    BY <1>1
  <2>2. PICK f \in [0 .. Len(q) -> V] : Step(v, i) = f[Len(q)]
    <3> DEFINE o == os[i]
    <3>1. o \in O
      BY <2>1
    <3> HIDE DEF o
    <3>2. \E f \in [0 .. Len(q) -> V] : TypeRound(v, o, q) = f[Len(q)]
      BY <3>1, SpecLoop DEF RoundBy
    <3> QED BY <3>2 DEF o
  <2>3. Len(q) \in 0 .. Len(q)
    BY <2>1
  <2> HIDE DEF Step, V
  <2> QED BY <2>2, <2>3
<1> HIDE DEF Step
<1>3. ASSUME NEW i \in 0 .. n, NEW v \in V
      PROVE  F[<<i, v>>] = (IF i = 0 THEN v ELSE Step(v, i)) /\ F[<<i, v>>] \in V
  <2>1. F[<<i, v>>] = IF i = 0 THEN v ELSE Step(v, i)
    OBVIOUS
  <2>2. i # 0 => i \in 1 .. n
    BY <1>1
  <2> HIDE DEF F, V
  <2> QED BY <1>2, <2>1, <2>2
<1>4. F \in [(0 .. n) \X V -> V]
  <2>1. \A p \in (0 .. n) \X V : F[p] \in V
    <3> SUFFICES ASSUME NEW p \in (0 .. n) \X V PROVE F[p] \in V
      OBVIOUS
    <3>1. p = <<p[1], p[2]>> /\ p[1] \in 0 .. n /\ p[2] \in V
      OBVIOUS
    <3> HIDE DEF F, V, n
    <3> QED BY <1>3, <3>1
  <2>2. F = [p \in (0 .. n) \X V |-> F[p]]
    OBVIOUS
  <2> HIDE DEF F
  <2> QED BY <2>1, <2>2
<1> HIDE DEF F, V
<1>5. PICK f \in [0 .. n -> V] : IsLoop(f, 0, n, first, F)
  <2>1. 0 \in Nat /\ n \in Nat /\ 0 <= n /\ first \in V
    BY <1>1 DEF V
  <2> HIDE DEF n
  <2> QED BY <1>4, <2>1, LoopExists
<1>6. f[0] = first /\ \A i \in 1 .. n : f[i] = Step(f[i - 1], i)
  <2>1. f[0] = first
    BY <1>1, <1>5 DEF IsLoop
  <2>2. ASSUME NEW i \in 1 .. n
        PROVE  f[i] = Step(f[i - 1], i)
    <3>1. i \in 0 .. n /\ i # 0 /\ i - 1 \in 0 .. n
      BY <1>1
    <3>2. f[i] = F[<<i, f[i - 1]>>] /\ f[i - 1] \in V
      BY <1>5, <3>1 DEF IsLoop
    <3> QED BY <1>3, <3>1, <3>2
  <2> QED BY <2>1, <2>2
<1>7. Eq(f)
  <2>1. ASSUME NEW i \in 0 .. n
        PROVE  f[i] = IF i = 0 THEN first ELSE Step(f[i - 1], i)
    <3>1. i # 0 => i \in 1 .. n
      BY <1>1
    <3> QED BY <1>6, <3>1
  <2> QED BY <2>1
<1>8. Eq(h)
  BY <1>7
<1>9. TypeLoop(first, os, q) = h[n]
  BY DEF BestPair, TypeLoop, TypeRound, Step
<1> HIDE DEF h
<1>10. \A i \in 0 .. n : h[i] = f[i]
  <2> DEFINE T == {i \in 0 .. n : h[i] = f[i]}
  <2>1. 0 \in T
    BY <1>1, <1>7, <1>8
  <2>2. ASSUME NEW i \in 0 .. n, i + 1 <= n, i \in T
        PROVE  i + 1 \in T
    <3>1. i + 1 \in 0 .. n /\ (i + 1) - 1 = i /\ i + 1 # 0
      BY <1>1, <2>2
    <3>2. f[i + 1] = Step(f[i], i + 1) /\ h[i + 1] = Step(h[i], i + 1)
      BY <1>7, <1>8, <3>1
    <3> QED BY <2>2, <3>1, <3>2
  <2> HIDE DEF T
  <2>3. \A i \in 0 .. n : i \in T
    BY <1>1, <2>1, <2>2, Induction
  <2> QED BY <2>3 DEF T
<1>11. TypeLoop(first, os, q) = f[n]
  BY <1>1, <1>9, <1>10
<1> QED BY <1>5, <1>6, <1>11 DEF V, Step

LEMMA OuterFinds ==
  ASSUME NEW O, NEW os \in Seq(O), NEW q \in Seq(Spec1), NEW d \in O
  PROVE  Found(TypeLoop(NoneYet(d), os, q), os, q, Len(os) + 1, 0, d)
<1> DEFINE n == Len(os)
<1>1. n \in Nat
  OBVIOUS
<1>2. NoneYet(d) \in BestSoFar(O)
  BY DEF NoneYet, BestSoFar
<1>3. PICK f \in [0 .. n -> BestSoFar(O)] :
        /\ f[0] = NoneYet(d)
        /\ \A i \in 1 .. n : f[i] = TypeRound(f[i - 1], os[i], q)
        /\ TypeLoop(NoneYet(d), os, q) = f[n]
  BY <1>2, OfferLoop
<1> DEFINE T == {i \in 0 .. n : Found(f[i], os, q, i + 1, 0, d)}
<1>4. 0 \in T
  <2>1. ASSUME NEW x \in 1 .. n, NEW y \in 1 .. Len(q) PROVE ~Tried(0 + 1, 0, x, y)
    BY <1>1 DEF Tried
  <2>2. NoneCovers(os, q, 0 + 1, 0)
    BY <2>1 DEF NoneCovers
  <2>3. Found(f[0], os, q, 0 + 1, 0, d)
    BY <1>3, <2>2 DEF Found
  <2> QED BY <1>1, <2>3
<1>5. ASSUME NEW i \in 0 .. n, i + 1 <= n, i \in T
      PROVE  i + 1 \in T
  <2>1. i + 1 \in 1 .. n /\ i + 1 \in 0 .. n /\ (i + 1) - 1 = i /\ i + 1 \in Nat
    BY <1>1, <1>5
  <2>2. f[i] \in BestSoFar(O) /\ f[i + 1] = TypeRound(f[i], os[i + 1], q)
    BY <1>3, <2>1
  <2>3. Found(f[i], os, q, i + 1, 0, d)
    BY <1>5
  <2>4. Found(f[i + 1], os, q, i + 1, Len(q), d)
    BY <2>1, <2>2, <2>3, InnerFinds
  <2>5. Found(f[i + 1], os, q, (i + 1) + 1, 0, d)
    BY <2>1, <2>4, FoundNext
  <2> QED BY <2>1, <2>5
<1> HIDE DEF T
<1>6. \A i \in 0 .. n : i \in T
  BY <1>1, <1>4, <1>5, Induction
<1>7. n \in T
  BY <1>1, <1>6
<1> QED BY <1>3, <1>7 DEF T

LEMMA QualityType ==
  ASSUME NEW item \in AcceptItem
  PROVE  Quality(item) \in Int
<1> DEFINE q == item.q
           ds == q.decimals
<1>1. q.lead \in 0 .. 9 /\ ds \in Seq(0 .. 9)
  BY DEF AcceptItem
<1>2. q.lead \in Int
  BY <1>1
<1> HIDE DEF q, ds
<1>3. Len(ds) \in Nat /\ \A i \in 1 .. Len(ds) : ds[i] \in 0 .. 9
  BY <1>1
<1> DEFINE Digit(i) == IF Len(ds) >= i THEN ds[i] ELSE 0
<1>4. Digit(1) \in Int /\ Digit(2) \in Int /\ Digit(3) \in Int
  BY <1>3
<1>5. expectQuality(q) =
        IF q.lead \notin {0, 1} THEN -1
        ELSE 1000 * q.lead + 100 * Digit(1) + 10 * Digit(2) + Digit(3)
  BY DEF expectQuality, ds
<1> HIDE DEF Digit
<1>6. expectQuality(q) \in Int
  BY <1>2, <1>4, <1>5
<1> QED BY <1>6 DEF Quality, q

(* A line is read up to a place that exists, and well-formed items come      *)
(* before it.                                                                *)
LEMMA SpecsOfType ==
  ASSUME NEW line \in Seq(AcceptItem)
  PROVE  SpecsOf(line) \in Seq(Spec1)
<1> DEFINE L == Len(line)
           ends == {i \in 1 .. L : Malformed(line[i])}
           stops == {i \in 1 .. L : ~line[i].comma}
           Stop(n) == /\ \A i \in ends : n < i
                      /\ \A i \in stops : n <= i
                      /\ n + 1 \in ends \/ n \in stops \/ n = L
           n == CHOOSE k \in 0 .. L : Stop(k)
           Parsed(i) == [main |-> line[i].main, sub |-> line[i].sub, q |-> Quality(line[i])]
<1>1. L \in Nat /\ ends \in SUBSET Nat /\ stops \in SUBSET Nat
  OBVIOUS
<1>2. \E k \in 0 .. L : Stop(k)
  <2> DEFINE T == {L} \cup {i - 1 : i \in ends} \cup stops
  <2>1. T \in SUBSET Nat /\ T # {}
    BY <1>1
  <2>2. \A i \in ends : i \in 1 .. L /\ i - 1 \in T
    OBVIOUS
  <2>3. \A i \in stops : i \in 1 .. L /\ i \in T
    OBVIOUS
  <2>4. \A k \in T : k = L \/ (\E i \in ends : k = i - 1) \/ k \in stops
    OBVIOUS
  <2>5. L \in T
    OBVIOUS
  <2> HIDE DEF T, ends, stops
  <2>6. PICK k \in T : \A y \in T : k <= y
    BY <2>1, NatMin
  <2>7. k \in 0 .. L
    BY <1>1, <2>1, <2>5, <2>6
  <2>8. \A i \in ends : k < i
    <3> SUFFICES ASSUME NEW i \in ends PROVE k < i
      OBVIOUS
    <3>1. i \in 1 .. L /\ k <= i - 1
      BY <2>2, <2>6
    <3> QED BY <1>1, <2>7, <3>1
  <2>9. \A i \in stops : k <= i
    BY <2>3, <2>6
  <2>10. k + 1 \in ends \/ k \in stops \/ k = L
    <3>1. CASE \E i \in ends : k = i - 1
      <4>1. PICK i \in ends : k = i - 1
        BY <3>1
      <4>2. i \in 1 .. L
        BY <2>2
      <4>3. k + 1 = i
        BY <1>1, <4>1, <4>2
      <4> QED BY <4>3
    <3> QED BY <2>4, <3>1
  <2> QED BY <2>7, <2>8, <2>9, <2>10
<1>3. n \in 0 .. L /\ \A i \in ends : n < i
  <2>1. n \in 0 .. L /\ Stop(n)
    BY <1>2
  <2> QED BY <2>1
<1>4. SpecsOf(line) = [i \in 1 .. n |-> Parsed(i)]
  BY DEF SpecsOf
<1> HIDE DEF n
<1>5. ASSUME NEW i \in 1 .. n
      PROVE  Parsed(i) \in Spec1
  <2>1. i \in 1 .. L /\ i \notin ends
    BY <1>1, <1>3
  <2>2. line[i] \in AcceptItem
    BY <2>1
  <2>3. ~Malformed(line[i])
    BY <2>1
  <2>4. Quality(line[i]) \in Nat
    BY <2>2, <2>3, QualityType DEF Malformed
  <2>5. line[i].main \in STRING /\ line[i].sub \in STRING
    BY <2>2 DEF AcceptItem
  <2> QED BY <2>4, <2>5 DEF Spec1
<1> HIDE DEF Parsed
<1>6. n \in Nat
  BY <1>1, <1>3
<1>7. [i \in 1 .. n |-> Parsed(i)] \in Seq(Spec1)
  BY <1>5, <1>6
<1> QED BY <1>4, <1>7

LEMMA ParseAcceptType ==
  ASSUME NEW lines \in Seq(Seq(AcceptItem))
  PROVE  parseAccept(lines) \in Seq(Spec1)
<1> DEFINE s == [i \in 1 .. Len(lines) |-> SpecsOf(lines[i])]
<1>1. ASSUME NEW i \in 1 .. Len(lines) PROVE SpecsOf(lines[i]) \in Seq(Spec1)
  <2>1. lines[i] \in Seq(AcceptItem)
    OBVIOUS
  <2> QED BY <2>1, SpecsOfType
<1>2. s \in Seq(Seq(Spec1))
  BY <1>1
<1> HIDE DEF s
<1>3. FlattenSeq(s) \in Seq(Spec1)
  BY <1>2, FlattenType
<1> QED BY <1>3 DEF parseAccept, s

(* The two loops of negotiateContentType find the offer that its comment      *)
(* names, whatever the Accept lines, the offers and the default: of the       *)
(* offers the header accepts the one of the highest quality, of these the     *)
(* most specific, of these the first.                                         *)
THEOREM FindsBest ==
  ASSUME NEW O, NEW os \in Seq(O), NEW d \in O, NEW lines \in Seq(Seq(AcceptItem))
  PROVE  negotiateContentType(lines, os, d) = BestOf(lines, os, d)
<1> DEFINE q == parseAccept(lines)
           r == TypeLoop(NoneYet(d), os, q)
           Covered(o) == {j \in 1 .. Len(q) : q[j].q > 0 /\ Wildness(q[j], o) < 3}
           Best(i) == \E j \in Covered(os[i]) :
                        \A k \in 1 .. Len(os) : \A h \in Covered(os[k]) :
                          /\ ~Beats(q[h], os[k], q[j], os[i])
                          /\ k < i => Beats(q[j], os[i], q[h], os[k])
<1>1. q \in Seq(Spec1)
  BY ParseAcceptType
<1>2. negotiateContentType(lines, os, d) = r.offer
  BY DEF negotiateContentType, TypeLoop, NoneYet
<1>3. BestOf(lines, os, d) =
        IF \E i \in 1 .. Len(os) : Best(i) THEN os[CHOOSE i \in 1 .. Len(os) : Best(i)] ELSE d
  BY DEF BestOf, Beats
<1> HIDE DEF q
<1>4. Found(r, os, q, Len(os) + 1, 0, d)
  BY <1>1, OuterFinds
<1> HIDE DEF r
<1>5. Len(os) \in Nat /\ Len(q) \in Nat
  BY <1>1
<1>6. \A x \in 1 .. Len(os), y \in 1 .. Len(q) : Tried(Len(os) + 1, 0, x, y)
  BY <1>5 DEF Tried
<1>7. ASSUME NEW k \in 1 .. Len(os)
      PROVE  \A j : j \in Covered(os[k]) <=> j \in 1 .. Len(q) /\ Covers(q[j], os[k])
  BY DEF Covers
<1> HIDE DEF Covered
<1>8. CASE r = NoneYet(d) /\ NoneCovers(os, q, Len(os) + 1, 0)
  <2>1. \A i \in 1 .. Len(os) : Covered(os[i]) = {}
    BY <1>6, <1>7, <1>8 DEF NoneCovers
  <2>2. ~ \E i \in 1 .. Len(os) : Best(i)
    BY <2>1
  <2>3. r.offer = d
    BY <1>8 DEF NoneYet
  <2> HIDE DEF Best
  <2> QED BY <1>2, <1>3, <2>2, <2>3
<1>9. ASSUME NEW k \in 1 .. Len(os), NEW h \in 1 .. Len(q),
             Leads(r, os, q, Len(os) + 1, 0, k, h)
      PROVE  negotiateContentType(lines, os, d) = BestOf(lines, os, d)
  <2>1. /\ Covers(q[h], os[k]) /\ r.offer = os[k]
        /\ \A x \in 1 .. Len(os), y \in 1 .. Len(q) :
             Covers(q[y], os[x]) =>
               /\ ~Beats(q[y], os[x], q[h], os[k])
               /\ x < k => Beats(q[h], os[k], q[y], os[x])
    BY <1>6, <1>9 DEF Leads
  <2>2. Best(k)
    <3>1. h \in Covered(os[k])
      BY <1>7, <2>1
    <3>2. ASSUME NEW x \in 1 .. Len(os), NEW y \in Covered(os[x])
          PROVE  /\ ~Beats(q[y], os[x], q[h], os[k])
                 /\ x < k => Beats(q[h], os[k], q[y], os[x])
      BY <1>7, <2>1
    <3> QED BY <3>1, <3>2
  <2>3. ASSUME NEW i \in 1 .. Len(os), Best(i)
        PROVE  i = k
    <3>1. PICK j \in Covered(os[i]) :
            \A x \in 1 .. Len(os) : \A y \in Covered(os[x]) :
              /\ ~Beats(q[y], os[x], q[j], os[i])
              /\ x < i => Beats(q[j], os[i], q[y], os[x])
      BY <2>3
    <3>2. h \in Covered(os[k]) /\ j \in 1 .. Len(q) /\ Covers(q[j], os[i])
      BY <1>7, <2>1
    <3>3. ~(k < i)
      <4>1. ~Beats(q[j], os[i], q[h], os[k])
        BY <2>1, <3>2
      <4> QED BY <3>1, <3>2, <4>1
    <3>4. ~(i < k)
      <4>1. ~Beats(q[h], os[k], q[j], os[i])
        BY <3>1, <3>2
      <4> QED BY <2>1, <3>2, <4>1
    <3> QED BY <1>5, <3>3, <3>4
  <2> HIDE DEF Best
  <2>4. (CHOOSE i \in 1 .. Len(os) : Best(i)) = k
    BY <2>2, <2>3
  <2> QED BY <1>2, <1>3, <2>1, <2>2, <2>4
<1> QED BY <1>4, <1>8, <1>9 DEF Found

(* The loops of negotiateContentEncoding: they end with an offer or with     *)
(* what they began with.                                                     *)
EncodingSoFar(O) == [q : Int, offer : O]

EncodingRound(best, o, q) == BestSpec(BetterEncoding, best, o, q)

EncodingLoop(first, os, q) == BestPair(BetterEncoding, first, os, q)

LEMMA BetterEncodingType ==
  ASSUME NEW O, NEW o \in O, NEW s \in Spec1, NEW b \in EncodingSoFar(O)
  PROVE  BetterEncoding(b, OnePair(o, s)) \in EncodingSoFar(O)
<1> DEFINE p == OnePair(o, s)
<1>1. p.spec = s /\ p.offer = o
  BY DEF OnePair
<1>2. s.q \in Int
  BY DEF Spec1
<1> HIDE DEF p
<1>3. BetterEncoding(b, p) = b \/ BetterEncoding(b, p) = [q |-> s.q, offer |-> o]
  BY <1>1 DEF BetterEncoding
<1> QED BY <1>2, <1>3 DEF EncodingSoFar, p

LEMMA EncodingRoundType ==
  ASSUME NEW O, NEW o \in O, NEW q \in Seq(Spec1), NEW best \in EncodingSoFar(O)
  PROVE  EncodingRound(best, o, q) \in EncodingSoFar(O)
<1> DEFINE n == Len(q)
           V == EncodingSoFar(O)
           Step(v, j) == CHOOSE b \in {BetterEncoding(x, [offer |-> o, spec |-> q[j]]) : x \in {v}} :
                           TRUE
           F == [p \in (0 .. n) \X V |-> IF p[1] = 0 THEN p[2] ELSE Step(p[2], p[1])]
           Eq(f) == f = [j \in 0 .. n |-> IF j = 0 THEN best ELSE Step(f[j - 1], j)]
           h == CHOOSE f : Eq(f)
<1>1. n \in Nat /\ \A j \in 1 .. n : q[j] \in Spec1
  OBVIOUS
<1>2. ASSUME NEW v \in V, NEW j \in 1 .. n
      PROVE  Step(v, j) \in V
  <2>1. Step(v, j) = BetterEncoding(v, OnePair(o, q[j]))
    BY DEF OnePair
  <2>2. q[j] \in Spec1
    BY <1>1
  <2> HIDE DEF Step
  <2> QED BY <2>1, <2>2, BetterEncodingType
<1> HIDE DEF Step
<1>3. ASSUME NEW j \in 0 .. n, NEW v \in V
      PROVE  F[<<j, v>>] = (IF j = 0 THEN v ELSE Step(v, j)) /\ F[<<j, v>>] \in V
  <2>1. F[<<j, v>>] = IF j = 0 THEN v ELSE Step(v, j)
    OBVIOUS
  <2>2. j # 0 => j \in 1 .. n
    BY <1>1
  <2> HIDE DEF F, V
  <2> QED BY <1>2, <2>1, <2>2
<1>4. F \in [(0 .. n) \X V -> V]
  <2>1. \A p \in (0 .. n) \X V : F[p] \in V
    <3> SUFFICES ASSUME NEW p \in (0 .. n) \X V PROVE F[p] \in V
      OBVIOUS
    <3>1. p = <<p[1], p[2]>> /\ p[1] \in 0 .. n /\ p[2] \in V
      OBVIOUS
    <3> HIDE DEF F, V, n
    <3> QED BY <1>3, <3>1
  <2>2. F = [p \in (0 .. n) \X V |-> F[p]]
    OBVIOUS
  <2> HIDE DEF F
  <2> QED BY <2>1, <2>2
<1> HIDE DEF F, V
<1>5. PICK f \in [0 .. n -> V] : IsLoop(f, 0, n, best, F)
  <2>1. 0 \in Nat /\ n \in Nat /\ 0 <= n /\ best \in V
    BY <1>1 DEF V
  <2> HIDE DEF n
  <2> QED BY <1>4, <2>1, LoopExists
<1>6. Eq(f)
  <2>1. ASSUME NEW j \in 0 .. n
        PROVE  f[j] = IF j = 0 THEN best ELSE Step(f[j - 1], j)
    <3>1. CASE j = 0
      BY <1>5, <3>1 DEF IsLoop
    <3>2. CASE j # 0
      <4>1. j - 1 \in 0 .. n
        BY <1>1, <3>2
      <4>2. f[j] = F[<<j, f[j - 1]>>] /\ f[j - 1] \in V
        BY <1>5, <3>2, <4>1 DEF IsLoop
      <4> QED BY <1>3, <3>2, <4>2
    <3> QED BY <3>1, <3>2
  <2> QED BY <2>1
<1>7. Eq(h)
  BY <1>6
<1>8. EncodingRound(best, o, q) = h[n]
  BY DEF BestSpec, EncodingRound, Step
<1> HIDE DEF h
<1>9. \A j \in 0 .. n : h[j] \in V
  <2> DEFINE T == {j \in 0 .. n : h[j] \in V}
  <2>1. 0 \in T
    BY <1>1, <1>7 DEF V
  <2>2. ASSUME NEW j \in 0 .. n, j + 1 <= n, j \in T
        PROVE  j + 1 \in T
    <3>1. j + 1 \in 0 .. n /\ j + 1 \in 1 .. n /\ (j + 1) - 1 = j /\ j + 1 # 0
      BY <1>1, <2>2
    <3>2. h[j + 1] = Step(h[j], j + 1) /\ h[j] \in V
      BY <1>7, <2>2, <3>1
    <3> QED BY <1>2, <3>1, <3>2
  <2> HIDE DEF T
  <2>3. \A j \in 0 .. n : j \in T
    BY <1>1, <2>1, <2>2, Induction
  <2> QED BY <2>3 DEF T
<1>10. h[n] \in V
  BY <1>1, <1>9
<1> QED BY <1>8, <1>10 DEF V

LEMMA EncodingLoopType ==
  ASSUME NEW O, NEW os \in Seq(O), NEW q \in Seq(Spec1), NEW first \in EncodingSoFar(O)
  PROVE  EncodingLoop(first, os, q) \in EncodingSoFar(O)
<1> DEFINE n == Len(os)
           V == EncodingSoFar(O)
           Step(v, i) == EncodingRound(v, os[i], q)
           F == [p \in (0 .. n) \X V |-> IF p[1] = 0 THEN p[2] ELSE Step(p[2], p[1])]
           Eq(f) == f = [i \in 0 .. n |-> IF i = 0 THEN first ELSE Step(f[i - 1], i)]
           h == CHOOSE f : Eq(f)
<1>1. n \in Nat /\ \A i \in 1 .. n : os[i] \in O
  OBVIOUS
<1>2. ASSUME NEW v \in V, NEW i \in 1 .. n
      PROVE  Step(v, i) \in V
  <2> DEFINE o == os[i]
  <2>1. o \in O
    BY <1>1
  <2>2. Step(v, i) = EncodingRound(v, o, q)
    OBVIOUS
  <2> HIDE DEF o, Step
  <2> QED BY <2>1, <2>2, EncodingRoundType
<1> HIDE DEF Step
<1>3. ASSUME NEW i \in 0 .. n, NEW v \in V
      PROVE  F[<<i, v>>] = (IF i = 0 THEN v ELSE Step(v, i)) /\ F[<<i, v>>] \in V
  <2>1. F[<<i, v>>] = IF i = 0 THEN v ELSE Step(v, i)
    OBVIOUS
  <2>2. i # 0 => i \in 1 .. n
    BY <1>1
  <2> HIDE DEF F, V
  <2> QED BY <1>2, <2>1, <2>2
<1>4. F \in [(0 .. n) \X V -> V]
  <2>1. \A p \in (0 .. n) \X V : F[p] \in V
    <3> SUFFICES ASSUME NEW p \in (0 .. n) \X V PROVE F[p] \in V
      OBVIOUS
    <3>1. p = <<p[1], p[2]>> /\ p[1] \in 0 .. n /\ p[2] \in V
      OBVIOUS
    <3> HIDE DEF F, V, n
    <3> QED BY <1>3, <3>1
  <2>2. F = [p \in (0 .. n) \X V |-> F[p]]
    OBVIOUS
  <2> HIDE DEF F
  <2> QED BY <2>1, <2>2
<1> HIDE DEF F, V
<1>5. PICK f \in [0 .. n -> V] : IsLoop(f, 0, n, first, F)
  <2>1. 0 \in Nat /\ n \in Nat /\ 0 <= n /\ first \in V
    BY <1>1 DEF V
  <2> HIDE DEF n
  <2> QED BY <1>4, <2>1, LoopExists
<1>6. Eq(f)
  <2>1. ASSUME NEW i \in 0 .. n
        PROVE  f[i] = IF i = 0 THEN first ELSE Step(f[i - 1], i)
    <3>1. CASE i = 0
      BY <1>5, <3>1 DEF IsLoop
    <3>2. CASE i # 0
      <4>1. i - 1 \in 0 .. n
        BY <1>1, <3>2
      <4>2. f[i] = F[<<i, f[i - 1]>>] /\ f[i - 1] \in V
        BY <1>5, <3>2, <4>1 DEF IsLoop
      <4> QED BY <1>3, <3>2, <4>2
    <3> QED BY <3>1, <3>2
  <2> QED BY <2>1
<1>7. Eq(h)
  BY <1>6
<1>8. EncodingLoop(first, os, q) = h[n]
  BY DEF BestPair, EncodingLoop, EncodingRound, Step
<1> HIDE DEF h
<1>9. \A i \in 0 .. n : h[i] \in V
  <2> DEFINE T == {i \in 0 .. n : h[i] \in V}
  <2>1. 0 \in T
    BY <1>1, <1>7 DEF V
  <2>2. ASSUME NEW i \in 0 .. n, i + 1 <= n, i \in T
        PROVE  i + 1 \in T
    <3>1. i + 1 \in 0 .. n /\ i + 1 \in 1 .. n /\ (i + 1) - 1 = i /\ i + 1 # 0
      BY <1>1, <2>2
    <3>2. h[i + 1] = Step(h[i], i + 1) /\ h[i] \in V
      BY <1>7, <2>2, <3>1
    <3> QED BY <1>2, <3>1, <3>2
  <2> HIDE DEF T
  <2>3. \A i \in 0 .. n : i \in T
    BY <1>1, <2>1, <2>2, Induction
  <2> QED BY <2>3 DEF T
<1>10. h[n] \in V
  BY <1>1, <1>9
<1> QED BY <1>8, <1>10 DEF V

(* What negotiateContentEncoding can return. *)
Offered == {JSON, Octets, Proto, HttpBody, Identity}

LEMMA OffersOffered ==
  ASSUME NEW O, Offered \subseteq O
  PROVE  contentTypeOffers \in Seq(O)
<1>1. JSON \in O /\ Octets \in O /\ Proto \in O /\ HttpBody \in O
  BY DEF Offered
<1>2. contentTypeOffers = <<JSON, Octets, Proto, HttpBody>>
  BY DEF contentTypeOffers
<1> QED BY <1>1, <1>2

(* No Accept-Encoding header has a reply compressed: NewMux sorts the names   *)
(* of the codecs, not those of the compressors, into encodingTypeOffers, so   *)
(* that what negotiateContentEncoding returns never is a compressor.          *)
THEOREM NeverCompressed ==
  ASSUME NEW lines \in Seq(Seq(AcceptItem))
  PROVE  negotiateContentEncoding(lines, encodingTypeOffers) \notin DOMAIN compressors
<1> DEFINE q == parseAccept(lines)
           first == [q |-> -1, offer |-> Identity]
           best == EncodingLoop(first, encodingTypeOffers, q)
<1>1. q \in Seq(Spec1)
  BY ParseAcceptType
<1>2. first \in EncodingSoFar(Offered)
  BY DEF EncodingSoFar, Offered
<1>3. encodingTypeOffers \in Seq(Offered)
  BY OffersOffered DEF encodingTypeOffers
<1>4. negotiateContentEncoding(lines, encodingTypeOffers) =
        IF best.q = 0 THEN NoEncoding ELSE best.offer
  BY DEF negotiateContentEncoding, EncodingLoop
<1>5. best \in EncodingSoFar(Offered)
  <2> HIDE DEF q, first
  <2> QED BY <1>1, <1>2, <1>3, EncodingLoopType
<1> HIDE DEF best
<1>6. best.offer \in Offered
  BY <1>5 DEF EncodingSoFar
<1>7. \A e \in Offered \cup {NoEncoding} : e # Type("", "gzip")
  <2>1. JSON.sub = "json" /\ Octets.sub = "octet-stream" /\ Proto.sub = "protobuf"
    BY DEF JSON, Octets, Proto, Type
  <2>2. /\ HttpBody.sub = "google.api.HttpBody" /\ Identity.sub = "identity"
        /\ NoEncoding.sub = ""
    BY DEF HttpBody, Identity, NoEncoding, Type
  <2>3. Type("", "gzip").sub = "gzip"
    BY DEF Type
  <2>4. \A e \in Offered \cup {NoEncoding} :
          e.sub \in {"json", "octet-stream", "protobuf", "google.api.HttpBody", "identity", ""}
    BY <2>1, <2>2 DEF Offered
  <2>5. "gzip" \notin {"json", "octet-stream", "protobuf", "google.api.HttpBody", "identity", ""}
    OBVIOUS
  <2> QED BY <2>3, <2>4, <2>5
<1>8. DOMAIN compressors = {Type("", "gzip")}
  BY DEF compressors
<1> QED BY <1>4, <1>6, <1>7, <1>8

-----------------------------------------------------------------------------
(* The encoding of the answer.  As no compressor is ever negotiated, every   *)
(* part of it is plain, and a Content-Encoding that is not the handler's is  *)
(* the one HandlerReturns sets.                                              *)

PlainParts(w) == \A i \in 1 .. Len(w.body) : w.body[i].enc = "none"

SaysPlain(h) == ContentEncoding \in DOMAIN h => h[ContentEncoding] = <<Plain("identity")>>

Negotiated ==
  /\ AcceptIsBest
  /\ encoding = "none" /\ PlainParts(wire)
  /\ ContentEncoding \notin DOMAIN header => SaysPlain(wHeader) /\ SaysPlain(wire.header)

LEMMA NegotiatedSuffices == RInv /\ Negotiated => AnswerIsAsNegotiated
<1> SUFFICES ASSUME RInv, Negotiated PROVE BodyEncodedAsSaid
  BY DEF AnswerIsAsNegotiated, Negotiated
<1> DEFINE said == IF ContentEncoding \in DOMAIN wire.header
                     THEN wire.header[ContentEncoding][1].data ELSE "identity"
<1> SUFFICES ASSUME phase = "done", ContentEncoding \notin DOMAIN header,
                    NEW i \in 1 .. Len(wire.body)
             PROVE  wire.body[i].enc = IF said = "identity" THEN "none" ELSE said
  BY DEF BodyEncodedAsSaid
<1>1. SaysPlain(wire.header)
  BY DEF Negotiated
<1>2. <<Plain("identity")>>[1].data = "identity"
  BY DEF Plain
<1>3. said = "identity"
  BY <1>1, <1>2 DEF SaysPlain
<1>4. wire.body[i].enc = "none"
  BY DEF Negotiated, PlainParts
<1> QED BY <1>3, <1>4

LEMMA PlainWithStatus ==
  ASSUME NEW w, IsWire(w), PlainParts(w), NEW h, NEW n \in Nat
  PROVE  PlainParts(WithStatus(w, h, n))
BY WithStatusFacts DEF PlainParts

LEMMA PlainWritten ==
  ASSUME NEW w, IsWire(w), PlainParts(w), NEW h, NEW p, p.enc = "none"
  PROVE  PlainParts(Written(w, h, p))
<1> DEFINE v == WithStatus(w, h, 200)
           b == Append(w.body, p)
<1>1. IsWire(v) /\ v.body = w.body
  <2>1. 200 \in Nat
    OBVIOUS
  <2> QED BY <2>1, WithStatusFacts
<1>2. Written(w, h, p) = [v EXCEPT !.body = Append(@, p)]
  BY DEF Written
<1> HIDE DEF v
<1>3. [v EXCEPT !.body = b] = [status |-> v.status, header |-> v.header, body |-> b]
  BY <1>1, BodyExcept
<1>4. Written(w, h, p).body = b
  <2>1. Written(w, h, p) = [v EXCEPT !.body = b]
    BY <1>1, <1>2
  <2> QED BY <1>3, <2>1
<1>5. PICK S : w.body \in Seq(S)
  BY DEF IsWire
<1>6. /\ Len(b) = Len(w.body) + 1 /\ Len(w.body) \in Nat
      /\ \A i \in 1 .. Len(w.body) : b[i] = w.body[i]
      /\ b[Len(w.body) + 1] = p
  BY <1>5, AppendedPart
<1> HIDE DEF b
<1>7. ASSUME NEW i \in 1 .. Len(b) PROVE b[i].enc = "none"
  <2>1. i \in 1 .. Len(w.body) \/ i = Len(w.body) + 1
    BY <1>6
  <2> QED BY <1>6, <2>1 DEF PlainParts
<1> QED BY <1>4, <1>7 DEF PlainParts

LEMMA PlainClosed ==
  ASSUME NEW w, IsWire(w), PlainParts(w), NEW h, encoding = "none"
  PROVE  PlainParts(Closed(w, h))
<1>1. 200 \in Nat
  OBVIOUS
<1>2. Closed(w, h) = WithStatus(w, h, 200)
  BY DEF Closed, WriterClosed
<1> QED BY <1>1, <1>2, PlainWithStatus

LEMMA PlainFlushed ==
  ASSUME NEW w, IsWire(w), PlainParts(w), NEW h, encoding = "none"
  PROVE  /\ WriterClosed(w, h) = w /\ IsWire(Flushed(w, h)) /\ PlainParts(Flushed(w, h))
         /\ Flushed(w, h).header \in {w.header, h}
<1>1. 200 \in Nat
  OBVIOUS
<1>2. Flushed(w, h) = WithStatus(w, h, 200)
  BY DEF Flushed
<1>3. WriterClosed(w, h) = w
  BY DEF WriterClosed
<1>4. IsWire(WithStatus(w, h, 200)) /\ WithStatus(w, h, 200).header \in {w.header, h}
  BY <1>1, WithStatusFacts
<1>5. PlainParts(WithStatus(w, h, 200))
  BY <1>1, PlainWithStatus
<1> QED BY <1>2, <1>3, <1>4, <1>5

LEMMA TypeIsNotEncoding == ContentType # ContentEncoding
<1>1. ContentType.name = "content-type" /\ ContentEncoding.name = "content-encoding"
  BY DEF ContentType, ContentEncoding, Key
<1> QED BY <1>1

LEMMA SaysPlainSet ==
  ASSUME NEW h, SaysPlain(h), NEW t
  PROVE  SaysPlain(Set(h, ContentType, t))
BY TypeIsNotEncoding DEF SaysPlain, Set, SetText

LEMMA SaysPlainIdentity ==
  ASSUME NEW h
  PROVE  SaysPlain(Set(h, ContentEncoding, "identity"))
BY SetFacts DEF SaysPlain

LEMMA SaysPlainOutgoing ==
  ASSUME NEW h, SaysPlain(h), NEW md, ContentEncoding \notin DOMAIN md
  PROVE  SaysPlain(setOutgoingHeader(h, md))
<1> DEFINE sent == {k \in DOMAIN md : ~isReservedHeader(k)}
           o == [k \in DOMAIN h \cup sent |-> IF k \in sent THEN Outgoing(k, md[k]) ELSE h[k]]
<1>1. setOutgoingHeader(h, md) = o
  BY DEF setOutgoingHeader
<1>2. ContentEncoding \notin sent
  OBVIOUS
<1> HIDE DEF sent
<1>3. ContentEncoding \in DOMAIN o =>
        ContentEncoding \in DOMAIN h /\ o[ContentEncoding] = h[ContentEncoding]
  BY <1>2
<1> QED BY <1>1, <1>3 DEF SaysPlain

LEMMA SaysPlainFirst ==
  ASSUME SaysPlain(wHeader), ContentEncoding \notin DOMAIN header, NEW t
  PROVE  SaysPlain(FirstHeader(t))
<1> DEFINE h == Set(wHeader, ContentType, t)
<1>1. SaysPlain(h)
  BY SaysPlainSet
<1>2. FirstHeader(t) = IF sentHeader THEN h ELSE setOutgoingHeader(h, header)
  BY DEF FirstHeader
<1> HIDE DEF h
<1> QED BY <1>1, <1>2, SaysPlainOutgoing

(* A write fixes the header it goes with, or leaves the one that is fixed. *)
LEMMA SaysPlainWritten ==
  ASSUME NEW w, IsWire(w), SaysPlain(w.header), NEW h, SaysPlain(h), NEW p
  PROVE  SaysPlain(Written(w, h, p).header)
BY WrittenFacts

LEMMA PartEnc ==
  ASSUME NEW k, NEW t, NEW e
  PROVE  Part(k, t, e).enc = e
BY DEF Part

-----------------------------------------------------------------------------
LEMMA NegotiatedError ==
  ASSUME RInv, Negotiated, NEW c \in Nat \ {0}, NEW h, encError(c, h),
         ContentEncoding \notin DOMAIN header => SaysPlain(h)
  PROVE  /\ phase' \in {"done", "panic"} /\ PlainParts(wire')
         /\ ContentEncoding \notin DOMAIN header => SaysPlain(wHeader') /\ SaysPlain(wire'.header)
<1>1. /\ IsWire(wire) /\ PlainParts(wire) /\ encoding = "none"
      /\ ContentEncoding \notin DOMAIN header => SaysPlain(wHeader) /\ SaysPlain(wire.header)
  BY ReplyFacts DEF Negotiated
<1> DEFINE g == Set(h, ContentType, ErrorType)
           n == HTTPStatusCode(c)
<1>g. ContentEncoding \notin DOMAIN header => SaysPlain(g)
  BY SaysPlainSet
<1>n. n \in Nat
  BY StatusCodes
<1>w. wHeader' = g /\ phase' \in {"done", "panic"}
  BY DEF encError
<1>2. CASE n = 0
  <2>1. wire' = WriterClosed(wire, g)
    BY <1>2 DEF encError
  <2> HIDE DEF g
  <2>2. wire' = wire
    BY <1>1, <2>1, PlainFlushed
  <2> QED BY <1>1, <1>g, <1>w, <2>2
<1>4. CASE n # 0 /\ CannotEncode
  <2>1. wire' = WriterClosed(WithStatus(wire, g, n), g)
    BY <1>4 DEF encError
  <2> DEFINE u == WithStatus(wire, g, n)
  <2> HIDE DEF g, n
  <2>2. IsWire(u) /\ u.header \in {wire.header, g} /\ PlainParts(u)
    BY <1>1, <1>n, WithStatusFacts, PlainWithStatus
  <2>3. wire' = WriterClosed(u, g)
    BY <2>1
  <2> HIDE DEF u
  <2>4. wire' = u
    BY <1>1, <2>2, <2>3, PlainFlushed
  <2> QED BY <1>1, <1>g, <1>w, <2>2, <2>4
<1>3. CASE n # 0 /\ ~CannotEncode
  <2> DEFINE p == Part("error", ErrorType, "none")
             u == WithStatus(wire, g, n)
             v == Written(u, g, p)
             z == Closed(v, g)
  <2>1. wire' = z /\ wHeader' = g /\ phase' = "done"
    BY <1>3 DEF encError
  <2>2. n \in Nat
    BY <1>n
  <2>3. ContentEncoding \notin DOMAIN header => SaysPlain(g)
    BY SaysPlainSet
  <2>4. p.enc = "none"
    BY PartEnc
  <2> HIDE DEF g, n, p
  <2>5. IsWire(u) /\ u.header \in {wire.header, g} /\ PlainParts(u)
    BY <1>1, <2>2, WithStatusFacts, PlainWithStatus
  <2> HIDE DEF u
  <2>6. IsWire(v) /\ v.header \in {u.header, g} /\ PlainParts(v)
    BY <2>4, <2>5, WrittenFacts, PlainWritten
  <2> HIDE DEF v
  <2>7. z.header \in {v.header, g} /\ PlainParts(z)
    BY <1>1, <2>6, ClosedFacts, PlainClosed
  <2> HIDE DEF z
  <2>8. z.header \in {wire.header, g}
    BY <2>5, <2>6, <2>7
  <2> QED BY <1>1, <2>1, <2>3, <2>7, <2>8
<1> QED BY <1>2, <1>3, <1>4

LEMMA NegotiatedRefuse ==
  ASSUME RInv, Negotiated, NEW c \in RefuseCodes, Refuse(c)
  PROVE  Negotiated'
<1>1. /\ encError(c, wHeader) /\ rep' = rep /\ accept' = accept /\ encoding' = encoding
      /\ header' = header
  BY DEF Refuse
<1>2. c \in Nat \ {0}
  BY DEF RefuseCodes
<1>3. ContentEncoding \notin DOMAIN header => SaysPlain(wHeader)
  BY DEF Negotiated
<1>4. /\ phase' \in {"done", "panic"} /\ PlainParts(wire')
      /\ ContentEncoding \notin DOMAIN header => SaysPlain(wHeader') /\ SaysPlain(wire'.header)
  BY <1>1, <1>2, <1>3, NegotiatedError
<1> QED BY <1>1, <1>4 DEF Negotiated, AcceptIsBest

LEMMA AcceptFound ==
  ASSUME RInv
  PROVE  negotiateContentType(rep.accept, contentTypeOffers, rep.contentType) =
           BestOf(rep.accept, contentTypeOffers, rep.contentType)
<1> DEFINE O == Offered \cup {rep.contentType}
           lines == rep.accept
           d == rep.contentType
           os == contentTypeOffers
<1>1. lines \in Seq(Seq(AcceptItem))
  BY ReplyFacts, ReplyTypes
<1>2. d \in O /\ Offered \subseteq O
  OBVIOUS
<1> HIDE DEF O
<1>3. os \in Seq(O)
  BY <1>2, OffersOffered
<1> HIDE DEF lines, d, os
<1>4. negotiateContentType(lines, os, d) = BestOf(lines, os, d)
  BY <1>1, <1>2, <1>3, FindsBest
<1> QED BY <1>4 DEF lines, d, os

LEMMA NegotiatedCall ==
  ASSUME RInv, Negotiated, CallHandler
  PROVE  Negotiated'
<1>1. /\ accept' = negotiateContentType(rep.accept, contentTypeOffers, rep.contentType)
      /\ rep' = rep /\ header' = header /\ wire' = wire
  BY DEF CallHandler
<1>2. rep.acceptEncoding \in Seq(Seq(AcceptItem))
  BY ReplyFacts, ReplyTypes
<1>3. negotiateContentEncoding(rep.acceptEncoding, encodingTypeOffers) \notin DOMAIN compressors
  <2> DEFINE lines == rep.acceptEncoding
  <2>1. lines \in Seq(Seq(AcceptItem))
    BY <1>2
  <2> HIDE DEF lines
  <2>2. negotiateContentEncoding(lines, encodingTypeOffers) \notin DOMAIN compressors
    BY <2>1, NeverCompressed
  <2> QED BY <2>2 DEF lines
<1>4. encoding' = encoding /\ wHeader' = wHeader
  BY <1>3 DEF CallHandler
<1>5. accept' = BestOf(rep.accept, contentTypeOffers, rep.contentType)
  BY <1>1, AcceptFound
<1> QED BY <1>1, <1>4, <1>5 DEF Negotiated, AcceptIsBest

(* The steps of the handler: what it negotiated stays. *)
LEMMA NegotiatedKept ==
  ASSUME Negotiated, phase' = phase \/ phase' \in {"done", "panic"},
         rep' = rep, accept' = accept, encoding' = encoding,
         PlainParts(wire'),
         ContentEncoding \notin DOMAIN header' => SaysPlain(wHeader') /\ SaysPlain(wire'.header)
  PROVE  Negotiated'
BY DEF Negotiated, AcceptIsBest

LEMMA NegotiatedSetHeader ==
  ASSUME RInv, Negotiated, NEW md, SetHeader(md) \/ SendHeader(md)
  PROVE  Negotiated'
<1>1. /\ phase' = phase /\ rep' = rep /\ accept' = accept /\ encoding' = encoding /\ wire' = wire
      /\ header' = Join(header, md)
      /\ wHeader' = wHeader \/ wHeader' = setOutgoingHeader(wHeader, header')
  BY DEF SetHeader, SendHeader
<1>2. DOMAIN header \subseteq DOMAIN header'
  BY <1>1 DEF Join
<1>3. ASSUME ContentEncoding \notin DOMAIN header'
      PROVE  SaysPlain(wHeader') /\ SaysPlain(wire'.header)
  <2>1. SaysPlain(wHeader) /\ SaysPlain(wire.header)
    BY <1>2, <1>3 DEF Negotiated
  <2> DEFINE md1 == header'
  <2>2. ContentEncoding \notin DOMAIN md1 /\
          (wHeader' = wHeader \/ wHeader' = setOutgoingHeader(wHeader, md1))
    BY <1>1, <1>3
  <2> HIDE DEF md1
  <2> QED BY <1>1, <2>1, <2>2, SaysPlainOutgoing
<1>4. PlainParts(wire')
  BY <1>1 DEF Negotiated
<1> QED BY <1>1, <1>3, <1>4, NegotiatedKept

LEMMA NegotiatedWrite ==
  ASSUME RInv, Negotiated, NEW codec, NEW t, NEW n, writeMsg(codec, t, n),
         header' = header
  PROVE  /\ PlainParts(wire')
         /\ ContentEncoding \notin DOMAIN header' => SaysPlain(wHeader') /\ SaysPlain(wire'.header)
<1> DEFINE h == IF sendCount = 0 THEN FirstHeader(t) ELSE wHeader
           s == Part("size", t, encoding)
           p == Part("message", t, encoding)
           size == Written(wire, h, s)
           w == IF rep.serverStream /\ codec = "proto" THEN size ELSE wire
<1>1. wHeader' = h /\ (wire' = Flushed(wire, h) \/ wire' = Written(w, h, p))
  BY DEF writeMsg
<1>2. /\ IsWire(wire) /\ PlainParts(wire) /\ encoding = "none"
      /\ ContentEncoding \notin DOMAIN header => SaysPlain(wHeader) /\ SaysPlain(wire.header)
  BY ReplyFacts DEF Negotiated
<1>3. s.enc = "none" /\ p.enc = "none"
  BY <1>2, PartEnc
<1>4. ContentEncoding \notin DOMAIN header => SaysPlain(h)
  BY <1>2, SaysPlainFirst
<1> HIDE DEF h, s, p
<1>5. IsWire(size) /\ PlainParts(size)
  BY <1>2, <1>3, WrittenFacts, PlainWritten
<1>6. ContentEncoding \notin DOMAIN header => SaysPlain(size.header)
  BY <1>2, <1>4, SaysPlainWritten
<1> HIDE DEF size
<1>7. /\ IsWire(w) /\ PlainParts(w)
      /\ ContentEncoding \notin DOMAIN header => SaysPlain(w.header)
  BY <1>2, <1>5, <1>6
<1> HIDE DEF w
<1>8. PlainParts(Written(w, h, p))
  BY <1>3, <1>7, PlainWritten
<1>9. ContentEncoding \notin DOMAIN header => SaysPlain(Written(w, h, p).header)
  BY <1>4, <1>7, SaysPlainWritten
<1>10. PlainParts(Flushed(wire, h)) /\ Flushed(wire, h).header \in {wire.header, h}
  BY <1>2, PlainFlushed
<1> QED BY <1>1, <1>2, <1>4, <1>8, <1>9, <1>10

LEMMA NegotiatedSendMsg ==
  ASSUME RInv, Negotiated, NEW n, SendMsg(n)
  PROVE  Negotiated'
<1>1. /\ rep' = rep /\ accept' = accept /\ encoding' = encoding /\ header' = header
      /\ \/ /\ phase' \in {phase, "panic"} /\ wHeader' = wHeader
            /\ \/ wire' = Flushed(wire, wHeader)
               \/ wire' = WriterClosed(Flushed(wire, wHeader), wHeader)
         \/ writeMsg(codecs[accept], accept, n) /\ phase' = phase
  BY DEF SendMsg
<1>2. CASE /\ phase' \in {phase, "panic"} /\ wHeader' = wHeader
           /\ \/ wire' = Flushed(wire, wHeader)
              \/ wire' = WriterClosed(Flushed(wire, wHeader), wHeader)
  <2> DEFINE u == Flushed(wire, wHeader)
  <2>1. /\ IsWire(wire) /\ PlainParts(wire) /\ encoding = "none"
        /\ ContentEncoding \notin DOMAIN header => SaysPlain(wHeader) /\ SaysPlain(wire.header)
    BY ReplyFacts DEF Negotiated
  <2>2. IsWire(u) /\ PlainParts(u) /\ u.header \in {wire.header, wHeader}
    BY <2>1, PlainFlushed
  <2>3. wire' = u \/ wire' = WriterClosed(u, wHeader)
    BY <1>2
  <2> HIDE DEF u
  <2>4. wire' = u
    BY <2>1, <2>2, <2>3, PlainFlushed
  <2> QED BY <1>1, <1>2, <2>1, <2>2, <2>4, NegotiatedKept
<1>3. CASE writeMsg(codecs[accept], accept, n) /\ phase' = phase
  BY <1>1, <1>3, NegotiatedWrite, NegotiatedKept
<1> QED BY <1>1, <1>2, <1>3

LEMMA NegotiatedSendHttpBody ==
  ASSUME RInv, Negotiated, NEW t, NEW n, SendHttpBody(t, n)
  PROVE  Negotiated'
<1>1. /\ rep' = rep /\ accept' = accept /\ encoding' = encoding /\ header' = header
      /\ phase' = phase /\ writeMsg("body", t, n)
  BY DEF SendHttpBody
<1> QED BY <1>1, NegotiatedWrite, NegotiatedKept

LEMMA NegotiatedWriter ==
  ASSUME RInv, Negotiated, NEW t, AsHTTPBodyWriter(t)
  PROVE  Negotiated'
<1>1. /\ rep' = rep /\ accept' = accept /\ encoding' = encoding /\ header' = header
      /\ phase' = phase /\ wire' = wire /\ wHeader' = FirstHeader(t)
  BY DEF AsHTTPBodyWriter
<1>2. ContentEncoding \notin DOMAIN header => SaysPlain(FirstHeader(t))
  BY SaysPlainFirst DEF Negotiated
<1> QED BY <1>1, <1>2 DEF Negotiated, AcceptIsBest

LEMMA NegotiatedWriteRaw ==
  ASSUME RInv, Negotiated, WriteRaw
  PROVE  Negotiated'
<1> DEFINE p == Part("raw", wHeader[ContentType][1].data, encoding)
<1>1. /\ rep' = rep /\ accept' = accept /\ encoding' = encoding /\ header' = header
      /\ phase' = phase /\ wHeader' = wHeader /\ wire' = Written(wire, wHeader, p)
  BY DEF WriteRaw
<1>2. /\ IsWire(wire) /\ PlainParts(wire) /\ encoding = "none"
      /\ ContentEncoding \notin DOMAIN header => SaysPlain(wHeader) /\ SaysPlain(wire.header)
  BY ReplyFacts DEF Negotiated
<1>3. p.enc = "none"
  BY <1>2, PartEnc
<1> HIDE DEF p
<1>4. PlainParts(wire')
  BY <1>1, <1>2, <1>3, PlainWritten
<1>5. ContentEncoding \notin DOMAIN header => SaysPlain(wire'.header)
  BY <1>1, <1>2, SaysPlainWritten
<1> QED BY <1>1, <1>2, <1>4, <1>5, NegotiatedKept

LEMMA NegotiatedReturns ==
  ASSUME RInv, Negotiated, NEW c \in Nat, HandlerReturns(c)
  PROVE  Negotiated'
<1> DEFINE h == IF sentHeader THEN wHeader ELSE Set(wHeader, ContentEncoding, "identity")
<1>1. /\ rep' = rep /\ accept' = accept /\ encoding' = encoding /\ header' = header
      /\ c = 0 => phase' = "done" /\ wire' = Closed(wire, wHeader) /\ wHeader' = wHeader
      /\ c # 0 => encError(c, h)
  BY DEF HandlerReturns
<1>2. /\ IsWire(wire) /\ PlainParts(wire) /\ encoding = "none"
      /\ ContentEncoding \notin DOMAIN header => SaysPlain(wHeader) /\ SaysPlain(wire.header)
  BY ReplyFacts DEF Negotiated
<1>3. ContentEncoding \notin DOMAIN header => SaysPlain(h)
  BY <1>2, SaysPlainIdentity
<1> HIDE DEF h
<1>4. CASE c = 0
  <2>1. PlainParts(wire')
    BY <1>1, <1>2, <1>4, PlainClosed
  <2>2. wire'.header \in {wire.header, wHeader}
    BY <1>1, <1>2, <1>4, ClosedFacts
  <2> QED BY <1>1, <1>2, <1>4, <2>1, <2>2, NegotiatedKept
<1>5. CASE c # 0
  <2>1. /\ phase' \in {"done", "panic"} /\ PlainParts(wire')
        /\ ContentEncoding \notin DOMAIN header => SaysPlain(wHeader') /\ SaysPlain(wire'.header)
    BY <1>1, <1>3, <1>5, NegotiatedError
  <2> QED BY <1>1, <2>1, NegotiatedKept
<1> QED BY <1>4, <1>5

LEMMA NegotiatedInit == ReplyInit => Negotiated
<1> SUFFICES ASSUME ReplyInit PROVE Negotiated
  OBVIOUS
<1>1. /\ phase = "start" /\ encoding = "none" /\ wHeader = NoMD
      /\ wire = [status |-> 0, header |-> NoMD, body |-> <<>>]
  BY DEF ReplyInit
<1>2. SaysPlain(NoMD)
  BY DEF SaysPlain, NoMD
<1>3. wire.header = NoMD /\ wire.body = <<>>
  BY <1>1
<1>4. PlainParts(wire)
  BY <1>3 DEF PlainParts
<1> QED BY <1>1, <1>2, <1>3, <1>4 DEF Negotiated, AcceptIsBest

LEMMA NegotiatedStep == RInv /\ Negotiated /\ [ReplyNext]_allVars => Negotiated'
<1> SUFFICES ASSUME RInv, Negotiated, [ReplyNext]_allVars PROVE Negotiated'
  OBVIOUS
<1>1. ASSUME NEW c \in RefuseCodes, Refuse(c) PROVE Negotiated'
  BY <1>1, NegotiatedRefuse
<1>2. CASE CallHandler
  BY <1>2, NegotiatedCall
<1>3. ASSUME NEW md \in MDs, SetHeader(md) \/ SendHeader(md) PROVE Negotiated'
  BY <1>3, NegotiatedSetHeader
<1>4. ASSUME NEW n \in {SendLimit, SendLimit + 1}, SendMsg(n) PROVE Negotiated'
  BY <1>4, NegotiatedSendMsg
<1>5. ASSUME NEW n \in {SendLimit, SendLimit + 1}, NEW t \in BodyTypes, SendHttpBody(t, n)
      PROVE  Negotiated'
  BY <1>5, NegotiatedSendHttpBody
<1>6. ASSUME NEW t \in BodyTypes, AsHTTPBodyWriter(t) PROVE Negotiated'
  BY <1>6, NegotiatedWriter
<1>7. CASE WriteRaw
  BY <1>7, NegotiatedWriteRaw
<1>8. ASSUME NEW c \in Codes \cup {0, 2, 13}, HandlerReturns(c) PROVE Negotiated'
  <2>1. c \in Nat
    BY ReplyTypes
  <2> QED BY <1>8, <2>1, NegotiatedReturns
<1>9. CASE UNCHANGED <<rep, phase, accept, encoding, header, wHeader, wire>>
  BY <1>9 DEF Negotiated, AcceptIsBest, PlainParts
<1>10. CASE \/ Receive \/ AsHTTPBodyReader
            \/ \E k \in 0 .. Len(rest), eof \in BOOLEAN : ReadRaw(k, eof)
            \/ UNCHANGED allVars
  <2>1. UNCHANGED <<rep, phase, accept, encoding, header, wHeader, wire>>
    BY <1>10 DEF Receive, replyVars, AsHTTPBodyReader, TakesReader, ParamsRefused,
             ReadRaw, allVars
  <2> QED BY <1>9, <2>1
<1> QED BY <1>1, <1>2, <1>3, <1>4, <1>5, <1>6, <1>7, <1>8, <1>10 DEF ReplyNext, Handler

(* Whatever the Accept headers are, the nested loops of negotiateContentType *)
(* find the offer its comment describes, and no part of the answer is in     *)
(* another encoding than the header says, unless the handler sets one.       *)
THEOREM AnswersAsNegotiated == ReplySpec => []AnswerIsAsNegotiated
<1>1. ReplyInit => Negotiated
  BY NegotiatedInit
<1>2. RInv /\ Negotiated /\ [ReplyNext]_allVars => Negotiated'
  BY NegotiatedStep
<1>3. RInv /\ Negotiated => AnswerIsAsNegotiated
  BY NegotiatedSuffices
<1> QED BY <1>1, <1>2, <1>3, ReplyInvariant, PTL DEF ReplySpec
=============================================================================
