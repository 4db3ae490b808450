--------------------------- MODULE StreamWSProofs ---------------------------
(***************************************************************************)
(* Proofs about a websocket call (StreamWS), for any frames of the client, *)
(* any codes of handlers and any number of messages.                       *)
(***************************************************************************)
EXTENDS StreamWS, FiniteSetTheorems, TLAPS

Frames == [kind : {"data", "bad", "ping", "close", "lost"}, n : Nat]

Outcome == [n : Nat, is : {"params", "plain", "bad", "refused"}]

Answers == [kind : {"message", "pong", "echo", "close"}, n : Nat]

Types ==
  /\ hasBody \in BOOLEAN /\ script \in Seq(Frames)
  /\ pos \in 0 .. Len(script) /\ taken \in 0 .. pos
  /\ conn \in {"open", "lost", "closed"}
  /\ wspc \in {"start", "refused", "handler", "read", "done", "panic"}
  /\ sentHeader \in BOOLEAN
  /\ recvN \in Nat /\ sendN \in 0 .. MaxCalls
  /\ results \in Seq(Outcome) /\ over \in BOOLEAN
  /\ out \in Seq(Answers) /\ herr \in Nat

(* recvN counts the texts, the call under way and the one that found the     *)
(* connection over; nobody reads after that.                                 *)
Counted ==
  /\ recvN = Len(results) + (IF wspc = "read" \/ over THEN 1 ELSE 0)
  /\ wspc = "read" => ~over

(* The connection is closed by the end of the call and lost by the client's  *)
(* last frame only; until the call ends no close frame was written.          *)
Ends ==
  /\ conn = "closed" <=> wspc \in {"done", "panic"}
  /\ conn = "open" => pos = 0 \/ script[pos].kind # "lost"
  /\ conn = "lost" => pos # 0 /\ script[pos].kind = "lost"
  /\ wspc \notin {"done", "panic"} => \A i \in 1 .. Len(out) : out[i].kind # "close"

IInv == Types /\ Counted /\ ParamsOnFirst /\ Ends /\ MessagesInOrder /\ ClosedTruly

-----------------------------------------------------------------------------
(* Lemmas about the operators. *)

(* The table has one normal closure, that of code 0, and no 0; the code      *)
(* after its last one is the only one that panics.                           *)
LEMMA WSCodes ==
  ASSUME NEW c \in Nat
  PROVE  /\ WSStatusCode(c) \in Nat
         /\ WSStatusCode(c) = 0 <=> c = 17
         /\ c # 0 => WSStatusCode(c) \notin {1000, 1005}
<1>1. Len(codeToWSStatus) = 17
  BY DEF codeToWSStatus
<1>2. CASE c >= 17
  BY <1>1, <1>2 DEF WSStatusCode
<1>3. CASE c < 17
  <2>1. WSStatusCode(c) = codeToWSStatus[c + 1]
    BY <1>1, <1>3 DEF WSStatusCode
  <2>2. c \in {0, 1, 2, 3, 4, 5, 6, 7, 8, 9, 10, 11, 12, 13, 14, 15, 16}
    BY <1>3
  <2> QED BY <2>1, <2>2 DEF codeToWSStatus
<1> QED BY <1>2, <1>3

(* The count of texts grows with the text it meets. *)
LEMMA TextsStep ==
  /\ Texts(0) = 0
  /\ \A i \in Nat :
       /\ IsFiniteSet({j \in 1 .. i : script[j].kind \in {"data", "bad"}})
       /\ Texts(i) \in Nat
       /\ Texts(i + 1)
            = Texts(i) + (IF script[i + 1].kind \in {"data", "bad"} THEN 1 ELSE 0)
<1> DEFINE S(i) == {j \in 1 .. i : script[j].kind \in {"data", "bad"}}
<1>1. S(0) = {}
  OBVIOUS
<1>2. ASSUME NEW i \in Nat
      PROVE  IsFiniteSet(S(i)) /\ Cardinality(S(i)) \in Nat
  <2>1. IsFiniteSet(1 .. i)
    BY FS_Interval
  <2>2. S(i) \subseteq 1 .. i
    OBVIOUS
  <2> QED BY <2>1, <2>2, FS_Subset, FS_CardinalityType
<1>3. ASSUME NEW i \in Nat
      PROVE  Cardinality(S(i + 1))
               = Cardinality(S(i)) + (IF script[i + 1].kind \in {"data", "bad"} THEN 1 ELSE 0)
  <2>1. CASE script[i + 1].kind \in {"data", "bad"}
    <3>1. S(i + 1) = S(i) \cup {i + 1} /\ i + 1 \notin S(i)
      BY <2>1
    <3> HIDE DEF S
    <3> QED BY <1>2, <2>1, <3>1, FS_AddElement
  <2>2. CASE script[i + 1].kind \notin {"data", "bad"}
    <3>1. S(i + 1) = S(i)
      BY <2>2
    <3> HIDE DEF S
    <3> QED BY <1>2, <2>2, <3>1
  <2> QED BY <2>1, <2>2
<1> QED BY <1>1, <1>2, <1>3, FS_EmptySet DEF Texts

(* A text is counted from its own frame on. *)
LEMMA TextsBound ==
  ASSUME NEW j \in Nat, NEW i \in 1 .. j, script[i].kind \in {"data", "bad"}
  PROVE  Texts(i) \in 1 .. Texts(j)
<1> DEFINE S(k) == {x \in 1 .. k : script[x].kind \in {"data", "bad"}}
<1>1. IsFiniteSet(S(i)) /\ IsFiniteSet(S(j)) /\ Texts(i) \in Nat /\ Texts(j) \in Nat
  <2>1. i \in Nat
    OBVIOUS
  <2>2. \A k \in Nat : IsFiniteSet(S(k)) /\ Texts(k) \in Nat
    BY TextsStep
  <2> HIDE DEF S
  <2> QED BY <2>1, <2>2
<1>2. S(i) \subseteq S(j) /\ i \in S(i)
  OBVIOUS
<1>3. Texts(i) = Cardinality(S(i)) /\ Texts(j) = Cardinality(S(j))
  BY DEF Texts
<1> HIDE DEF S
<1>4. Cardinality(S(i)) <= Cardinality(S(j))
  BY <1>1, <1>2, FS_Subset
<1>5. Cardinality(S(i)) # 0
  BY <1>1, <1>2, FS_EmptySet
<1> QED BY <1>1, <1>3, <1>4, <1>5

-----------------------------------------------------------------------------
(* The inductive invariant. *)

LEMMA InitIInv == Init => IInv
<1> SUFFICES ASSUME Init PROVE IInv
  OBVIOUS
<1>1. Types
  <2>1. hasBody \in BOOLEAN /\ script \in Seq(Frames) /\ MaxCalls \in Nat
    BY ScriptTypes DEF Init, Frames
  <2>2. Len(script) \in Nat
    BY <2>1
  <2>3. pos \in 0 .. Len(script) /\ taken \in 0 .. pos /\ sendN \in 0 .. MaxCalls
    BY <2>1, <2>2 DEF Init
  <2>4. results \in Seq(Outcome) /\ out \in Seq(Answers)
    BY DEF Init
  <2>6. over \in BOOLEAN
    BY DEF Init
  <2>5. /\ sentHeader \in BOOLEAN /\ recvN \in Nat /\ herr \in Nat
        /\ conn = "open" /\ wspc = "start"
    BY DEF Init
  <2> QED BY <2>1, <2>3, <2>4, <2>5, <2>6 DEF Types
<1>2. Counted /\ ParamsOnFirst /\ Ends /\ ClosedTruly
  BY DEF Init, Counted, ParamsOnFirst, Ends, ClosedTruly, ClosedOnce, CloseCodeTrue
<1>3. MessagesInOrder
  BY TextsStep DEF Init, MessagesInOrder
<1> QED BY <1>1, <1>2, <1>3 DEF IInv

(* What the steps that do not read leave alone. *)
LEMMA SameMessages ==
  ASSUME MessagesInOrder, ParamsOnFirst, UNCHANGED <<hasBody, script, taken, results>>
  PROVE  MessagesInOrder' /\ ParamsOnFirst'
BY DEF MessagesInOrder, ParamsOnFirst, Texts

(* What is written before the call ends is no close frame. *)
LEMMA StillOpen ==
  ASSUME Types, Ends, wspc \in {"handler", "read"}, wspc' \in {"handler", "read"},
         NEW f \in Answers, f.kind # "close", out' \in {out, Append(out, f)},
         UNCHANGED <<script, pos, conn>>
  PROVE  Ends' /\ ClosedTruly' /\ out' \in Seq(Answers)
<1>1. out' \in Seq(Answers) /\ \A i \in 1 .. Len(out') : out'[i].kind # "close"
  <2>1. out \in Seq(Answers) /\ \A i \in 1 .. Len(out) : out[i].kind # "close"
    BY DEF Types, Ends
  <2>2. CASE out' = out
    BY <2>1, <2>2
  <2>3. CASE out' = Append(out, f)
    <3>1. out' \in Seq(Answers) /\ Len(out') = Len(out) + 1 /\ Len(out) \in Nat
      BY <2>1, <2>3
    <3>2. \A i \in 1 .. Len(out) + 1 : out'[i] = IF i = Len(out) + 1 THEN f ELSE out[i]
      BY <2>1, <2>3
    <3> QED BY <2>1, <3>1, <3>2
  <2> QED BY <2>2, <2>3
<1>2. Ends'
  BY <1>1 DEF Ends
<1>3. ClosedTruly'
  BY <1>1 DEF ClosedTruly, ClosedOnce, CloseCodeTrue
<1> QED BY <1>1, <1>2, <1>3

LEMMA ClientSendsStep == IInv /\ ClientSends => IInv'
<1> SUFFICES ASSUME IInv, ClientSends PROVE IInv'
  OBVIOUS
<1> USE DEF ClientSends
<1>1. Types /\ Counted /\ ParamsOnFirst /\ Ends /\ MessagesInOrder /\ ClosedTruly
  BY DEF IInv
<1>2. Types'
  BY <1>1 DEF Types
<1>3. Counted'
  BY <1>1 DEF Counted
<1>4. Ends'
  BY <1>1 DEF Ends, Types
<1>5. MessagesInOrder' /\ ParamsOnFirst'
  BY <1>1, SameMessages
<1>6. wspc \notin {"done", "panic"}
  BY <1>1 DEF Ends
<1>7. ClosedTruly'
  BY <1>1, <1>6 DEF ClosedTruly, ClosedOnce, CloseCodeTrue, Ends
<1> QED BY <1>2, <1>3, <1>4, <1>5, <1>7 DEF IInv

LEMMA UpgradeStep == IInv /\ Upgrade => IInv'
<1> SUFFICES ASSUME IInv, Upgrade PROVE IInv'
  OBVIOUS
<1> USE DEF Upgrade
<1>1. Types /\ Counted /\ ParamsOnFirst /\ Ends /\ MessagesInOrder /\ ClosedTruly
  BY DEF IInv
<1>2. Types' /\ Counted' /\ Ends'
  BY <1>1 DEF Types, Counted, Ends
<1>3. MessagesInOrder' /\ ParamsOnFirst'
  BY <1>1, SameMessages
<1>4. ClosedTruly'
  BY <1>1 DEF ClosedTruly, ClosedOnce, CloseCodeTrue, Ends
<1> QED BY <1>2, <1>3, <1>4 DEF IInv

(* SetHeader, SendHeader and SetTrailer: metadata only. *)
LEMMA MetadataStep ==
  ASSUME IInv, sentHeader' \in BOOLEAN,
         UNCHANGED <<hasBody, script, pos, taken, conn, wspc, recvN, sendN, results, over,
                     out, herr>>
  PROVE  IInv'
<1>1. Types' /\ Counted' /\ Ends'
  BY DEF IInv, Types, Counted, Ends
<1>2. MessagesInOrder' /\ ParamsOnFirst'
  BY SameMessages DEF IInv
<1>3. ClosedTruly'
  BY DEF IInv, ClosedTruly, ClosedOnce, CloseCodeTrue
<1> QED BY <1>1, <1>2, <1>3 DEF IInv

LEMMA SendMsgStep == IInv /\ SendMsg => IInv'
<1> SUFFICES ASSUME IInv, SendMsg PROVE IInv'
  OBVIOUS
<1> DEFINE f == [kind |-> "message", n |-> sendN + 1]
<1>1. Types /\ Counted /\ ParamsOnFirst /\ Ends /\ MessagesInOrder /\ ClosedTruly
  BY DEF IInv
<1>2. f \in Answers /\ f.kind # "close"
  BY <1>1 DEF Types, Answers
<1>3. out' \in {out, Append(out, f)}
  BY DEF SendMsg
<1>4. wspc = "handler" /\ UNCHANGED <<hasBody, script, pos, taken, conn, wspc, results, over>>
  BY DEF SendMsg
<1> HIDE DEF f
<1>5. Ends' /\ ClosedTruly' /\ out' \in Seq(Answers)
  BY <1>1, <1>2, <1>3, <1>4, StillOpen
<1>6. Types'
  BY <1>1, <1>5, ScriptTypes DEF Types, SendMsg
<1>7. Counted'
  BY <1>1 DEF Counted, SendMsg
<1>8. MessagesInOrder' /\ ParamsOnFirst'
  BY <1>1, <1>4, SameMessages
<1> QED BY <1>5, <1>6, <1>7, <1>8 DEF IInv

(* RecvMsg returns with a text. *)
LEMMA ReturnStep ==
  ASSUME Types, ParamsOnFirst, NEW n \in Nat, NEW json \in BOOLEAN, NEW count \in Nat,
         count = Len(results) + 1, ReturnMessage(n, json, count)
  PROVE  /\ results' \in Seq(Outcome) /\ Len(results') = Len(results) + 1 /\ ParamsOnFirst'
         /\ results'[Len(results) + 1].n = n
         /\ results'[Len(results) + 1].is = "bad" <=> ~json
         /\ \A k \in 1 .. Len(results) : results'[k] = results[k]
<1>1. PICK r \in Outcomes(json, count) : results' = Append(results, [n |-> n, is |-> r])
  BY DEF ReturnMessage
<1> DEFINE p == [n |-> n, is |-> r]
<1>2. /\ r \in {"params", "plain", "bad", "refused"} /\ (r = "bad" <=> ~json)
      /\ r \in IF count = 1 THEN {"params", "refused", "bad"} ELSE {"plain", "bad"}
  BY DEF Outcomes
<1>3. p \in Outcome /\ p.n = n /\ p.is = r
  BY <1>2 DEF Outcome
<1>4. results \in Seq(Outcome)
  BY DEF Types
<1>5. results' = Append(results, p)
  BY <1>1
<1> HIDE DEF p
<1> DEFINE q == results'
<1>6. /\ q \in Seq(Outcome) /\ Len(q) = Len(results) + 1 /\ Len(results) \in Nat
      /\ q[Len(results) + 1] = p /\ \A k \in 1 .. Len(results) : q[k] = results[k]
  BY <1>3, <1>4, <1>5
<1> HIDE DEF q
<1>7. \A i \in 1 .. Len(q) :
        q[i].is \in IF i = 1 THEN {"params", "refused", "bad"} ELSE {"plain", "bad"}
  <2> SUFFICES ASSUME NEW i \in 1 .. Len(q)
               PROVE  q[i].is \in IF i = 1 THEN {"params", "refused", "bad"} ELSE {"plain", "bad"}
    OBVIOUS
  <2>1. CASE i = Len(results) + 1
    <3>1. q[i].is = r /\ i = count
      BY <1>3, <1>6, <2>1
    <3> QED BY <1>2, <3>1
  <2>2. CASE i # Len(results) + 1
    <3>1. i \in 1 .. Len(results)
      BY <1>6, <2>2
    <3> QED BY <1>6, <3>1 DEF ParamsOnFirst
  <2> QED BY <2>1, <2>2
<1>8. ParamsOnFirst'
  BY <1>7 DEF ParamsOnFirst, q
<1> QED BY <1>2, <1>3, <1>6, <1>8 DEF q

LEMMA RecvMsgStep == IInv /\ RecvMsg => IInv'
<1> SUFFICES ASSUME IInv, RecvMsg PROVE IInv'
  OBVIOUS
<1>1. Types /\ Counted /\ ParamsOnFirst /\ Ends /\ MessagesInOrder /\ ClosedTruly
  BY DEF IInv
<1>2. /\ wspc = "handler" /\ wspc' \in {"handler", "read"} /\ ~over /\ recvN' = recvN + 1
      /\ UNCHANGED <<hasBody, script, pos, taken, conn, over, out, sentHeader, sendN, herr>>
  BY DEF RecvMsg
<1>3. Ends' /\ ClosedTruly'
  <2> DEFINE f == [kind |-> "pong", n |-> 0]
  <2>1. f \in Answers /\ f.kind # "close"
    BY DEF Answers
  <2> HIDE DEF f
  <2> QED BY <1>1, <1>2, <2>1, StillOpen
<1>4. recvN \in Nat /\ recvN = Len(results) /\ results \in Seq(Outcome)
  BY <1>1, <1>2 DEF Types, Counted
<1>5. CASE hasBody
  <2>1. wspc' = "read" /\ results' = results
    BY <1>5 DEF RecvMsg
  <2>2. Types' /\ Counted'
    BY <1>1, <1>2, <1>4, <2>1 DEF Types, Counted
  <2>3. MessagesInOrder' /\ ParamsOnFirst'
    BY <1>1, <1>2, <2>1, SameMessages
  <2> QED BY <1>3, <2>2, <2>3 DEF IInv
<1>6. CASE ~hasBody
  <2>1. wspc' = "handler" /\ ReturnMessage(0, TRUE, recvN')
    BY <1>2, <1>6 DEF RecvMsg
  <2>2. recvN' = Len(results) + 1 /\ recvN' \in Nat
    BY <1>2, <1>4
  <2>3. results' \in Seq(Outcome) /\ Len(results') = Len(results) + 1 /\ ParamsOnFirst'
    BY <1>1, <2>1, <2>2, ReturnStep
  <2>4. Types'
    BY <1>1, <1>2, <2>1, <2>2, <2>3 DEF Types
  <2>5. Counted'
    BY <1>2, <2>1, <2>2, <2>3 DEF Counted
  <2>6. MessagesInOrder'
    BY <1>2, <1>6 DEF MessagesInOrder
  <2> QED BY <1>3, <2>3, <2>4, <2>5, <2>6 DEF IInv
<1> QED BY <1>1, <1>5, <1>6 DEF Types

(* One frame is read: a text, or something else. *)
LEMMA ReadStep == IInv /\ Read => IInv'
<1> SUFFICES ASSUME IInv, Read PROVE IInv'
  OBVIOUS
<1> DEFINE f == script[taken + 1]
<1>1. Types /\ Counted /\ ParamsOnFirst /\ Ends /\ MessagesInOrder /\ ClosedTruly
  BY DEF IInv
<1>2. /\ wspc = "read" /\ taken' = taken + 1 /\ taken < pos
      /\ UNCHANGED <<hasBody, script, pos, conn, sentHeader, recvN, sendN, herr>>
      /\ ReadClientData(f)
  BY DEF Read
<1>3. f \in Frames /\ taken \in Nat /\ pos \in Nat /\ taken' \in 0 .. pos
  BY <1>1, <1>2 DEF Types
<1>4. wspc' \in {"handler", "read"}
  BY <1>2 DEF ReadClientData
<1>5. PICK a \in Answers : a.kind # "close" /\ out' \in {out, Append(out, a)}
  <2>1. /\ [kind |-> "pong", n |-> 0] \in Answers /\ [kind |-> "echo", n |-> 1000] \in Answers
        /\ [kind |-> "pong", n |-> 0].kind # "close" /\ [kind |-> "echo", n |-> 1000].kind # "close"
    BY DEF Answers
  <2>2. \/ out' = out \/ out' = Append(out, [kind |-> "pong", n |-> 0])
        \/ out' = Append(out, [kind |-> "echo", n |-> 1000])
    BY <1>2 DEF ReadClientData
  <2> QED BY <2>1, <2>2
<1>6. Ends' /\ ClosedTruly' /\ out' \in Seq(Answers)
  BY <1>1, <1>2, <1>4, <1>5, StillOpen
<1>7. /\ ~over /\ recvN = Len(results) + 1 /\ recvN \in Nat /\ Len(results) \in Nat
  BY <1>1, <1>2 DEF Types, Counted
<1>8. \A i : Texts(i)' = Texts(i)
  BY <1>2 DEF Texts
<1>9. CASE f.kind \in {"data", "bad"}
  <2> DEFINE json == f.kind = "data"
             r == results'
  <2>1. wspc' = "handler" /\ over' = over /\ ReturnMessage(f.n, json, recvN)
    BY <1>2, <1>9 DEF ReadClientData
  <2>2. f.n \in Nat /\ json \in BOOLEAN
    BY <1>3 DEF Frames
  <2>3. /\ r \in Seq(Outcome) /\ Len(r) = Len(results) + 1 /\ ParamsOnFirst'
        /\ r[Len(results) + 1].n = f.n
        /\ r[Len(results) + 1].is = "bad" <=> ~json
        /\ \A k \in 1 .. Len(results) : r[k] = results[k]
    <3> HIDE DEF f, json
    <3> QED BY <1>1, <1>7, <2>1, <2>2, ReturnStep
  <2>4. r[Len(results) + 1].is = "bad" <=> f.kind = "bad"
    BY <1>9, <2>3
  <2> HIDE DEF f, r
  <2>5. Types'
    BY <1>1, <1>2, <1>3, <1>6, <2>1, <2>3 DEF Types, r
  <2>6. Counted'
    BY <1>2, <1>7, <2>1, <2>3 DEF Counted, r
  <2>7. ASSUME hasBody
        PROVE  /\ Len(r) = Texts(taken + 1)
               /\ \A i \in 1 .. taken + 1 :
                    script[i].kind \in {"data", "bad"} =>
                      /\ r[Texts(i)].n = script[i].n
                      /\ r[Texts(i)].is = "bad" <=> script[i].kind = "bad"
    <3>1. /\ Len(results) = Texts(taken)
          /\ \A i \in 1 .. taken :
               script[i].kind \in {"data", "bad"} =>
                 /\ results[Texts(i)].n = script[i].n
                 /\ results[Texts(i)].is = "bad" <=> script[i].kind = "bad"
      BY <1>1, <2>7 DEF MessagesInOrder
    <3>2. Texts(taken + 1) = Len(results) + 1
      <4>1. script[taken + 1].kind \in {"data", "bad"}
        BY <1>9 DEF f
      <4> QED BY <1>3, <3>1, <4>1, TextsStep
    <3>3. ASSUME NEW i \in 1 .. taken + 1, script[i].kind \in {"data", "bad"}
          PROVE  /\ r[Texts(i)].n = script[i].n
                 /\ r[Texts(i)].is = "bad" <=> script[i].kind = "bad"
      <4>1. CASE i = taken + 1
        BY <2>3, <2>4, <3>2, <4>1 DEF f
      <4>2. CASE i # taken + 1
        <5>1. i \in 1 .. taken
          BY <1>3, <4>2
        <5>2. Texts(i) \in 1 .. Len(results)
          BY <1>3, <3>1, <3>3, <5>1, TextsBound
        <5> QED BY <2>3, <3>1, <3>3, <5>1, <5>2
      <4> QED BY <4>1, <4>2
    <3> QED BY <2>3, <3>2, <3>3
  <2>8. MessagesInOrder'
    BY <1>2, <1>8, <2>7 DEF MessagesInOrder, r
  <2> QED BY <1>6, <2>3, <2>5, <2>6, <2>8 DEF IInv
<1>10. CASE f.kind \notin {"data", "bad"}
  <2>1. /\ results' = results
        /\ \/ over' = TRUE /\ wspc' = "handler"
           \/ over' = over /\ wspc' = wspc
    BY <1>2, <1>3, <1>10 DEF ReadClientData, Frames
  <2> HIDE DEF f
  <2>2. Types'
    BY <1>1, <1>2, <1>3, <1>6, <2>1 DEF Types
  <2>3. Counted'
    BY <1>1, <1>2, <2>1 DEF Counted
  <2>4. ParamsOnFirst'
    BY <1>1, <2>1 DEF ParamsOnFirst
  <2>5. ASSUME hasBody
        PROVE  /\ Len(results) = Texts(taken + 1)
               /\ \A i \in 1 .. taken + 1 :
                    script[i].kind \in {"data", "bad"} =>
                      /\ results[Texts(i)].n = script[i].n
                      /\ results[Texts(i)].is = "bad" <=> script[i].kind = "bad"
    <3>1. /\ Len(results) = Texts(taken)
          /\ \A i \in 1 .. taken :
               script[i].kind \in {"data", "bad"} =>
                 /\ results[Texts(i)].n = script[i].n
                 /\ results[Texts(i)].is = "bad" <=> script[i].kind = "bad"
      BY <1>1, <2>5 DEF MessagesInOrder
    <3>2. script[taken + 1].kind \notin {"data", "bad"}
      BY <1>10 DEF f
    <3>3. Texts(taken + 1) = Texts(taken)
      <4>1. Texts(taken) \in Nat
        BY <1>3, TextsStep
      <4>2. Texts(taken + 1)
              = Texts(taken) + (IF script[taken + 1].kind \in {"data", "bad"} THEN 1 ELSE 0)
        BY <1>3, TextsStep
      <4> QED BY <3>2, <4>1, <4>2
    <3>4. \A i \in 1 .. taken + 1 : i \in 1 .. taken \/ i = taken + 1
      BY <1>3
    <3> QED BY <3>1, <3>2, <3>3, <3>4
  <2>6. MessagesInOrder'
    BY <1>2, <1>8, <2>1, <2>5 DEF MessagesInOrder
  <2> QED BY <1>6, <2>2, <2>3, <2>4, <2>6 DEF IInv
<1> QED BY <1>9, <1>10

LEMMA HandlerReturnsStep ==
  ASSUME IInv, NEW c \in Nat, HandlerReturns(c)
  PROVE  IInv'
<1>1. Types /\ Counted /\ ParamsOnFirst /\ Ends /\ MessagesInOrder /\ ClosedTruly
  BY DEF IInv
<1>2. /\ wspc = "handler" /\ herr' = c /\ conn' = "closed"
      /\ UNCHANGED <<hasBody, script, pos, taken, sentHeader, recvN, sendN, results, over>>
  BY DEF HandlerReturns
<1>3. MessagesInOrder' /\ ParamsOnFirst'
  BY <1>1, <1>2, SameMessages
<1>4. out \in Seq(Answers) /\ \A i \in 1 .. Len(out) : out[i].kind # "close"
  BY <1>1, <1>2 DEF Types, Ends
<1>5. CASE WSStatusCode(c) = 0
  <2>1. wspc' = "panic" /\ out' = out /\ c = 17
    BY <1>5, WSCodes DEF HandlerReturns
  <2>2. Types' /\ Counted' /\ Ends'
    BY <1>1, <1>2, <2>1 DEF Types, Counted, Ends
  <2>3. ClosedTruly'
    BY <1>2, <1>4, <2>1 DEF ClosedTruly, ClosedOnce, CloseCodeTrue
  <2> QED BY <1>3, <2>2, <2>3 DEF IInv
<1>6. CASE WSStatusCode(c) # 0
  <2> DEFINE code == IF c = 0 THEN 1005 ELSE WSStatusCode(c)
             f == [kind |-> "close", n |-> code]
  <2>1. wspc' = "done" /\ out' = IF conn = "open" THEN Append(out, f) ELSE out
    BY <1>6 DEF HandlerReturns, CloseFrame
  <2>2. code \in Nat /\ (code \in {1000, 1005} <=> c = 0)
    BY WSCodes
  <2> HIDE DEF code
  <2>3. f \in Answers /\ f.kind = "close" /\ f.n = code
    BY <2>2 DEF Answers
  <2> HIDE DEF f
  <2>4. out' \in Seq(Answers)
    BY <1>4, <2>1, <2>3
  <2>5. Types' /\ Counted' /\ Ends'
    BY <1>1, <1>2, <2>1, <2>4 DEF Types, Counted, Ends
  <2>6. CASE conn = "open"
    <3>1. /\ Len(out') = Len(out) + 1 /\ out'[Len(out) + 1] = f /\ Len(out) \in Nat
          /\ \A i \in 1 .. Len(out) : out'[i] = out[i]
      BY <1>4, <2>1, <2>3, <2>6
    <3>2. \A i \in 1 .. Len(out') : out'[i].kind = "close" => i = Len(out')
      BY <1>4, <3>1
    <3>3. out' # <<>> /\ Last(out').kind = "close" /\ out'[Len(out')].n = code
      BY <2>3, <3>1 DEF Last
    <3> QED BY <1>2, <1>3, <2>1, <2>2, <2>5, <3>2, <3>3
            DEF IInv, ClosedTruly, ClosedOnce, CloseCodeTrue
  <2>7. CASE conn # "open"
    <3>1. conn = "lost"
      BY <1>1, <1>2, <2>7 DEF Types, Ends
    <3>2. pos' # 0 /\ script'[pos'].kind = "lost" /\ out' = out
      BY <1>1, <1>2, <2>1, <3>1 DEF Ends
    <3>3. ClosedTruly'
      BY <1>4, <2>1, <3>2 DEF ClosedTruly, ClosedOnce, CloseCodeTrue
    <3> QED BY <1>3, <2>5, <3>3 DEF IInv
  <2> QED BY <2>6, <2>7
<1> QED BY <1>5, <1>6

LEMMA NextIInv == IInv /\ [Next]_wsVars => IInv'
<1> SUFFICES ASSUME IInv, [Next]_wsVars PROVE IInv'
  OBVIOUS
<1>1. CASE ClientSends
  BY <1>1, ClientSendsStep
<1>2. CASE Upgrade
  BY <1>2, UpgradeStep
<1>3. CASE SendHeader
  BY <1>3, MetadataStep DEF SendHeader
<1>4. CASE SendMsg
  BY <1>4, SendMsgStep
<1>5. CASE RecvMsg
  BY <1>5, RecvMsgStep
<1>6. CASE Read
  BY <1>6, ReadStep
<1>7. ASSUME NEW md \in MDs, SetHeader(md) \/ SetTrailer(md)
      PROVE  IInv'
  <2>1. sentHeader \in BOOLEAN
    BY DEF IInv, Types
  <2> QED BY <1>7, <2>1, MetadataStep DEF SetHeader, SetTrailer
<1>8. ASSUME NEW c \in Codes \cup {0}, HandlerReturns(c)
      PROVE  IInv'
  <2>1. c \in Nat
    BY ScriptTypes
  <2> QED BY <1>8, <2>1, HandlerReturnsStep
<1>9. CASE UNCHANGED wsVars
  <2>1. sentHeader \in BOOLEAN
    BY DEF IInv, Types
  <2> QED BY <1>9, <2>1, MetadataStep DEF wsVars
<1> QED BY <1>1, <1>2, <1>3, <1>4, <1>5, <1>6, <1>7, <1>8, <1>9 DEF Next, Serve

LEMMA IInvHolds == Spec => []IInv
<1>1. Init => IInv
  BY InitIInv
<1>2. IInv /\ [Next]_wsVars => IInv'
  BY NextIInv
<1> QED BY <1>1, <1>2, PTL DEF Spec

-----------------------------------------------------------------------------
(* The theorems. *)

(* A websocket call ends with one close frame, after its messages, whose     *)
(* code says truly whether the handler failed, for every code (codeToWS and  *)
(* WSStatusCode) and every order of frames and calls; only the code after    *)
(* the last one of the table leaves the connection closed without it.        *)
THEOREM CloseFrameIsTrue == Spec => []ClosedTruly
<1>1. IInv => ClosedTruly
  BY DEF IInv
<1> QED BY <1>1, IInvHolds, PTL

(* RecvMsg returns the texts of the client in order, passing over none and   *)
(* telling those that are not JSON, and the parameters of the URL are in the *)
(* first message only, or in none when the first call fails, for every       *)
(* sequence of frames: pings between them, a client that closes or vanishes, *)
(* and a handler that goes on after an error.                                *)
THEOREM MessagesReceivedInOrder == Spec => []ReceivedInOrder
<1>1. IInv => ReceivedInOrder
  BY DEF IInv, Types, TypeOK, ReceivedInOrder
<1> QED BY <1>1, IInvHolds, PTL
=============================================================================
