-------------------------- MODULE ProxyStreamProofs --------------------------
(***************************************************************************)
(* Proofs about a proxied call (ProxyStream), for any number of requests   *)
(* and replies and every kind of method.                                   *)
(***************************************************************************)
EXTENDS ProxyStream, SequenceTheorems, TLAPS

(* The numbers of s follow n. *)
Ordered(s, n) == \A i \in 1 .. Len(s) : s[i] = n + i

(* How many requests the handler has taken from the client, and forwarded. *)
Taken == client.sent - Len(client.queue)

Forwarded == Len(backend.got) + Len(backend.queue)

(* How many replies it has taken from the backend. *)
Fetched == backend.made - Len(backend.out)

(* The queues hold what comes next. *)
QueuesOrdered ==
  /\ Len(client.queue) <= client.sent /\ Ordered(client.queue, Taken)
  /\ Ordered(backend.got, 0) /\ Ordered(backend.queue, Len(backend.got))
  /\ Len(backend.out) <= backend.made /\ Ordered(backend.out, Fetched)
  /\ Ordered(client.replies, 0)

(* Which stream exists and which goroutine runs, as the handler goes on. *)
Phases ==
  /\ main \in {"first", "open"} => backend.st = "none"
  /\ main \in {"sendfirst", "recv", "send", "wait"} => backend.st # "none"
  /\ main \in {"first", "open", "sendfirst"} => inb = "off"
  /\ inb # "off" => desc.client /\ backend.st # "none"
  /\ result = "ok" => main = "done"

(* A request is held by one goroutine, and it is the next one to forward, as *)
(* long as the backend takes requests (later ones are swallowed).            *)
RequestsFlow ==
  /\ main = "first" => Taken = 0
  /\ main \in {"open", "sendfirst"} => Taken = 1 /\ args.main = 1
  /\ main \in {"first", "open", "sendfirst"} => Forwarded = 0
  /\ backend.st = "running" /\ inb = "recv" => Taken = Forwarded
  /\ backend.st = "running" /\ inb = "send" => Taken = Forwarded + 1 /\ args.inb = Taken

(* The handler holds the reply that comes next; while it waits, or when it   *)
(* returned nil, none is left.  Replies to a client that has left go nowhere. *)
RepliesFlow ==
  /\ main \in {"first", "open", "sendfirst", "recv"} =>
       client.input = "reset" \/ Len(client.replies) = Fetched
  /\ main = "send" => /\ reply = Fetched
                      /\ client.input = "reset" \/ reply = Len(client.replies) + 1
  /\ ~desc.server => backend.made <= 1
  /\ main = "send" /\ ~desc.server => backend.st = "ok"
  /\ main = "wait" => /\ backend.st = "ok"
                      /\ client.input = "reset" \/ Len(client.replies) = backend.made

IInv ==
  TypeOK /\ QueuesOrdered /\ Phases /\ RequestsFlow /\ RepliesFlow /\ OkMeansComplete

-----------------------------------------------------------------------------
LEMMA OrderedAppend ==
  ASSUME NEW n \in Nat, NEW S, NEW s \in Seq(S), NEW x \in S,
         Ordered(s, n), x = n + Len(s) + 1
  PROVE  Ordered(Append(s, x), n) /\ Append(s, x) \in Seq(S) /\ Len(Append(s, x)) = Len(s) + 1
BY DEF Ordered

LEMMA OrderedTail ==
  ASSUME NEW n \in Nat, NEW S, NEW s \in Seq(S), s # <<>>, Ordered(s, n)
  PROVE  /\ Head(s) = n + 1 /\ Head(s) \in S
         /\ Ordered(Tail(s), n + 1) /\ Tail(s) \in Seq(S)
         /\ Len(s) > 0 /\ Len(Tail(s)) = Len(s) - 1
BY DEF Ordered

(* The fields of the records have their types. *)
LEMMA FieldTypes ==
  ASSUME TypeOK
  PROVE  /\ desc.client \in BOOLEAN /\ desc.server \in BOOLEAN
         /\ client.input \in {"open", "eof", "reset"} /\ client.sent \in 0 .. MaxRequests
         /\ client.queue \in Seq(1 .. MaxRequests) /\ client.replies \in Seq(1 .. MaxReplies)
         /\ backend.st \in {"none", "running", "ok", "error", "gone"}
         /\ backend.patient \in BOOLEAN /\ backend.halfClosed \in BOOLEAN
         /\ backend.queue \in Seq(1 .. MaxRequests) /\ backend.got \in Seq(1 .. MaxRequests)
         /\ backend.out \in Seq(1 .. MaxReplies) /\ backend.made \in 0 .. MaxReplies
         /\ args.main \in 0 .. MaxRequests /\ args.inb \in 0 .. MaxRequests
         /\ Len(client.queue) \in Nat /\ Len(client.replies) \in Nat /\ Len(backend.queue) \in Nat
         /\ Len(backend.got) \in Nat /\ Len(backend.out) \in Nat
         /\ client.sent \in Nat /\ backend.made \in Nat /\ reply \in Nat
         /\ args.main \in Nat /\ args.inb \in Nat
<1>1. desc.client \in BOOLEAN /\ desc.server \in BOOLEAN
  BY DescsAreDescs DEF TypeOK
<1>2. /\ client.input \in {"open", "eof", "reset"} /\ client.sent \in 0 .. MaxRequests
      /\ client.queue \in Seq(1 .. MaxRequests) /\ client.replies \in Seq(1 .. MaxReplies)
  BY DEF TypeOK, Client
<1>3. /\ backend.st \in {"none", "running", "ok", "error", "gone"}
      /\ backend.patient \in BOOLEAN /\ backend.halfClosed \in BOOLEAN
      /\ backend.queue \in Seq(1 .. MaxRequests) /\ backend.got \in Seq(1 .. MaxRequests)
      /\ backend.out \in Seq(1 .. MaxReplies) /\ backend.made \in 0 .. MaxReplies
  BY DEF TypeOK, Backend
<1>4. args.main \in 0 .. MaxRequests /\ args.inb \in 0 .. MaxRequests /\ reply \in 0 .. MaxReplies
  BY DEF TypeOK
<1>5. /\ Len(client.queue) \in Nat /\ Len(client.replies) \in Nat /\ Len(backend.queue) \in Nat
      /\ Len(backend.got) \in Nat /\ Len(backend.out) \in Nat
  BY <1>2, <1>3
<1>6. /\ client.sent \in Nat /\ backend.made \in Nat /\ reply \in Nat
      /\ args.main \in Nat /\ args.inb \in Nat
  BY <1>2, <1>3, <1>4, BoundsAreNat
<1> QED BY <1>1, <1>2, <1>3, <1>4, <1>5, <1>6, Zenon

LEMMA SumNat ==
  ASSUME NEW a \in Nat, NEW b \in Nat
  PROVE  a + b \in Nat
OBVIOUS

LEMMA SumMoves ==
  ASSUME NEW a \in Nat, NEW b \in Nat
  PROVE  (a + 1) + (b - 1) = a + b /\ a + (b + 1) = (a + b) + 1
OBVIOUS

LEMMA CountTypes ==
  ASSUME TypeOK, QueuesOrdered
  PROVE  /\ Taken \in Nat /\ Forwarded \in Nat /\ Fetched \in Nat
         /\ Len(client.queue) \in Nat /\ Len(client.replies) \in Nat /\ Len(backend.queue) \in Nat
         /\ Len(backend.got) \in Nat /\ Len(backend.out) \in Nat
         /\ client.sent \in Nat /\ backend.made \in Nat /\ reply \in Nat
         /\ args.main \in Nat /\ args.inb \in Nat
<1>1. /\ Len(client.queue) \in Nat /\ Len(client.replies) \in Nat /\ Len(backend.queue) \in Nat
      /\ Len(backend.got) \in Nat /\ Len(backend.out) \in Nat
      /\ client.sent \in Nat /\ backend.made \in Nat /\ reply \in Nat
      /\ args.main \in Nat /\ args.inb \in Nat
  BY FieldTypes
<1>2. Len(client.queue) <= client.sent /\ Len(backend.out) <= backend.made
  BY DEF QueuesOrdered
<1>3. Taken \in Nat
  BY <1>1, <1>2 DEF Taken
<1>4. Forwarded \in Nat
  BY <1>1, SumNat, Zenon DEF Forwarded
<1>5. Fetched \in Nat
  BY <1>1, <1>2 DEF Fetched
<1> QED BY <1>1, <1>3, <1>4, <1>5

(* The client. *)
LEMMA ClientSteps ==
  ASSUME IInv, ClientSend \/ ClientHalfClose \/ ClientReset
  PROVE  IInv'
<1> USE BoundsAreNat
<1>1. TypeOK /\ QueuesOrdered /\ Phases /\ RequestsFlow /\ RepliesFlow /\ OkMeansComplete
  BY DEF IInv
<1>2. SUFFICES /\ TypeOK' /\ QueuesOrdered' /\ Phases' /\ RequestsFlow' /\ RepliesFlow'
               /\ OkMeansComplete'
  BY DEF IInv
<1>3. /\ desc.client \in BOOLEAN /\ desc.server \in BOOLEAN
      /\ backend.st \in {"none", "running", "ok", "error", "gone"}
  BY <1>1, FieldTypes
<1>4. /\ Taken \in Nat /\ Forwarded \in Nat /\ Fetched \in Nat
      /\ Len(client.queue) \in Nat /\ Len(client.replies) \in Nat /\ Len(backend.queue) \in Nat
      /\ Len(backend.got) \in Nat /\ Len(backend.out) \in Nat
      /\ client.sent \in Nat /\ backend.made \in Nat /\ reply \in Nat
      /\ args.main \in Nat /\ args.inb \in Nat
  BY <1>1, CountTypes
<1>10. CASE ClientSend
  <2>1. client' = [input |-> (IF desc.client THEN client.input ELSE "eof"),
                   sent |-> client.sent + 1,
                   queue |-> Append(client.queue, client.sent + 1),
                   replies |-> client.replies]
    <3>1. client = [input |-> client.input, sent |-> client.sent, queue |-> client.queue,
                    replies |-> client.replies]
      BY <1>1 DEF TypeOK, Client
    <3> QED
      BY <1>10, <3>1 DEF ClientSend
  <2>2. /\ client'.input = (IF desc.client THEN client.input ELSE "eof")
        /\ client'.sent = client.sent + 1
        /\ client'.queue = Append(client.queue, client.sent + 1)
        /\ client'.replies = client.replies
    BY <2>1
  <2>3. /\ UNCHANGED <<desc, backend, args, main, inb, reply, inErr, result>>
    BY <1>10 DEF ClientSend
  <2>4. client.input = "open"
    BY <1>1, <1>3, <1>10 DEF Phases, ClientSend
  <2>5. /\ Append(client.queue, client.sent + 1) \in Seq(1 .. MaxRequests) /\ client.sent + 1 \in 0 .. MaxRequests
        /\ Len(client'.queue) = Len(client.queue) + 1 /\ Ordered(client'.queue, Taken) /\ Taken' = Taken
    <3>1. /\ client.sent + 1 \in 1 .. MaxRequests /\ client.sent + 1 = Taken + Len(client.queue) + 1
          /\ Taken \in Nat /\ client.queue \in Seq(1 .. MaxRequests) /\ Ordered(client.queue, Taken)
      <4>1. /\ client.sent \in 0 .. MaxRequests /\ client.sent < MaxRequests
            /\ Len(client.queue) \in Nat /\ Len(client.queue) <= client.sent
            /\ client.queue \in Seq(1 .. MaxRequests) /\ Ordered(client.queue, Taken)
        BY <1>1, <1>10, FieldTypes DEF ClientSend, QueuesOrdered
      <4> QED BY <4>1, BoundsAreNat DEF Taken
    <3>2. /\ Ordered(Append(client.queue, client.sent + 1), Taken) /\ Append(client.queue, client.sent + 1) \in Seq(1 .. MaxRequests)
          /\ Len(Append(client.queue, client.sent + 1)) = Len(client.queue) + 1
      BY <3>1, OrderedAppend
    <3>3. Ordered(client'.queue, Taken) /\ Len(client'.queue) = Len(client.queue) + 1
      BY <2>2, <3>2
    <3>4. Taken' = Taken
      <4>1. client.sent \in Nat /\ Len(client.queue) \in Nat /\ client'.sent = client.sent + 1
        BY <1>1, <2>2, FieldTypes
      <4> QED BY <4>1, <3>3, SMTT(30) DEF Taken
    <3> QED BY <3>1, <3>2, <3>3, <3>4
  <2>6. /\ Taken' = Taken /\ Forwarded' = Forwarded /\ Fetched' = Fetched
    <3>1. Taken' = Taken
      BY <1>4, <2>2, <2>5 DEF Taken
    <3>2. Forwarded' = Forwarded
      BY <2>3 DEF Forwarded
    <3>3. Fetched' = Fetched
      BY <2>3 DEF Fetched
    <3> QED BY <3>1, <3>2, <3>3
  <2>7. TypeOK'
    <3>1. client' \in Client
      BY <1>1, <1>10, <2>1, <2>5, FieldTypes DEF Client
    <3> QED
      BY <1>1, <2>3, <3>1 DEF TypeOK
  <2>8. QueuesOrdered'
    BY <1>1, <2>2, <2>3, <2>5, FieldTypes, SMTT(30) DEF QueuesOrdered, Taken, Fetched
  <2>9. Phases'
    BY <1>1, <2>4, <2>2, <2>3 DEF Phases
  <2>10. RequestsFlow'
    BY <1>1, <1>4, <2>4, <2>2, <2>3, <2>5, <2>6 DEF RequestsFlow, Phases
  <2>11. RepliesFlow'
    BY <1>1, <1>3, <1>4, <2>4, <2>2, <2>3, <2>5, <2>6 DEF RepliesFlow, Phases
  <2>12. OkMeansComplete'
    BY <1>1, <1>3, <1>4, <2>4, <2>2, <2>3, <2>5, <2>6 DEF OkMeansComplete, Phases,
       RepliesFlow
  <2> QED
    BY <2>7, <2>8, <2>9, <2>10, <2>11, <2>12
<1>11. CASE ClientHalfClose
  <2>1. client' = [input |-> "eof", sent |-> client.sent, queue |-> client.queue,
                   replies |-> client.replies]
    <3>1. client = [input |-> client.input, sent |-> client.sent, queue |-> client.queue,
                    replies |-> client.replies]
      BY <1>1 DEF TypeOK, Client
    <3> QED
      BY <1>11, <3>1 DEF ClientHalfClose
  <2>2. /\ client'.input = "eof" /\ client'.sent = client.sent
        /\ client'.queue = client.queue /\ client'.replies = client.replies
    BY <2>1
  <2>3. /\ UNCHANGED <<desc, backend, args, main, inb, reply, inErr, result>>
    BY <1>11 DEF ClientHalfClose
  <2>4. client.input = "open"
    BY <1>1, <1>3, <1>11 DEF Phases, ClientHalfClose
  <2>5. /\ Taken' = Taken /\ Forwarded' = Forwarded /\ Fetched' = Fetched
    <3>1. Taken' = Taken
      BY <1>4, <2>2 DEF Taken
    <3>2. Forwarded' = Forwarded
      BY <2>3 DEF Forwarded
    <3>3. Fetched' = Fetched
      BY <2>3 DEF Fetched
    <3> QED BY <3>1, <3>2, <3>3
  <2>6. TypeOK'
    <3>1. client' \in Client
      BY <1>1, <1>11, <2>1, FieldTypes DEF Client, ClientHalfClose
    <3> QED
      BY <1>1, <2>3, <3>1 DEF TypeOK
  <2>7. QueuesOrdered'
    BY <1>1, <2>2, <2>3, FieldTypes DEF QueuesOrdered, Taken, Fetched
  <2>8. Phases'
    BY <1>1, <2>4, <2>2, <2>3 DEF Phases
  <2>9. RequestsFlow'
    BY <1>1, <1>4, <2>4, <2>2, <2>3, <2>5 DEF RequestsFlow, Phases
  <2>10. RepliesFlow'
    BY <1>1, <1>3, <1>4, <2>4, <2>2, <2>3, <2>5 DEF RepliesFlow, Phases
  <2>11. OkMeansComplete'
    BY <1>1, <1>3, <1>4, <2>4, <2>2, <2>3, <2>5 DEF OkMeansComplete, Phases, RepliesFlow
  <2> QED
    BY <2>6, <2>7, <2>8, <2>9, <2>10, <2>11
<1>12. CASE ClientReset
  <2>1. client' = [input |-> "reset", sent |-> client.sent, queue |-> client.queue,
                   replies |-> client.replies]
    <3>1. client = [input |-> client.input, sent |-> client.sent, queue |-> client.queue,
                    replies |-> client.replies]
      BY <1>1 DEF TypeOK, Client
    <3> QED
      BY <1>12, <3>1 DEF ClientReset
  <2>2. /\ client'.input = "reset" /\ client'.sent = client.sent
        /\ client'.queue = client.queue /\ client'.replies = client.replies
    BY <2>1
  <2>3. /\ UNCHANGED <<desc, backend, args, main, inb, reply, inErr, result>>
    BY <1>12 DEF ClientReset
  <2>4. main # "done"
    BY <1>1, <1>3, <1>12 DEF Phases, ClientReset
  <2>5. /\ Taken' = Taken /\ Forwarded' = Forwarded /\ Fetched' = Fetched
    <3>1. Taken' = Taken
      BY <1>4, <2>2 DEF Taken
    <3>2. Forwarded' = Forwarded
      BY <2>3 DEF Forwarded
    <3>3. Fetched' = Fetched
      BY <2>3 DEF Fetched
    <3> QED BY <3>1, <3>2, <3>3
  <2>6. TypeOK'
    <3>1. client' \in Client
      BY <1>1, <1>12, <2>1, FieldTypes DEF Client, ClientReset
    <3> QED
      BY <1>1, <2>3, <3>1 DEF TypeOK
  <2>7. QueuesOrdered'
    BY <1>1, <2>2, <2>3, FieldTypes DEF QueuesOrdered, Taken, Fetched
  <2>8. Phases'
    BY <1>1, <2>4, <2>2, <2>3 DEF Phases
  <2>9. RequestsFlow'
    BY <1>1, <1>4, <2>4, <2>2, <2>3, <2>5 DEF RequestsFlow, Phases
  <2>10. RepliesFlow'
    BY <1>1, <1>3, <1>4, <2>4, <2>2, <2>3, <2>5 DEF RepliesFlow, Phases
  <2>11. OkMeansComplete'
    BY <1>1, <1>3, <1>4, <2>4, <2>2, <2>3, <2>5 DEF OkMeansComplete, Phases, RepliesFlow
  <2> QED
    BY <2>6, <2>7, <2>8, <2>9, <2>10, <2>11
<1> QED
  BY <1>10, <1>11, <1>12

(* The backend. *)
LEMMA BackendSteps ==
  ASSUME IInv, BackendStep
  PROVE  IInv'
<1> USE BoundsAreNat
<1>1. TypeOK /\ QueuesOrdered /\ Phases /\ RequestsFlow /\ RepliesFlow /\ OkMeansComplete
  BY DEF IInv
<1>2. SUFFICES /\ TypeOK' /\ QueuesOrdered' /\ Phases' /\ RequestsFlow' /\ RepliesFlow'
               /\ OkMeansComplete'
  BY DEF IInv
<1>3. /\ desc.client \in BOOLEAN /\ desc.server \in BOOLEAN
      /\ backend.st \in {"none", "running", "ok", "error", "gone"}
  BY <1>1, FieldTypes
<1>4. /\ Taken \in Nat /\ Forwarded \in Nat /\ Fetched \in Nat
      /\ Len(client.queue) \in Nat /\ Len(client.replies) \in Nat /\ Len(backend.queue) \in Nat
      /\ Len(backend.got) \in Nat /\ Len(backend.out) \in Nat
      /\ client.sent \in Nat /\ backend.made \in Nat /\ reply \in Nat
      /\ args.main \in Nat /\ args.inb \in Nat
  BY <1>1, CountTypes
<1>10. CASE BackendRecv
  <2>1. backend' = [st |-> backend.st, patient |-> backend.patient,
                    queue |-> Tail(backend.queue),
                    got |-> Append(backend.got, Head(backend.queue)),
                    halfClosed |-> backend.halfClosed, out |-> backend.out,
                    made |-> backend.made]
    <3>1. backend = [st |-> backend.st, patient |-> backend.patient,
                     queue |-> backend.queue, got |-> backend.got,
                     halfClosed |-> backend.halfClosed, out |-> backend.out,
                     made |-> backend.made]
      BY <1>1 DEF TypeOK, Backend
    <3> QED
      BY <1>10, <3>1 DEF BackendRecv, BackendDoes
  <2>2. /\ backend'.st = backend.st /\ backend'.patient = backend.patient
        /\ backend'.queue = Tail(backend.queue)
        /\ backend'.got = Append(backend.got, Head(backend.queue))
        /\ backend'.halfClosed = backend.halfClosed /\ backend'.out = backend.out
        /\ backend'.made = backend.made
    BY <2>1
  <2>3. /\ UNCHANGED <<desc, client, args, main, inb, reply, inErr, result>>
    BY <1>10 DEF BackendRecv, BackendDoes
  <2>4. backend.st = "running"
    BY <1>1, <1>3, <1>10 DEF Phases, BackendRecv, BackendDoes
  <2>5. /\ Tail(backend.queue) \in Seq(1 .. MaxRequests)
        /\ Append(backend.got, Head(backend.queue)) \in Seq(1 .. MaxRequests)
        /\ Len(backend'.got) = Len(backend.got) + 1 /\ Len(backend'.queue) = Len(backend.queue) - 1
        /\ Ordered(backend'.got, 0) /\ Ordered(backend'.queue, Len(backend'.got))
    <3>1. /\ Len(backend.got) \in Nat /\ backend.queue \in Seq(1 .. MaxRequests)
          /\ backend.queue # <<>> /\ Ordered(backend.queue, Len(backend.got))
          /\ backend.got \in Seq(1 .. MaxRequests) /\ Ordered(backend.got, 0)
      BY <1>1, <1>10, <2>4, FieldTypes DEF BackendRecv, QueuesOrdered
    <3>2. /\ Head(backend.queue) = Len(backend.got) + 1 /\ Head(backend.queue) \in 1 .. MaxRequests
          /\ Ordered(Tail(backend.queue), Len(backend.got) + 1)
          /\ Tail(backend.queue) \in Seq(1 .. MaxRequests)
          /\ Len(Tail(backend.queue)) = Len(backend.queue) - 1
      BY <3>1, OrderedTail
    <3>3. Head(backend.queue) = 0 + Len(backend.got) + 1
      BY <3>1, <3>2
    <3>4. /\ Ordered(Append(backend.got, Head(backend.queue)), 0)
          /\ Append(backend.got, Head(backend.queue)) \in Seq(1 .. MaxRequests)
          /\ Len(Append(backend.got, Head(backend.queue))) = Len(backend.got) + 1
      BY <3>1, <3>2, <3>3, OrderedAppend
    <3> QED BY <2>2, <3>2, <3>4
  <2>6. /\ Taken' = Taken /\ Forwarded' = Forwarded /\ Fetched' = Fetched
    <3>1. Taken' = Taken
      BY <2>3 DEF Taken
    <3>2. Forwarded' = Forwarded
      <4>1. Len(backend'.got) = Len(backend.got) + 1 /\ Len(backend'.queue) = Len(backend.queue) - 1
        BY <2>2, <2>5
      <4>2. Forwarded' = (Len(backend.got) + 1) + (Len(backend.queue) - 1)
        BY <4>1, Zenon DEF Forwarded
      <4>3. (Len(backend.got) + 1) + (Len(backend.queue) - 1) = (Len(backend.got) + Len(backend.queue))
        BY <1>4, SumMoves, Zenon
      <4> QED BY <4>2, <4>3, Zenon DEF Forwarded
    <3>3. Fetched' = Fetched
      BY <1>4, <2>2, <2>5 DEF Fetched
    <3> QED BY <3>1, <3>2, <3>3
  <2>7. TypeOK'
    <3>1. backend' \in Backend
      BY <1>1, <1>10, <2>1, <2>5, FieldTypes DEF Backend
    <3> QED
      BY <1>1, <2>3, <3>1 DEF TypeOK
  <2>8. QueuesOrdered'
    BY <1>1, <2>2, <2>3, <2>5, FieldTypes DEF QueuesOrdered, Taken, Fetched
  <2>9. Phases'
    BY <1>1, <2>4, <2>2, <2>3 DEF Phases
  <2>10. RequestsFlow'
    BY <1>1, <1>4, <2>4, <2>2, <2>3, <2>5, <2>6 DEF RequestsFlow, Phases
  <2>11. RepliesFlow'
    BY <1>1, <1>3, <1>4, <2>4, <2>2, <2>3, <2>5, <2>6 DEF RepliesFlow, Phases
  <2>12. OkMeansComplete'
    BY <1>1, <1>3, <1>4, <2>4, <2>2, <2>3, <2>5, <2>6 DEF OkMeansComplete, Phases,
       RepliesFlow
  <2> QED
    BY <2>7, <2>8, <2>9, <2>10, <2>11, <2>12
<1>11. CASE BackendReply
  <2>1. backend' = [st |-> backend.st, patient |-> backend.patient, queue |-> backend.queue,
                    got |-> backend.got, halfClosed |-> backend.halfClosed,
                    out |-> Append(backend.out, backend.made + 1), made |-> backend.made + 1]
    <3>1. backend = [st |-> backend.st, patient |-> backend.patient,
                     queue |-> backend.queue, got |-> backend.got,
                     halfClosed |-> backend.halfClosed, out |-> backend.out,
                     made |-> backend.made]
      BY <1>1 DEF TypeOK, Backend
    <3> QED
      BY <1>11, <3>1 DEF BackendReply, BackendDoes
  <2>2. /\ backend'.st = backend.st /\ backend'.patient = backend.patient
        /\ backend'.queue = backend.queue /\ backend'.got = backend.got
        /\ backend'.halfClosed = backend.halfClosed
        /\ backend'.out = Append(backend.out, backend.made + 1)
        /\ backend'.made = backend.made + 1
    BY <2>1
  <2>3. /\ UNCHANGED <<desc, client, args, main, inb, reply, inErr, result>>
    BY <1>11 DEF BackendReply, BackendDoes
  <2>4. backend.st = "running" /\ (~desc.server => backend.made < 1)
    BY <1>1, <1>3, <1>11 DEF Phases, BackendReply, BackendDoes
  <2>5. /\ Append(backend.out, backend.made + 1) \in Seq(1 .. MaxReplies) /\ backend.made + 1 \in 0 .. MaxReplies
        /\ Len(backend'.out) = Len(backend.out) + 1 /\ Ordered(backend'.out, Fetched) /\ Fetched' = Fetched
    <3>1. /\ backend.made + 1 \in 1 .. MaxReplies /\ backend.made + 1 = Fetched + Len(backend.out) + 1
          /\ Fetched \in Nat /\ backend.out \in Seq(1 .. MaxReplies) /\ Ordered(backend.out, Fetched)
      <4>1. /\ backend.made \in 0 .. MaxReplies /\ Len(backend.out) \in Nat
            /\ Len(backend.out) <= backend.made /\ desc.server \in BOOLEAN
            /\ backend.made < IF desc.server THEN MaxReplies ELSE 1
        BY <1>1, <1>11, FieldTypes DEF BackendReply, QueuesOrdered
      <4>2. backend.out \in Seq(1 .. MaxReplies) /\ Ordered(backend.out, Fetched)
        BY <1>1, FieldTypes DEF QueuesOrdered
      <4>3. backend.made + 1 \in 1 .. MaxReplies
        BY <4>1, BoundsAreNat
      <4>4. backend.made + 1 = Fetched + Len(backend.out) + 1 /\ Fetched \in Nat
        BY <4>1, BoundsAreNat DEF Fetched
      <4> QED BY <4>2, <4>3, <4>4
    <3>2. /\ Ordered(Append(backend.out, backend.made + 1), Fetched) /\ Append(backend.out, backend.made + 1) \in Seq(1 .. MaxReplies)
          /\ Len(Append(backend.out, backend.made + 1)) = Len(backend.out) + 1
      BY <3>1, OrderedAppend
    <3>3. Ordered(backend'.out, Fetched) /\ Len(backend'.out) = Len(backend.out) + 1
      BY <2>2, <3>2
    <3>4. Fetched' = Fetched
      <4>1. backend.made \in Nat /\ Len(backend.out) \in Nat /\ backend'.made = backend.made + 1
        BY <1>1, <2>2, FieldTypes
      <4> QED BY <4>1, <3>3 DEF Fetched
    <3> QED BY <3>1, <3>2, <3>3, <3>4
  <2>6. /\ Taken' = Taken /\ Forwarded' = Forwarded /\ Fetched' = Fetched
    <3>1. Taken' = Taken
      BY <2>3 DEF Taken
    <3>2. Forwarded' = Forwarded
      BY <1>4, <2>2, <2>5 DEF Forwarded
    <3>3. Fetched' = Fetched
      BY <1>4, <2>2, <2>5 DEF Fetched
    <3> QED BY <3>1, <3>2, <3>3
  <2>7. TypeOK'
    <3>1. backend' \in Backend
      BY <1>1, <1>11, <2>1, <2>5, FieldTypes DEF Backend
    <3> QED
      BY <1>1, <2>3, <3>1 DEF TypeOK
  <2>8. QueuesOrdered'
    BY <1>1, <2>2, <2>3, <2>5, FieldTypes DEF QueuesOrdered, Taken, Fetched
  <2>9. Phases'
    BY <1>1, <2>4, <2>2, <2>3 DEF Phases
  <2>10. RequestsFlow'
    BY <1>1, <1>4, <2>4, <2>2, <2>3, <2>5, <2>6 DEF RequestsFlow, Phases
  <2>11. RepliesFlow'
    BY <1>1, <1>3, <1>4, <2>4, <2>2, <2>3, <2>5, <2>6 DEF RepliesFlow, Phases
  <2>12. OkMeansComplete'
    BY <1>1, <1>3, <1>4, <2>4, <2>2, <2>3, <2>5, <2>6 DEF OkMeansComplete, Phases,
       RepliesFlow
  <2> QED
    BY <2>7, <2>8, <2>9, <2>10, <2>11, <2>12
<1>12. CASE BackendReturns
  <2>1. backend' = [st |-> "ok", patient |-> backend.patient, queue |-> backend.queue,
                    got |-> backend.got, halfClosed |-> backend.halfClosed,
                    out |-> backend.out, made |-> backend.made]
    <3>1. backend = [st |-> backend.st, patient |-> backend.patient,
                     queue |-> backend.queue, got |-> backend.got,
                     halfClosed |-> backend.halfClosed, out |-> backend.out,
                     made |-> backend.made]
      BY <1>1 DEF TypeOK, Backend
    <3> QED
      BY <1>12, <3>1 DEF BackendReturns, BackendDoes
  <2>2. /\ backend'.st = "ok" /\ backend'.patient = backend.patient
        /\ backend'.queue = backend.queue /\ backend'.got = backend.got
        /\ backend'.halfClosed = backend.halfClosed /\ backend'.out = backend.out
        /\ backend'.made = backend.made
    BY <2>1
  <2>3. /\ UNCHANGED <<desc, client, args, main, inb, reply, inErr, result>>
    BY <1>12 DEF BackendReturns, BackendDoes
  <2>4. backend.st = "running"
    BY <1>1, <1>3, <1>12 DEF Phases, BackendReturns, BackendDoes
  <2>5. /\ Taken' = Taken /\ Forwarded' = Forwarded /\ Fetched' = Fetched
    <3>1. Taken' = Taken
      BY <2>3 DEF Taken
    <3>2. Forwarded' = Forwarded
      BY <1>4, <2>2 DEF Forwarded
    <3>3. Fetched' = Fetched
      BY <1>4, <2>2 DEF Fetched
    <3> QED BY <3>1, <3>2, <3>3
  <2>6. TypeOK'
    <3>1. backend' \in Backend
      BY <1>1, <1>12, <2>1, FieldTypes DEF Backend, BackendReturns, BackendDoes
    <3> QED
      BY <1>1, <2>3, <3>1 DEF TypeOK
  <2>7. QueuesOrdered'
    BY <1>1, <2>2, <2>3, FieldTypes DEF QueuesOrdered, Taken, Fetched
  <2>8. Phases'
    BY <1>1, <2>4, <2>2, <2>3 DEF Phases
  <2>9. RequestsFlow'
    BY <1>1, <1>4, <2>4, <2>2, <2>3, <2>5 DEF RequestsFlow, Phases
  <2>10. RepliesFlow'
    BY <1>1, <1>3, <1>4, <2>4, <2>2, <2>3, <2>5 DEF RepliesFlow, Phases
  <2>11. OkMeansComplete'
    BY <1>1, <1>3, <1>4, <2>4, <2>2, <2>3, <2>5 DEF OkMeansComplete, Phases, RepliesFlow
  <2> QED
    BY <2>6, <2>7, <2>8, <2>9, <2>10, <2>11
<1>13. CASE BackendFails
  <2>1. backend' = [st |-> "error", patient |-> backend.patient, queue |-> backend.queue,
                    got |-> backend.got, halfClosed |-> backend.halfClosed,
                    out |-> backend.out, made |-> backend.made]
    <3>1. backend = [st |-> backend.st, patient |-> backend.patient,
                     queue |-> backend.queue, got |-> backend.got,
                     halfClosed |-> backend.halfClosed, out |-> backend.out,
                     made |-> backend.made]
      BY <1>1 DEF TypeOK, Backend
    <3> QED
      BY <1>13, <3>1 DEF BackendFails, BackendDoes
  <2>2. /\ backend'.st = "error" /\ backend'.patient = backend.patient
        /\ backend'.queue = backend.queue /\ backend'.got = backend.got
        /\ backend'.halfClosed = backend.halfClosed /\ backend'.out = backend.out
        /\ backend'.made = backend.made
    BY <2>1
  <2>3. /\ UNCHANGED <<desc, client, args, main, inb, reply, inErr, result>>
    BY <1>13 DEF BackendFails, BackendDoes
  <2>4. backend.st = "running"
    BY <1>1, <1>3, <1>13 DEF Phases, BackendFails, BackendDoes
  <2>5. /\ Taken' = Taken /\ Forwarded' = Forwarded /\ Fetched' = Fetched
    <3>1. Taken' = Taken
      BY <2>3 DEF Taken
    <3>2. Forwarded' = Forwarded
      BY <1>4, <2>2 DEF Forwarded
    <3>3. Fetched' = Fetched
      BY <1>4, <2>2 DEF Fetched
    <3> QED BY <3>1, <3>2, <3>3
  <2>6. TypeOK'
    <3>1. backend' \in Backend
      BY <1>1, <1>13, <2>1, FieldTypes DEF Backend, BackendFails, BackendDoes
    <3> QED
      BY <1>1, <2>3, <3>1 DEF TypeOK
  <2>7. QueuesOrdered'
    BY <1>1, <2>2, <2>3, FieldTypes DEF QueuesOrdered, Taken, Fetched
  <2>8. Phases'
    BY <1>1, <2>4, <2>2, <2>3 DEF Phases
  <2>9. RequestsFlow'
    BY <1>1, <1>4, <2>4, <2>2, <2>3, <2>5 DEF RequestsFlow, Phases
  <2>10. RepliesFlow'
    BY <1>1, <1>3, <1>4, <2>4, <2>2, <2>3, <2>5 DEF RepliesFlow, Phases
  <2>11. OkMeansComplete'
    BY <1>1, <1>3, <1>4, <2>4, <2>2, <2>3, <2>5 DEF OkMeansComplete, Phases, RepliesFlow
  <2> QED
    BY <2>6, <2>7, <2>8, <2>9, <2>10, <2>11
<1>14. CASE BackendCancelled
  <2>1. backend' = [st |-> "gone", patient |-> backend.patient, queue |-> backend.queue,
                    got |-> backend.got, halfClosed |-> backend.halfClosed,
                    out |-> backend.out, made |-> backend.made]
    <3>1. backend = [st |-> backend.st, patient |-> backend.patient,
                     queue |-> backend.queue, got |-> backend.got,
                     halfClosed |-> backend.halfClosed, out |-> backend.out,
                     made |-> backend.made]
      BY <1>1 DEF TypeOK, Backend
    <3> QED
      BY <1>14, <3>1 DEF BackendCancelled, BackendDoes, CtxDone
  <2>2. /\ backend'.st = "gone" /\ backend'.patient = backend.patient
        /\ backend'.queue = backend.queue /\ backend'.got = backend.got
        /\ backend'.halfClosed = backend.halfClosed /\ backend'.out = backend.out
        /\ backend'.made = backend.made
    BY <2>1
  <2>3. /\ UNCHANGED <<desc, client, args, main, inb, reply, inErr, result>>
    BY <1>14 DEF BackendCancelled, BackendDoes, CtxDone
  <2>4. backend.st = "running"
    BY <1>1, <1>3, <1>14 DEF Phases, BackendCancelled, BackendDoes, CtxDone
  <2>5. /\ Taken' = Taken /\ Forwarded' = Forwarded /\ Fetched' = Fetched
    <3>1. Taken' = Taken
      BY <2>3 DEF Taken
    <3>2. Forwarded' = Forwarded
      BY <1>4, <2>2 DEF Forwarded
    <3>3. Fetched' = Fetched
      BY <1>4, <2>2 DEF Fetched
    <3> QED BY <3>1, <3>2, <3>3
  <2>6. TypeOK'
    <3>1. backend' \in Backend
      BY <1>1, <1>14, <2>1, FieldTypes DEF Backend, BackendCancelled, BackendDoes, CtxDone
    <3> QED
      BY <1>1, <2>3, <3>1 DEF TypeOK
  <2>7. QueuesOrdered'
    BY <1>1, <2>2, <2>3, FieldTypes DEF QueuesOrdered, Taken, Fetched
  <2>8. Phases'
    BY <1>1, <2>4, <2>2, <2>3 DEF Phases
  <2>9. RequestsFlow'
    BY <1>1, <1>4, <2>4, <2>2, <2>3, <2>5 DEF RequestsFlow, Phases
  <2>10. RepliesFlow'
    BY <1>1, <1>3, <1>4, <2>4, <2>2, <2>3, <2>5 DEF RepliesFlow, Phases
  <2>11. OkMeansComplete'
    BY <1>1, <1>3, <1>4, <2>4, <2>2, <2>3, <2>5 DEF OkMeansComplete, Phases, RepliesFlow
  <2> QED
    BY <2>6, <2>7, <2>8, <2>9, <2>10, <2>11
<1> QED
  BY <1>10, <1>11, <1>12, <1>13, <1>14 DEF BackendStep

(* The handler, until the first request is forwarded. *)
LEMMA RequestSteps ==
  ASSUME IInv, RecvFirst \/ NewStream \/ SendFirst
  PROVE  IInv'
<1> USE BoundsAreNat
<1>1. TypeOK /\ QueuesOrdered /\ Phases /\ RequestsFlow /\ RepliesFlow /\ OkMeansComplete
  BY DEF IInv
<1>2. SUFFICES /\ TypeOK' /\ QueuesOrdered' /\ Phases' /\ RequestsFlow' /\ RepliesFlow'
               /\ OkMeansComplete'
  BY DEF IInv
<1>3. /\ desc.client \in BOOLEAN /\ desc.server \in BOOLEAN
      /\ backend.st \in {"none", "running", "ok", "error", "gone"}
  BY <1>1, FieldTypes
<1>4. /\ Taken \in Nat /\ Forwarded \in Nat /\ Fetched \in Nat
      /\ Len(client.queue) \in Nat /\ Len(client.replies) \in Nat /\ Len(backend.queue) \in Nat
      /\ Len(backend.got) \in Nat /\ Len(backend.out) \in Nat
      /\ client.sent \in Nat /\ backend.made \in Nat /\ reply \in Nat
      /\ args.main \in Nat /\ args.inb \in Nat
  BY <1>1, CountTypes
<1>10. CASE RecvFirst
  <2>1. CASE main' = "open"
    <3>1. client' = [input |-> client.input, sent |-> client.sent,
                     queue |-> Tail(client.queue), replies |-> client.replies]
      <4>1. client = [input |-> client.input, sent |-> client.sent, queue |-> client.queue,
                      replies |-> client.replies]
        BY <1>1 DEF TypeOK, Client
      <4> QED
        BY <1>10, <2>1, <4>1 DEF RecvFirst, Continues, Returns
    <3>2. /\ client'.input = client.input /\ client'.sent = client.sent
          /\ client'.queue = Tail(client.queue) /\ client'.replies = client.replies
      BY <3>1
    <3>3. args' = [main |-> Head(client.queue), inb |-> args.inb]
      <4>1. args = [main |-> args.main, inb |-> args.inb]
        BY <1>1 DEF TypeOK
      <4> QED
        BY <1>10, <2>1, <4>1 DEF RecvFirst, Continues, Returns
    <3>4. /\ args'.main = Head(client.queue) /\ args'.inb = args.inb
      BY <3>3
    <3>5. /\ main' = "open" /\ UNCHANGED <<desc, backend, inb, reply, inErr, result>>
      BY <1>10, <2>1 DEF RecvFirst, Continues, Returns
    <3>6. main = "first"
      BY <1>1, <1>3, <1>10, <2>1 DEF Phases, RecvFirst, Continues, Returns
    <3>7. /\ Tail(client.queue) \in Seq(1 .. MaxRequests) /\ Head(client.queue) \in 0 .. MaxRequests
          /\ Head(client.queue) = Taken + 1 /\ Head(client.queue) = Taken' /\ Ordered(client'.queue, Taken')
          /\ Len(client'.queue) = Len(client.queue) - 1 /\ Len(client.queue) > 0
      <4>1. /\ Taken \in Nat /\ client.queue \in Seq(1 .. MaxRequests) /\ client.queue # <<>> /\ Ordered(client.queue, Taken)
            /\ client.sent \in Nat /\ Len(client.queue) \in Nat
        <5>1. Len(client.queue) \in Nat /\ client.sent \in Nat /\ Len(client.queue) <= client.sent
          BY <1>1, FieldTypes DEF QueuesOrdered
        <5>2. Taken \in Nat
          BY <5>1 DEF Taken
        <5>3. client.queue # <<>>
          BY <1>10, <2>1, <3>6 DEF RecvFirst, Continues, Returns
        <5> QED BY <1>1, <5>1, <5>2, <5>3, FieldTypes DEF QueuesOrdered
      <4>2. /\ Head(client.queue) = Taken + 1 /\ Head(client.queue) \in 1 .. MaxRequests
            /\ Ordered(Tail(client.queue), Taken + 1) /\ Tail(client.queue) \in Seq(1 .. MaxRequests)
            /\ Len(client.queue) > 0 /\ Len(Tail(client.queue)) = Len(client.queue) - 1
        BY <4>1, OrderedTail
      <4>3. Len(client'.queue) = Len(client.queue) - 1 /\ client'.sent = client.sent
        BY <3>2, <4>2
      <4>4. Taken' = Taken + 1
        BY <4>1, <4>3 DEF Taken
      <4>5. Ordered(client'.queue, Taken')
        BY <3>2, <4>2, <4>4
      <4> QED BY <4>2, <4>3, <4>4, <4>5, BoundsAreNat
    <3>8. /\ Taken' = Taken + 1 /\ Forwarded' = Forwarded /\ Fetched' = Fetched
      <4>1. Taken' = Taken + 1
        BY <1>4, <3>2, <3>7 DEF Taken
      <4>2. Forwarded' = Forwarded
        BY <3>5 DEF Forwarded
      <4>3. Fetched' = Fetched
        BY <3>5 DEF Fetched
      <4> QED BY <4>1, <4>2, <4>3
    <3>9. TypeOK'
      <4>1. client' \in Client
        BY <1>1, <1>10, <2>1, <3>1, <3>7, FieldTypes DEF Client
      <4>2. args' \in [main : 0 .. MaxRequests, inb : 0 .. MaxRequests]
        BY <1>1, <3>3, <3>7, FieldTypes
      <4> QED
        BY <1>1, <3>5, <4>1, <4>2 DEF TypeOK
    <3>10. QueuesOrdered'
      BY <1>1, <3>2, <3>4, <3>5, <3>7, FieldTypes DEF QueuesOrdered, Taken, Fetched
    <3>11. Phases'
      BY <1>1, <3>6, <3>2, <3>4, <3>5 DEF Phases
    <3>12. RequestsFlow'
      BY <1>1, <1>4, <3>6, <3>2, <3>4, <3>5, <3>7, <3>8 DEF RequestsFlow, Phases
    <3>13. RepliesFlow'
      BY <1>1, <1>3, <1>4, <3>6, <3>2, <3>4, <3>5, <3>7, <3>8 DEF RepliesFlow, Phases
    <3>14. OkMeansComplete'
      BY <1>1, <1>3, <1>4, <3>6, <3>2, <3>4, <3>5, <3>7, <3>8 DEF OkMeansComplete, Phases,
         RepliesFlow
    <3> QED
      BY <3>9, <3>10, <3>11, <3>12, <3>13, <3>14
  <2>2. CASE main' = "done" /\ client' = client
    <3>1. /\ main' = "done" /\ result' \in {"eof", "client"}
          /\ UNCHANGED <<desc, client, backend, args, inb, reply, inErr>>
      BY <1>10, <2>2 DEF RecvFirst, Continues, Returns
    <3>2. main = "first"
      BY <1>1, <1>3, <1>10, <2>2 DEF Phases, RecvFirst, Continues, Returns
    <3>3. TypeOK'
      BY <1>1, <3>1 DEF TypeOK
    <3>4. QueuesOrdered'
      BY <1>1, <3>1 DEF QueuesOrdered, Taken, Fetched
    <3>5. Phases'
      BY <1>1, <3>2, <3>1 DEF Phases
    <3>6. RequestsFlow'
      BY <1>1, <1>4, <3>2, <3>1 DEF RequestsFlow, Taken, Forwarded, Phases
    <3>7. RepliesFlow'
      BY <1>1, <1>3, <1>4, <3>2, <3>1 DEF RepliesFlow, Fetched, Phases
    <3>8. OkMeansComplete'
      BY <1>1, <1>3, <1>4, <3>2, <3>1 DEF OkMeansComplete, Phases, RepliesFlow
    <3> QED
      BY <3>3, <3>4, <3>5, <3>6, <3>7, <3>8
  <2>3. CASE /\ main' = "done" /\ client.queue # <<>>
             /\ client' = [client EXCEPT !.queue = Tail(@)]
    <3>1. client' = [input |-> client.input, sent |-> client.sent,
                     queue |-> Tail(client.queue), replies |-> client.replies]
      <4>1. client = [input |-> client.input, sent |-> client.sent, queue |-> client.queue,
                      replies |-> client.replies]
        BY <1>1 DEF TypeOK, Client
      <4> QED
        BY <1>10, <2>3, <4>1 DEF RecvFirst, Continues, Returns
    <3>2. /\ client'.input = client.input /\ client'.sent = client.sent
          /\ client'.queue = Tail(client.queue) /\ client'.replies = client.replies
      BY <3>1
    <3>3. /\ main = "first" /\ main' = "done" /\ result' \in {"eof", "client"}
          /\ UNCHANGED <<desc, backend, args, inb, reply, inErr>>
          /\ client.queue # <<>>
      BY <1>10, <2>3 DEF RecvFirst, Continues, Returns
    <3>4. /\ Tail(client.queue) \in Seq(1 .. MaxRequests) /\ Ordered(client'.queue, Taken')
          /\ Len(client'.queue) = Len(client.queue) - 1 /\ Len(client.queue) > 0
      <4>1. /\ Taken \in Nat /\ client.queue \in Seq(1 .. MaxRequests) /\ Ordered(client.queue, Taken)
            /\ Len(client.queue) <= client.sent
        BY <1>1, <1>4, FieldTypes DEF QueuesOrdered
      <4>2. /\ Ordered(Tail(client.queue), Taken + 1) /\ Tail(client.queue) \in Seq(1 .. MaxRequests)
            /\ Len(client.queue) > 0 /\ Len(Tail(client.queue)) = Len(client.queue) - 1
        BY <3>3, <4>1, OrderedTail
      <4>3. Taken' = Taken + 1
        BY <1>4, <3>2, <4>2 DEF Taken
      <4> QED BY <3>2, <4>2, <4>3
    <3>5. TypeOK'
      <4>1. client' \in Client
        BY <1>1, <3>1, <3>4, FieldTypes DEF Client
      <4> QED BY <1>1, <3>3, <4>1 DEF TypeOK
    <3>6. QueuesOrdered'
      BY <1>1, <1>4, <3>2, <3>3, <3>4 DEF QueuesOrdered, Fetched
    <3>7. Phases'
      BY <1>1, <3>3 DEF Phases
    <3>8. RequestsFlow'
      BY <1>1, <3>2, <3>3, <3>4 DEF RequestsFlow, Taken, Forwarded, Phases
    <3>9. RepliesFlow'
      BY <1>1, <3>2, <3>3 DEF RepliesFlow, Fetched, Phases
    <3>10. OkMeansComplete'
      BY <1>1, <3>2, <3>3 DEF OkMeansComplete, Phases
    <3> QED
      BY <3>5, <3>6, <3>7, <3>8, <3>9, <3>10
  <2> QED
    BY <1>10, <2>1, <2>2, <2>3 DEF RecvFirst, Continues, Returns
<1>11. CASE NewStream
  <2>1. CASE main' = "sendfirst"
    <3>1. backend' = [st |-> "running", patient |-> backend.patient,
                      queue |-> backend.queue, got |-> backend.got,
                      halfClosed |-> backend.halfClosed, out |-> backend.out,
                      made |-> backend.made]
      <4>1. backend = [st |-> backend.st, patient |-> backend.patient,
                       queue |-> backend.queue, got |-> backend.got,
                       halfClosed |-> backend.halfClosed, out |-> backend.out,
                       made |-> backend.made]
        BY <1>1 DEF TypeOK, Backend
      <4> QED
        BY <1>11, <2>1, <4>1 DEF NewStream, Continues, Returns
    <3>2. /\ backend'.st = "running" /\ backend'.patient = backend.patient
          /\ backend'.queue = backend.queue /\ backend'.got = backend.got
          /\ backend'.halfClosed = backend.halfClosed /\ backend'.out = backend.out
          /\ backend'.made = backend.made
      BY <3>1
    <3>3. /\ main' = "sendfirst" /\ UNCHANGED <<desc, client, args, inb, reply, inErr, result>>
      BY <1>11, <2>1 DEF NewStream, Continues, Returns
    <3>4. main = "open"
      BY <1>1, <1>3, <1>11, <2>1 DEF Phases, NewStream, Continues, Returns
    <3>5. /\ Taken' = Taken /\ Forwarded' = Forwarded /\ Fetched' = Fetched
      <4>1. Taken' = Taken
        BY <3>3 DEF Taken
      <4>2. Forwarded' = Forwarded
        BY <1>4, <3>2 DEF Forwarded
      <4>3. Fetched' = Fetched
        BY <1>4, <3>2 DEF Fetched
      <4> QED BY <4>1, <4>2, <4>3
    <3>6. TypeOK'
      <4>1. backend' \in Backend
        BY <1>1, <1>11, <2>1, <3>1, FieldTypes DEF Backend, NewStream, Continues, Returns
      <4> QED
        BY <1>1, <3>3, <4>1 DEF TypeOK
    <3>7. QueuesOrdered'
      BY <1>1, <3>2, <3>3, FieldTypes DEF QueuesOrdered, Taken, Fetched
    <3>8. Phases'
      BY <1>1, <3>4, <3>2, <3>3 DEF Phases
    <3>9. RequestsFlow'
      BY <1>1, <1>4, <3>4, <3>2, <3>3, <3>5 DEF RequestsFlow, Phases
    <3>10. RepliesFlow'
      BY <1>1, <1>3, <1>4, <3>4, <3>2, <3>3, <3>5 DEF RepliesFlow, Phases
    <3>11. OkMeansComplete'
      BY <1>1, <1>3, <1>4, <3>4, <3>2, <3>3, <3>5 DEF OkMeansComplete, Phases, RepliesFlow
    <3> QED
      BY <3>6, <3>7, <3>8, <3>9, <3>10, <3>11
  <2>2. CASE main' = "done"
    <3>1. /\ main' = "done" /\ result' = "backend"
          /\ UNCHANGED <<desc, client, backend, args, inb, reply, inErr>>
      BY <1>11, <2>2 DEF NewStream, Continues, Returns
    <3>2. main = "open"
      BY <1>1, <1>3, <1>11, <2>2 DEF Phases, NewStream, Continues, Returns
    <3>3. TypeOK'
      BY <1>1, <3>1 DEF TypeOK
    <3>4. QueuesOrdered'
      BY <1>1, <3>1 DEF QueuesOrdered, Taken, Fetched
    <3>5. Phases'
      BY <1>1, <3>2, <3>1 DEF Phases
    <3>6. RequestsFlow'
      BY <1>1, <1>4, <3>2, <3>1 DEF RequestsFlow, Taken, Forwarded, Phases
    <3>7. RepliesFlow'
      BY <1>1, <1>3, <1>4, <3>2, <3>1 DEF RepliesFlow, Fetched, Phases
    <3>8. OkMeansComplete'
      BY <1>1, <1>3, <1>4, <3>2, <3>1 DEF OkMeansComplete, Phases, RepliesFlow
    <3> QED
      BY <3>3, <3>4, <3>5, <3>6, <3>7, <3>8
  <2> QED
    BY <1>11, <2>1, <2>2 DEF NewStream, Continues, Returns
<1>12. CASE SendFirst
  <2>1. CASE main' = "recv" /\ ~Ended
    <3>1. backend' = [st |-> backend.st, patient |-> backend.patient,
                      queue |-> Append(backend.queue, args.main), got |-> backend.got,
                      halfClosed |-> ~desc.client, out |-> backend.out,
                      made |-> backend.made]
      <4>1. backend = [st |-> backend.st, patient |-> backend.patient,
                       queue |-> backend.queue, got |-> backend.got,
                       halfClosed |-> backend.halfClosed, out |-> backend.out,
                       made |-> backend.made]
        BY <1>1 DEF TypeOK, Backend
      <4> QED
        BY <1>12, <2>1, <4>1 DEF SendFirst, Continues, Returns, Ended, Delivered
    <3>2. /\ backend'.st = backend.st /\ backend'.patient = backend.patient
          /\ backend'.queue = Append(backend.queue, args.main) /\ backend'.got = backend.got
          /\ backend'.halfClosed = ~desc.client /\ backend'.out = backend.out
          /\ backend'.made = backend.made
      BY <3>1
    <3>3. /\ main' = "recv" /\ inb' = (IF desc.client THEN "recv" ELSE "off")
          /\ UNCHANGED <<desc, client, args, reply, inErr, result>>
      BY <1>12, <2>1 DEF SendFirst, Continues, Returns, Ended, Delivered
    <3>4. main = "sendfirst" /\ backend.st # "none"
      BY <1>1, <1>3, <1>12, <2>1 DEF Phases, SendFirst, Continues, Returns, Ended, Delivered
    <3>5. /\ Append(backend.queue, args.main) \in Seq(1 .. MaxRequests) /\ args.main \in 0 .. MaxRequests
          /\ Len(backend'.queue) = Len(backend.queue) + 1 /\ Ordered(backend'.queue, Len(backend.got))
      <4>1. /\ args.main \in 1 .. MaxRequests /\ args.main = Len(backend.got) + Len(backend.queue) + 1
            /\ Len(backend.got) \in Nat /\ backend.queue \in Seq(1 .. MaxRequests) /\ Ordered(backend.queue, Len(backend.got))
        <5>1. args.main = Forwarded + 1 /\ args.main \in 0 .. MaxRequests
          <6>1. args.main = Forwarded + 1
            BY <1>1, <1>4, <3>4 DEF RequestsFlow
          <6> QED BY <1>1, <6>1, FieldTypes
        <5>2. args.main \in 1 .. MaxRequests
          BY <1>4, <5>1, BoundsAreNat
        <5>3. args.main = Len(backend.got) + Len(backend.queue) + 1
          BY <5>1, Zenon DEF Forwarded
        <5>4. backend.queue \in Seq(1 .. MaxRequests) /\ Ordered(backend.queue, Len(backend.got))
          BY <1>1, FieldTypes DEF QueuesOrdered
        <5> QED BY <1>4, <5>2, <5>3, <5>4, Zenon
      <4>2. /\ Ordered(Append(backend.queue, args.main), Len(backend.got)) /\ Append(backend.queue, args.main) \in Seq(1 .. MaxRequests)
            /\ Len(Append(backend.queue, args.main)) = Len(backend.queue) + 1
        <5>1. PICK n \in Nat : n = Len(backend.got)
          BY <4>1
        <5>2. args.main = n + Len(backend.queue) + 1 /\ Ordered(backend.queue, n)
          BY <4>1, <5>1, Zenon
        <5>3. args.main \in 1 .. MaxRequests /\ backend.queue \in Seq(1 .. MaxRequests)
          BY <4>1, Zenon
        <5>4. /\ Ordered(Append(backend.queue, args.main), n) /\ Append(backend.queue, args.main) \in Seq(1 .. MaxRequests)
              /\ Len(Append(backend.queue, args.main)) = Len(backend.queue) + 1
          BY <5>2, <5>3, OrderedAppend
        <5> QED BY <5>1, <5>4, Zenon
      <4>3. Ordered(backend'.queue, Len(backend.got)) /\ Len(backend'.queue) = Len(backend.queue) + 1
        BY <3>2, <4>2, Zenon
      <4> QED BY <4>2, <4>3, FieldTypes, <1>1, Zenon
    <3>6. /\ Taken' = Taken /\ Forwarded' = Forwarded + 1 /\ Fetched' = Fetched
      <4>1. Taken' = Taken
        BY <3>3 DEF Taken
      <4>2. Forwarded' = Forwarded + 1
        <5>1. Len(backend'.got) = Len(backend.got) /\ Len(backend'.queue) = Len(backend.queue) + 1
          BY <3>2, <3>5
        <5>2. Forwarded' = (Len(backend.got)) + (Len(backend.queue) + 1)
          BY <5>1, Zenon DEF Forwarded
        <5>3. (Len(backend.got)) + (Len(backend.queue) + 1) = (Len(backend.got) + Len(backend.queue)) + 1
          BY <1>4, SumMoves, Zenon
        <5> QED BY <5>2, <5>3, Zenon DEF Forwarded
      <4>3. Fetched' = Fetched
        BY <1>4, <3>2, <3>5 DEF Fetched
      <4> QED BY <4>1, <4>2, <4>3
    <3>7. TypeOK'
      <4>1. backend' \in Backend
        BY <1>1, <1>12, <2>1, <3>1, <3>5, FieldTypes DEF Backend
      <4> QED
        BY <1>1, <3>3, <4>1 DEF TypeOK
    <3>8. QueuesOrdered'
      BY <1>1, <3>2, <3>3, <3>5, FieldTypes DEF QueuesOrdered, Taken, Fetched
    <3>9. Phases'
      BY <1>1, <3>4, <3>2, <3>3 DEF Phases
    <3>10. RequestsFlow'
      BY <1>1, <1>4, <3>4, <3>2, <3>3, <3>5, <3>6 DEF RequestsFlow, Phases
    <3>11. RepliesFlow'
      BY <1>1, <1>3, <1>4, <3>4, <3>2, <3>3, <3>5, <3>6 DEF RepliesFlow, Phases
    <3>12. OkMeansComplete'
      BY <1>1, <1>3, <1>4, <3>4, <3>2, <3>3, <3>5, <3>6 DEF OkMeansComplete, Phases,
         RepliesFlow
    <3> QED
      BY <3>7, <3>8, <3>9, <3>10, <3>11, <3>12
  <2>2. CASE main' = "recv" /\ Ended
    <3>1. /\ main' = "recv" /\ inb' = (IF desc.client THEN "recv" ELSE "off")
          /\ UNCHANGED <<desc, client, backend, args, reply, inErr, result>>
      BY <1>12, <2>2 DEF SendFirst, Continues, Returns, Ended
    <3>2. main = "sendfirst" /\ backend.st \notin {"none", "running"}
      BY <1>1, <1>3, <1>12, <2>2 DEF Phases, SendFirst, Continues, Returns, Ended
    <3>3. TypeOK'
      BY <1>1, <3>1 DEF TypeOK
    <3>4. QueuesOrdered'
      BY <1>1, <3>1 DEF QueuesOrdered, Taken, Fetched
    <3>5. Phases'
      BY <1>1, <3>2, <3>1 DEF Phases
    <3>6. RequestsFlow'
      BY <1>1, <1>4, <3>2, <3>1 DEF RequestsFlow, Taken, Forwarded, Phases
    <3>7. RepliesFlow'
      BY <1>1, <1>3, <1>4, <3>2, <3>1 DEF RepliesFlow, Fetched, Phases
    <3>8. OkMeansComplete'
      BY <1>1, <1>3, <1>4, <3>2, <3>1 DEF OkMeansComplete, Phases, RepliesFlow
    <3> QED
      BY <3>3, <3>4, <3>5, <3>6, <3>7, <3>8
  <2>3. CASE main' = "done"
    <3>1. /\ main' = "done" /\ result' = "eof"
          /\ UNCHANGED <<desc, client, backend, args, inb, reply, inErr>>
      BY <1>12, <2>3 DEF SendFirst, Continues, Returns, Ended
    <3>2. main = "sendfirst"
      BY <1>1, <1>3, <1>12, <2>3 DEF Phases, SendFirst, Continues, Returns, Ended
    <3>3. TypeOK'
      BY <1>1, <3>1 DEF TypeOK
    <3>4. QueuesOrdered'
      BY <1>1, <3>1 DEF QueuesOrdered, Taken, Fetched
    <3>5. Phases'
      BY <1>1, <3>2, <3>1 DEF Phases
    <3>6. RequestsFlow'
      BY <1>1, <1>4, <3>2, <3>1 DEF RequestsFlow, Taken, Forwarded, Phases
    <3>7. RepliesFlow'
      BY <1>1, <1>3, <1>4, <3>2, <3>1 DEF RepliesFlow, Fetched, Phases
    <3>8. OkMeansComplete'
      BY <1>1, <1>3, <1>4, <3>2, <3>1 DEF OkMeansComplete, Phases, RepliesFlow
    <3> QED
      BY <3>3, <3>4, <3>5, <3>6, <3>7, <3>8
  <2> QED
    BY <1>12, <2>1, <2>2, <2>3 DEF SendFirst, Continues, Returns, Ended
<1> QED
  BY <1>10, <1>11, <1>12

(* The handler, as it forwards the replies. *)
LEMMA ReplySteps ==
  ASSUME IInv, RecvReply \/ SendReply \/ Wait
  PROVE  IInv'
<1> USE BoundsAreNat
<1>1. TypeOK /\ QueuesOrdered /\ Phases /\ RequestsFlow /\ RepliesFlow /\ OkMeansComplete
  BY DEF IInv
<1>2. SUFFICES /\ TypeOK' /\ QueuesOrdered' /\ Phases' /\ RequestsFlow' /\ RepliesFlow'
               /\ OkMeansComplete'
  BY DEF IInv
<1>3. /\ desc.client \in BOOLEAN /\ desc.server \in BOOLEAN
      /\ backend.st \in {"none", "running", "ok", "error", "gone"}
  BY <1>1, FieldTypes
<1>4. /\ Taken \in Nat /\ Forwarded \in Nat /\ Fetched \in Nat
      /\ Len(client.queue) \in Nat /\ Len(client.replies) \in Nat /\ Len(backend.queue) \in Nat
      /\ Len(backend.got) \in Nat /\ Len(backend.out) \in Nat
      /\ client.sent \in Nat /\ backend.made \in Nat /\ reply \in Nat
      /\ args.main \in Nat /\ args.inb \in Nat
  BY <1>1, CountTypes
<1>10. CASE RecvReply
  <2>1. CASE main' = "send"
    <3>1. backend' = [st |-> backend.st, patient |-> backend.patient,
                      queue |-> backend.queue, got |-> backend.got,
                      halfClosed |-> backend.halfClosed, out |-> Tail(backend.out),
                      made |-> backend.made]
      <4>1. backend = [st |-> backend.st, patient |-> backend.patient,
                       queue |-> backend.queue, got |-> backend.got,
                       halfClosed |-> backend.halfClosed, out |-> backend.out,
                       made |-> backend.made]
        BY <1>1 DEF TypeOK, Backend
      <4> QED
        BY <1>10, <2>1, <4>1 DEF RecvReply, Continues, Returns, CtxDone
    <3>2. /\ backend'.st = backend.st /\ backend'.patient = backend.patient
          /\ backend'.queue = backend.queue /\ backend'.got = backend.got
          /\ backend'.halfClosed = backend.halfClosed /\ backend'.out = Tail(backend.out)
          /\ backend'.made = backend.made
      BY <3>1
    <3>3. /\ main' = "send" /\ reply' = Head(backend.out)
          /\ UNCHANGED <<desc, client, args, inb, inErr, result>>
      BY <1>10, <2>1 DEF RecvReply, Continues, Returns, CtxDone
    <3>4. main = "recv" /\ (desc.server \/ backend.st = "ok")
      BY <1>1, <1>3, <1>10, <2>1 DEF Phases, RecvReply, Continues, Returns, CtxDone
    <3>5. /\ Tail(backend.out) \in Seq(1 .. MaxReplies) /\ Head(backend.out) \in 0 .. MaxReplies
          /\ Head(backend.out) = Fetched + 1 /\ Head(backend.out) = Fetched' /\ Ordered(backend'.out, Fetched')
          /\ Len(backend'.out) = Len(backend.out) - 1 /\ Len(backend.out) > 0
      <4>1. /\ Fetched \in Nat /\ backend.out \in Seq(1 .. MaxReplies) /\ backend.out # <<>> /\ Ordered(backend.out, Fetched)
            /\ backend.made \in Nat /\ Len(backend.out) \in Nat
        <5>1. Len(backend.out) \in Nat /\ backend.made \in Nat /\ Len(backend.out) <= backend.made
          BY <1>1, FieldTypes DEF QueuesOrdered
        <5>2. Fetched \in Nat
          BY <5>1 DEF Fetched
        <5>3. backend.out # <<>>
          BY <1>10, <2>1, <3>4 DEF RecvReply, Continues, Returns, CtxDone
        <5> QED BY <1>1, <5>1, <5>2, <5>3, FieldTypes DEF QueuesOrdered
      <4>2. /\ Head(backend.out) = Fetched + 1 /\ Head(backend.out) \in 1 .. MaxReplies
            /\ Ordered(Tail(backend.out), Fetched + 1) /\ Tail(backend.out) \in Seq(1 .. MaxReplies)
            /\ Len(backend.out) > 0 /\ Len(Tail(backend.out)) = Len(backend.out) - 1
        BY <4>1, OrderedTail
      <4>3. Len(backend'.out) = Len(backend.out) - 1 /\ backend'.made = backend.made
        BY <3>2, <4>2
      <4>4. Fetched' = Fetched + 1
        BY <4>1, <4>3 DEF Fetched
      <4>5. Ordered(backend'.out, Fetched')
        BY <3>2, <4>2, <4>4
      <4> QED BY <4>2, <4>3, <4>4, <4>5, BoundsAreNat
    <3>6. /\ Taken' = Taken /\ Forwarded' = Forwarded /\ Fetched' = Fetched + 1
      <4>1. Taken' = Taken
        BY <3>3 DEF Taken
      <4>2. Forwarded' = Forwarded
        BY <1>4, <3>2, <3>5 DEF Forwarded
      <4>3. Fetched' = Fetched + 1
        BY <1>4, <3>2, <3>5 DEF Fetched
      <4> QED BY <4>1, <4>2, <4>3
    <3>7. TypeOK'
      <4>1. backend' \in Backend
        BY <1>1, <1>10, <2>1, <3>1, <3>5, FieldTypes DEF Backend
      <4> QED
        BY <1>1, <3>3, <4>1, <3>5 DEF TypeOK
    <3>8. QueuesOrdered'
      BY <1>1, <3>2, <3>3, <3>5, FieldTypes DEF QueuesOrdered, Taken, Fetched
    <3>9. Phases'
      BY <1>1, <3>4, <3>2, <3>3 DEF Phases
    <3>10. RequestsFlow'
      BY <1>1, <1>4, <3>4, <3>2, <3>3, <3>5, <3>6 DEF RequestsFlow, Phases
    <3>11. RepliesFlow'
      BY <1>1, <1>3, <1>4, <3>4, <3>2, <3>3, <3>5, <3>6 DEF RepliesFlow, Phases
    <3>12. OkMeansComplete'
      BY <1>1, <1>3, <1>4, <3>4, <3>2, <3>3, <3>5, <3>6 DEF OkMeansComplete, Phases,
         RepliesFlow
    <3> QED
      BY <3>7, <3>8, <3>9, <3>10, <3>11, <3>12
  <2>2. CASE main' = "wait"
    <3>1. /\ main' = "wait" /\ UNCHANGED <<desc, client, backend, args, inb, reply, inErr, result>>
      BY <1>10, <2>2 DEF RecvReply, Continues, Returns, CtxDone
    <3>2. main = "recv" /\ backend.st = "ok" /\ backend.out = <<>>
      BY <1>1, <1>3, <1>10, <2>2 DEF Phases, RecvReply, Continues, Returns, CtxDone
    <3>3. TypeOK'
      BY <1>1, <3>1 DEF TypeOK
    <3>4. QueuesOrdered'
      BY <1>1, <3>1 DEF QueuesOrdered, Taken, Fetched
    <3>5. Phases'
      BY <1>1, <3>2, <3>1 DEF Phases
    <3>6. RequestsFlow'
      BY <1>1, <1>4, <3>2, <3>1 DEF RequestsFlow, Taken, Forwarded, Phases
    <3>7. RepliesFlow'
      BY <1>1, <1>3, <1>4, <3>2, <3>1 DEF RepliesFlow, Fetched, Phases
    <3>8. OkMeansComplete'
      BY <1>1, <1>3, <1>4, <3>2, <3>1 DEF OkMeansComplete, Phases, RepliesFlow
    <3> QED
      BY <3>3, <3>4, <3>5, <3>6, <3>7, <3>8
  <2>3. CASE main' = "done"
    <3>1. /\ main' = "done" /\ result' \in {"backend", "client"}
          /\ UNCHANGED <<desc, client, backend, args, inb, reply, inErr>>
      BY <1>10, <2>3 DEF RecvReply, Continues, Returns, CtxDone
    <3>2. main = "recv"
      BY <1>1, <1>3, <1>10, <2>3 DEF Phases, RecvReply, Continues, Returns, CtxDone
    <3>3. TypeOK'
      BY <1>1, <3>1 DEF TypeOK
    <3>4. QueuesOrdered'
      BY <1>1, <3>1 DEF QueuesOrdered, Taken, Fetched
    <3>5. Phases'
      BY <1>1, <3>2, <3>1 DEF Phases
    <3>6. RequestsFlow'
      BY <1>1, <1>4, <3>2, <3>1 DEF RequestsFlow, Taken, Forwarded, Phases
    <3>7. RepliesFlow'
      BY <1>1, <1>3, <1>4, <3>2, <3>1 DEF RepliesFlow, Fetched, Phases
    <3>8. OkMeansComplete'
      BY <1>1, <1>3, <1>4, <3>2, <3>1 DEF OkMeansComplete, Phases, RepliesFlow
    <3> QED
      BY <3>3, <3>4, <3>5, <3>6, <3>7, <3>8
  <2> QED
    BY <1>10, <2>1, <2>2, <2>3 DEF RecvReply, Continues, Returns, CtxDone
<1>11. CASE SendReply
  <2>1. CASE /\ client.input # "reset"
             /\ client' = [client EXCEPT !.replies = Append(@, reply)]
             /\ IF desc.server THEN Continues("recv")
                ELSE IF desc.client THEN Continues("wait") ELSE Returns("ok")
    <3>1. client' = [input |-> client.input, sent |-> client.sent, queue |-> client.queue,
                     replies |-> Append(client.replies, reply)]
      <4>1. client = [input |-> client.input, sent |-> client.sent, queue |-> client.queue,
                      replies |-> client.replies]
        BY <1>1 DEF TypeOK, Client
      <4> QED
        BY <1>11, <2>1, <4>1 DEF SendReply, Continues, Returns
    <3>2. /\ client'.input = client.input /\ client'.sent = client.sent
          /\ client'.queue = client.queue /\ client'.replies = Append(client.replies, reply)
      BY <3>1
    <3>3. /\ (desc.server => main' = "recv" /\ result' = result)
          /\ (~desc.server => IF desc.client THEN main' = "wait" /\ result' = result ELSE main' = "done" /\ result' = "ok")
          /\ UNCHANGED <<desc, backend, args, inb, reply, inErr>>
      BY <1>11, <2>1 DEF SendReply, Continues, Returns
    <3>4. main = "send" /\ (~desc.server => backend.st = "ok" /\ Len(client.replies) + 1 = backend.made)
      <4>1. /\ main = "send" /\ reply = Fetched /\ reply = Len(client.replies) + 1
            /\ (~desc.server => backend.st = "ok" /\ backend.made <= 1)
        BY <1>1, <1>3, <1>11, <2>1 DEF RepliesFlow, SendReply
      <4>2. Fetched <= backend.made
        BY <1>4 DEF Fetched
      <4> QED BY <1>3, <1>4, <4>1, <4>2
    <3>5. /\ Append(client.replies, reply) \in Seq(1 .. MaxReplies) /\ reply \in 0 .. MaxReplies
          /\ Len(client'.replies) = Len(client.replies) + 1 /\ Ordered(client'.replies, 0)
      <4>1. /\ reply \in 1 .. MaxReplies /\ reply = 0 + Len(client.replies) + 1
            /\ 0 \in Nat /\ client.replies \in Seq(1 .. MaxReplies) /\ Ordered(client.replies, 0)
        <5>1. /\ reply = Len(client.replies) + 1 /\ reply \in 0 .. MaxReplies
              /\ Len(client.replies) \in Nat
          <6>1. main = "send"
            BY <1>11 DEF SendReply
          <6> QED BY <1>1, <1>4, <2>1, <6>1 DEF RepliesFlow, TypeOK
        <5>2. client.replies \in Seq(1 .. MaxReplies) /\ Ordered(client.replies, 0)
          BY <1>1, FieldTypes DEF QueuesOrdered
        <5> QED BY <5>1, <5>2, BoundsAreNat
      <4>2. /\ Ordered(Append(client.replies, reply), 0) /\ Append(client.replies, reply) \in Seq(1 .. MaxReplies)
            /\ Len(Append(client.replies, reply)) = Len(client.replies) + 1
        BY <4>1, OrderedAppend
      <4>3. Ordered(client'.replies, 0) /\ Len(client'.replies) = Len(client.replies) + 1
        BY <3>2, <4>2
      <4> QED BY <4>2, <4>3, <4>1, BoundsAreNat
    <3>6. /\ Taken' = Taken /\ Forwarded' = Forwarded /\ Fetched' = Fetched
      <4>1. Taken' = Taken
        BY <1>4, <3>2, <3>5 DEF Taken
      <4>2. Forwarded' = Forwarded
        BY <3>3 DEF Forwarded
      <4>3. Fetched' = Fetched
        BY <3>3 DEF Fetched
      <4> QED BY <4>1, <4>2, <4>3
    <3>7. TypeOK'
      <4>1. client' \in Client
        BY <1>1, <1>11, <2>1, <3>1, <3>5, FieldTypes DEF Client
      <4> QED
        BY <1>1, <3>3, <4>1 DEF TypeOK
    <3>8. QueuesOrdered'
      BY <1>1, <3>2, <3>3, <3>5, FieldTypes DEF QueuesOrdered, Taken, Fetched
    <3>9. Phases'
      BY <1>1, <3>4, <3>2, <3>3 DEF Phases
    <3>10. RequestsFlow'
      BY <1>1, <1>4, <3>4, <3>2, <3>3, <3>5, <3>6 DEF RequestsFlow, Phases
    <3>11. RepliesFlow'
      BY <1>1, <1>3, <1>4, <3>4, <3>2, <3>3, <3>5, <3>6 DEF RepliesFlow, Phases
    <3>12. OkMeansComplete'
      BY <1>1, <1>3, <1>4, <3>4, <3>2, <3>3, <3>5, <3>6 DEF OkMeansComplete, Phases,
         RepliesFlow
    <3> QED
      BY <3>7, <3>8, <3>9, <3>10, <3>11, <3>12
  <2>2. CASE /\ client.input = "reset" /\ client' = client
             /\ IF desc.server THEN Continues("recv")
                ELSE IF desc.client THEN Continues("wait") ELSE Returns("ok")
    <3>1. /\ (desc.server => main' = "recv" /\ result' = result)
          /\ (~desc.server => IF desc.client THEN main' = "wait" /\ result' = result ELSE main' = "done" /\ result' = "ok")
          /\ UNCHANGED <<desc, client, backend, args, inb, reply, inErr>>
      BY <1>11, <2>2 DEF SendReply, Continues, Returns
    <3>2. main = "send" /\ client.input = "reset" /\ (~desc.server => backend.st = "ok")
      BY <1>1, <1>11, <2>2 DEF RepliesFlow, SendReply
    <3>3. TypeOK'
      BY <1>1, <1>3, <3>1 DEF TypeOK
    <3>4. QueuesOrdered'
      BY <1>1, <3>1 DEF QueuesOrdered, Taken, Fetched
    <3>5. Phases'
      BY <1>1, <1>3, <3>2, <3>1 DEF Phases
    <3>6. RequestsFlow'
      BY <1>1, <1>3, <3>2, <3>1 DEF RequestsFlow, Taken, Forwarded, Phases
    <3>7. RepliesFlow'
      BY <1>1, <1>3, <3>2, <3>1 DEF RepliesFlow, Fetched, Phases
    <3>8. OkMeansComplete'
      BY <1>1, <1>3, <3>2, <3>1 DEF OkMeansComplete, Phases
    <3> QED
      BY <3>3, <3>4, <3>5, <3>6, <3>7, <3>8
  <2>3. CASE client' = client /\ Returns("client")
    <3>1. /\ main' = "done" /\ result' = "client" /\ main = "send"
          /\ UNCHANGED <<desc, client, backend, args, inb, reply, inErr>>
      BY <1>11, <2>3 DEF SendReply, Returns
    <3>3. TypeOK'
      BY <1>1, <3>1 DEF TypeOK
    <3>4. QueuesOrdered'
      BY <1>1, <3>1 DEF QueuesOrdered, Taken, Fetched
    <3>5. Phases'
      BY <1>1, <3>1 DEF Phases
    <3>6. RequestsFlow'
      BY <1>1, <3>1 DEF RequestsFlow, Taken, Forwarded, Phases
    <3>7. RepliesFlow'
      BY <1>1, <3>1 DEF RepliesFlow, Fetched, Phases
    <3>8. OkMeansComplete'
      BY <3>1 DEF OkMeansComplete
    <3> QED
      BY <3>3, <3>4, <3>5, <3>6, <3>7, <3>8
  <2> QED
    BY <1>11, <2>1, <2>2, <2>3 DEF SendReply
<1>12. CASE Wait
  <2>1. /\ main' = "done" /\ result' \in {"ok", "client"}
        /\ UNCHANGED <<desc, client, backend, args, inb, reply, inErr>>
    BY <1>12 DEF Wait, Returns
  <2>2. main = "wait" /\ (desc.client => inb = "done")
    BY <1>1, <1>3, <1>12 DEF Phases, Wait, Returns
  <2>3. TypeOK'
    BY <1>1, <2>1 DEF TypeOK
  <2>4. QueuesOrdered'
    BY <1>1, <2>1 DEF QueuesOrdered, Taken, Fetched
  <2>5. Phases'
    BY <1>1, <2>2, <2>1 DEF Phases
  <2>6. RequestsFlow'
    BY <1>1, <1>4, <2>2, <2>1 DEF RequestsFlow, Taken, Forwarded, Phases
  <2>7. RepliesFlow'
    BY <1>1, <1>3, <1>4, <2>2, <2>1 DEF RepliesFlow, Fetched, Phases
  <2>8. OkMeansComplete'
    BY <1>1, <1>3, <1>4, <2>2, <2>1 DEF OkMeansComplete, Phases, RepliesFlow
  <2> QED
    BY <2>3, <2>4, <2>5, <2>6, <2>7, <2>8
<1> QED
  BY <1>10, <1>11, <1>12

(* The inbound goroutine. *)
LEMMA InboundSteps ==
  ASSUME IInv, Inbound
  PROVE  IInv'
<1> USE BoundsAreNat
<1>1. TypeOK /\ QueuesOrdered /\ Phases /\ RequestsFlow /\ RepliesFlow /\ OkMeansComplete
  BY DEF IInv
<1>2. SUFFICES /\ TypeOK' /\ QueuesOrdered' /\ Phases' /\ RequestsFlow' /\ RepliesFlow'
               /\ OkMeansComplete'
  BY DEF IInv
<1>3. /\ desc.client \in BOOLEAN /\ desc.server \in BOOLEAN
      /\ backend.st \in {"none", "running", "ok", "error", "gone"}
  BY <1>1, FieldTypes
<1>4. /\ Taken \in Nat /\ Forwarded \in Nat /\ Fetched \in Nat
      /\ Len(client.queue) \in Nat /\ Len(client.replies) \in Nat /\ Len(backend.queue) \in Nat
      /\ Len(backend.got) \in Nat /\ Len(backend.out) \in Nat
      /\ client.sent \in Nat /\ backend.made \in Nat /\ reply \in Nat
      /\ args.main \in Nat /\ args.inb \in Nat
  BY <1>1, CountTypes
<1>10. CASE RecvNext
  <2>1. CASE inb' = "send"
    <3>1. client' = [input |-> client.input, sent |-> client.sent,
                     queue |-> Tail(client.queue), replies |-> client.replies]
      <4>1. client = [input |-> client.input, sent |-> client.sent, queue |-> client.queue,
                      replies |-> client.replies]
        BY <1>1 DEF TypeOK, Client
      <4> QED
        BY <1>10, <2>1, <4>1 DEF RecvNext, CtxDone, InboundStops
    <3>2. /\ client'.input = client.input /\ client'.sent = client.sent
          /\ client'.queue = Tail(client.queue) /\ client'.replies = client.replies
      BY <3>1
    <3>3. args' = [main |-> args.main, inb |-> Head(client.queue)]
      <4>1. args = [main |-> args.main, inb |-> args.inb]
        BY <1>1 DEF TypeOK
      <4> QED
        BY <1>10, <2>1, <4>1 DEF RecvNext, CtxDone, InboundStops
    <3>4. /\ args'.main = args.main /\ args'.inb = Head(client.queue)
      BY <3>3
    <3>5. /\ inb' = "send" /\ UNCHANGED <<desc, backend, main, reply, inErr, result>>
      BY <1>10, <2>1 DEF RecvNext, CtxDone, InboundStops
    <3>6. inb = "recv" /\ main # "done"
      BY <1>1, <1>3, <1>10, <2>1 DEF Phases, RecvNext, CtxDone, InboundStops
    <3>7. /\ Tail(client.queue) \in Seq(1 .. MaxRequests) /\ Head(client.queue) \in 0 .. MaxRequests
          /\ Head(client.queue) = Taken + 1 /\ Head(client.queue) = Taken' /\ Ordered(client'.queue, Taken')
          /\ Len(client'.queue) = Len(client.queue) - 1 /\ Len(client.queue) > 0
      <4>1. /\ Taken \in Nat /\ client.queue \in Seq(1 .. MaxRequests) /\ client.queue # <<>> /\ Ordered(client.queue, Taken)
            /\ client.sent \in Nat /\ Len(client.queue) \in Nat
        <5>1. Len(client.queue) \in Nat /\ client.sent \in Nat /\ Len(client.queue) <= client.sent
          BY <1>1, FieldTypes DEF QueuesOrdered
        <5>2. Taken \in Nat
          BY <5>1 DEF Taken
        <5>3. client.queue # <<>>
          BY <1>10, <2>1, <3>6 DEF RecvNext, CtxDone, InboundStops
        <5> QED BY <1>1, <5>1, <5>2, <5>3, FieldTypes DEF QueuesOrdered
      <4>2. /\ Head(client.queue) = Taken + 1 /\ Head(client.queue) \in 1 .. MaxRequests
            /\ Ordered(Tail(client.queue), Taken + 1) /\ Tail(client.queue) \in Seq(1 .. MaxRequests)
            /\ Len(client.queue) > 0 /\ Len(Tail(client.queue)) = Len(client.queue) - 1
        BY <4>1, OrderedTail
      <4>3. Len(client'.queue) = Len(client.queue) - 1 /\ client'.sent = client.sent
        BY <3>2, <4>2
      <4>4. Taken' = Taken + 1
        BY <4>1, <4>3 DEF Taken
      <4>5. Ordered(client'.queue, Taken')
        BY <3>2, <4>2, <4>4
      <4> QED BY <4>2, <4>3, <4>4, <4>5, BoundsAreNat
    <3>8. /\ Taken' = Taken + 1 /\ Forwarded' = Forwarded /\ Fetched' = Fetched
      <4>1. Taken' = Taken + 1
        BY <1>4, <3>2, <3>7 DEF Taken
      <4>2. Forwarded' = Forwarded
        BY <3>5 DEF Forwarded
      <4>3. Fetched' = Fetched
        BY <3>5 DEF Fetched
      <4> QED BY <4>1, <4>2, <4>3
    <3>9. TypeOK'
      <4>1. client' \in Client
        BY <1>1, <1>10, <2>1, <3>1, <3>7, FieldTypes DEF Client
      <4>2. args' \in [main : 0 .. MaxRequests, inb : 0 .. MaxRequests]
        BY <1>1, <3>3, <3>7, FieldTypes
      <4> QED
        BY <1>1, <3>5, <4>1, <4>2 DEF TypeOK
    <3>10. QueuesOrdered'
      BY <1>1, <3>2, <3>4, <3>5, <3>7, FieldTypes, SMTT(30) DEF QueuesOrdered, Taken, Fetched
    <3>11. Phases'
      BY <1>1, <3>6, <3>2, <3>4, <3>5 DEF Phases
    <3>12. RequestsFlow'
      BY <1>1, <1>4, <3>6, <3>2, <3>4, <3>5, <3>7, <3>8 DEF RequestsFlow, Phases
    <3>13. RepliesFlow'
      BY <1>1, <1>3, <1>4, <3>6, <3>2, <3>4, <3>5, <3>7, <3>8 DEF RepliesFlow, Phases
    <3>14. OkMeansComplete'
      BY <1>1, <1>3, <1>4, <3>6, <3>2, <3>4, <3>5, <3>7, <3>8 DEF OkMeansComplete, Phases,
         RepliesFlow
    <3> QED
      BY <3>9, <3>10, <3>11, <3>12, <3>13, <3>14
  <2>2. CASE inb' = "done" /\ client' = client
    <3>1. /\ inb' = "done" /\ inErr' \in {"eof", "error"}
          /\ UNCHANGED <<desc, client, backend, args, main, reply, result>>
      BY <1>10, <2>2 DEF RecvNext, CtxDone, InboundStops
    <3>2. inb = "recv"
      BY <1>1, <1>3, <1>10, <2>2 DEF Phases, RecvNext, CtxDone, InboundStops
    <3>3. TypeOK'
      BY <1>1, <3>1 DEF TypeOK
    <3>4. QueuesOrdered'
      BY <1>1, <3>1 DEF QueuesOrdered, Taken, Fetched
    <3>5. Phases'
      BY <1>1, <3>2, <3>1 DEF Phases
    <3>6. RequestsFlow'
      BY <1>1, <1>4, <3>2, <3>1 DEF RequestsFlow, Taken, Forwarded, Phases
    <3>7. RepliesFlow'
      BY <1>1, <1>3, <1>4, <3>2, <3>1 DEF RepliesFlow, Fetched, Phases
    <3>8. OkMeansComplete'
      BY <1>1, <1>3, <1>4, <3>2, <3>1 DEF OkMeansComplete, Phases, RepliesFlow
    <3> QED
      BY <3>3, <3>4, <3>5, <3>6, <3>7, <3>8
  <2>3. CASE /\ inb' = "done" /\ client.queue # <<>>
             /\ client' = [client EXCEPT !.queue = Tail(@)]
    <3>1. client' = [input |-> client.input, sent |-> client.sent,
                     queue |-> Tail(client.queue), replies |-> client.replies]
      <4>1. client = [input |-> client.input, sent |-> client.sent, queue |-> client.queue,
                      replies |-> client.replies]
        BY <1>1 DEF TypeOK, Client
      <4> QED
        BY <1>10, <2>3, <4>1 DEF RecvNext, CtxDone, InboundStops
    <3>2. /\ client'.input = client.input /\ client'.sent = client.sent
          /\ client'.queue = Tail(client.queue) /\ client'.replies = client.replies
      BY <3>1
    <3>3. /\ inb = "recv" /\ inb' = "done" /\ inErr' \in {"eof", "error"}
          /\ UNCHANGED <<desc, backend, main, args, reply, result>>
          /\ client.queue # <<>>
      BY <1>10, <2>3 DEF RecvNext, CtxDone, InboundStops
    <3>4. /\ Tail(client.queue) \in Seq(1 .. MaxRequests) /\ Ordered(client'.queue, Taken')
          /\ Len(client'.queue) = Len(client.queue) - 1 /\ Len(client.queue) > 0
      <4>1. /\ Taken \in Nat /\ client.queue \in Seq(1 .. MaxRequests) /\ Ordered(client.queue, Taken)
            /\ Len(client.queue) <= client.sent
        BY <1>1, <1>4, FieldTypes DEF QueuesOrdered
      <4>2. /\ Ordered(Tail(client.queue), Taken + 1) /\ Tail(client.queue) \in Seq(1 .. MaxRequests)
            /\ Len(client.queue) > 0 /\ Len(Tail(client.queue)) = Len(client.queue) - 1
        BY <3>3, <4>1, OrderedTail
      <4>3. Taken' = Taken + 1
        BY <1>4, <3>2, <4>2 DEF Taken
      <4> QED BY <3>2, <4>2, <4>3
    <3>5. TypeOK'
      <4>1. client' \in Client
        BY <1>1, <3>1, <3>4, FieldTypes DEF Client
      <4> QED BY <1>1, <3>3, <4>1 DEF TypeOK
    <3>6. QueuesOrdered'
      BY <1>1, <1>4, <3>2, <3>3, <3>4 DEF QueuesOrdered, Fetched
    <3>7. Phases'
      BY <1>1, <3>3 DEF Phases
    <3>8. RequestsFlow'
      BY <1>1, <3>2, <3>3, <3>4 DEF RequestsFlow, Taken, Forwarded, Phases
    <3>9. RepliesFlow'
      BY <1>1, <3>2, <3>3 DEF RepliesFlow, Fetched, Phases
    <3>10. OkMeansComplete'
      BY <1>1, <3>2, <3>3 DEF OkMeansComplete, Phases
    <3> QED
      BY <3>5, <3>6, <3>7, <3>8, <3>9, <3>10
  <2> QED
    BY <1>10, <2>1, <2>2, <2>3 DEF RecvNext, CtxDone, InboundStops
<1>11. CASE SendNext
  <2>1. CASE inb' = "recv" /\ ~Ended
    <3>1. backend' = [st |-> backend.st, patient |-> backend.patient,
                      queue |-> Append(backend.queue, args.inb), got |-> backend.got,
                      halfClosed |-> ~desc.client, out |-> backend.out,
                      made |-> backend.made]
      <4>1. backend = [st |-> backend.st, patient |-> backend.patient,
                       queue |-> backend.queue, got |-> backend.got,
                       halfClosed |-> backend.halfClosed, out |-> backend.out,
                       made |-> backend.made]
        BY <1>1 DEF TypeOK, Backend
      <4> QED
        BY <1>11, <2>1, <4>1 DEF SendNext, CtxDone, InboundStops, Ended, Delivered
    <3>2. /\ backend'.st = backend.st /\ backend'.patient = backend.patient
          /\ backend'.queue = Append(backend.queue, args.inb) /\ backend'.got = backend.got
          /\ backend'.halfClosed = ~desc.client /\ backend'.out = backend.out
          /\ backend'.made = backend.made
      BY <3>1
    <3>3. /\ inb' = "recv" /\ UNCHANGED <<desc, client, args, main, reply, inErr, result>>
      BY <1>11, <2>1 DEF SendNext, CtxDone, InboundStops, Ended, Delivered
    <3>4. inb = "send" /\ backend.st = "running"
      BY <1>1, <1>3, <1>11, <2>1 DEF Phases, SendNext, CtxDone, InboundStops, Ended,
         Delivered
    <3>5. /\ Append(backend.queue, args.inb) \in Seq(1 .. MaxRequests) /\ args.inb \in 0 .. MaxRequests
          /\ Len(backend'.queue) = Len(backend.queue) + 1 /\ Ordered(backend'.queue, Len(backend.got))
      <4>1. /\ args.inb \in 1 .. MaxRequests /\ args.inb = Len(backend.got) + Len(backend.queue) + 1
            /\ Len(backend.got) \in Nat /\ backend.queue \in Seq(1 .. MaxRequests) /\ Ordered(backend.queue, Len(backend.got))
        <5>1. args.inb = Forwarded + 1 /\ args.inb \in 0 .. MaxRequests
          <6>1. args.inb = Forwarded + 1
            BY <1>1, <1>4, <3>4 DEF RequestsFlow
          <6> QED BY <1>1, <6>1, FieldTypes
        <5>2. args.inb \in 1 .. MaxRequests
          BY <1>4, <5>1, BoundsAreNat
        <5>3. args.inb = Len(backend.got) + Len(backend.queue) + 1
          BY <5>1, Zenon DEF Forwarded
        <5>4. backend.queue \in Seq(1 .. MaxRequests) /\ Ordered(backend.queue, Len(backend.got))
          BY <1>1, FieldTypes DEF QueuesOrdered
        <5> QED BY <1>4, <5>2, <5>3, <5>4, Zenon
      <4>2. /\ Ordered(Append(backend.queue, args.inb), Len(backend.got)) /\ Append(backend.queue, args.inb) \in Seq(1 .. MaxRequests)
            /\ Len(Append(backend.queue, args.inb)) = Len(backend.queue) + 1
        <5>1. PICK n \in Nat : n = Len(backend.got)
          BY <4>1
        <5>2. args.inb = n + Len(backend.queue) + 1 /\ Ordered(backend.queue, n)
          BY <4>1, <5>1, Zenon
        <5>3. args.inb \in 1 .. MaxRequests /\ backend.queue \in Seq(1 .. MaxRequests)
          BY <4>1, Zenon
        <5>4. /\ Ordered(Append(backend.queue, args.inb), n) /\ Append(backend.queue, args.inb) \in Seq(1 .. MaxRequests)
              /\ Len(Append(backend.queue, args.inb)) = Len(backend.queue) + 1
          BY <5>2, <5>3, OrderedAppend
        <5> QED BY <5>1, <5>4, Zenon
      <4>3. Ordered(backend'.queue, Len(backend.got)) /\ Len(backend'.queue) = Len(backend.queue) + 1
        BY <3>2, <4>2, Zenon
      <4> QED BY <4>2, <4>3, FieldTypes, <1>1, Zenon
    <3>6. /\ Taken' = Taken /\ Forwarded' = Forwarded + 1 /\ Fetched' = Fetched
      <4>1. Taken' = Taken
        BY <3>3 DEF Taken
      <4>2. Forwarded' = Forwarded + 1
        <5>1. Len(backend'.got) = Len(backend.got) /\ Len(backend'.queue) = Len(backend.queue) + 1
          BY <3>2, <3>5
        <5>2. Forwarded' = (Len(backend.got)) + (Len(backend.queue) + 1)
          BY <5>1, Zenon DEF Forwarded
        <5>3. (Len(backend.got)) + (Len(backend.queue) + 1) = (Len(backend.got) + Len(backend.queue)) + 1
          BY <1>4, SumMoves, Zenon
        <5> QED BY <5>2, <5>3, Zenon DEF Forwarded
      <4>3. Fetched' = Fetched
        BY <1>4, <3>2, <3>5 DEF Fetched
      <4> QED BY <4>1, <4>2, <4>3
    <3>7. TypeOK'
      <4>1. backend' \in Backend
        BY <1>1, <1>11, <2>1, <3>1, <3>5, FieldTypes DEF Backend
      <4> QED
        BY <1>1, <3>3, <4>1 DEF TypeOK
    <3>8. QueuesOrdered'
      BY <1>1, <3>2, <3>3, <3>5, FieldTypes DEF QueuesOrdered, Taken, Fetched
    <3>9. Phases'
      BY <1>1, <3>4, <3>2, <3>3 DEF Phases
    <3>10. RequestsFlow'
      BY <1>1, <1>4, <3>4, <3>2, <3>3, <3>5, <3>6 DEF RequestsFlow, Phases
    <3>11. RepliesFlow'
      BY <1>1, <1>3, <1>4, <3>4, <3>2, <3>3, <3>5, <3>6 DEF RepliesFlow, Phases
    <3>12. OkMeansComplete'
      BY <1>1, <1>3, <1>4, <3>4, <3>2, <3>3, <3>5, <3>6 DEF OkMeansComplete, Phases,
         RepliesFlow
    <3> QED
      BY <3>7, <3>8, <3>9, <3>10, <3>11, <3>12
  <2>2. CASE inb' = "recv" /\ Ended
    <3>1. /\ inb' = "recv" /\ UNCHANGED <<desc, client, backend, args, main, reply, inErr, result>>
      BY <1>11, <2>2 DEF SendNext, CtxDone, InboundStops, Ended
    <3>2. inb = "send" /\ backend.st # "running"
      BY <1>1, <1>3, <1>11, <2>2 DEF Phases, SendNext, CtxDone, InboundStops, Ended
    <3>3. TypeOK'
      BY <1>1, <3>1 DEF TypeOK
    <3>4. QueuesOrdered'
      BY <1>1, <3>1 DEF QueuesOrdered, Taken, Fetched
    <3>5. Phases'
      BY <1>1, <3>2, <3>1 DEF Phases
    <3>6. RequestsFlow'
      BY <1>1, <1>4, <3>2, <3>1 DEF RequestsFlow, Taken, Forwarded, Phases
    <3>7. RepliesFlow'
      BY <1>1, <1>3, <1>4, <3>2, <3>1 DEF RepliesFlow, Fetched, Phases
    <3>8. OkMeansComplete'
      BY <1>1, <1>3, <1>4, <3>2, <3>1 DEF OkMeansComplete, Phases, RepliesFlow
    <3> QED
      BY <3>3, <3>4, <3>5, <3>6, <3>7, <3>8
  <2>3. CASE inb' = "done"
    <3>1. /\ inb' = "done" /\ inErr' = "eof"
          /\ UNCHANGED <<desc, client, backend, args, main, reply, result>>
      BY <1>11, <2>3 DEF SendNext, CtxDone, InboundStops, Ended
    <3>2. inb = "send"
      BY <1>1, <1>3, <1>11, <2>3 DEF Phases, SendNext, CtxDone, InboundStops, Ended
    <3>3. TypeOK'
      BY <1>1, <3>1 DEF TypeOK
    <3>4. QueuesOrdered'
      BY <1>1, <3>1 DEF QueuesOrdered, Taken, Fetched
    <3>5. Phases'
      BY <1>1, <3>2, <3>1 DEF Phases
    <3>6. RequestsFlow'
      BY <1>1, <1>4, <3>2, <3>1 DEF RequestsFlow, Taken, Forwarded, Phases
    <3>7. RepliesFlow'
      BY <1>1, <1>3, <1>4, <3>2, <3>1 DEF RepliesFlow, Fetched, Phases
    <3>8. OkMeansComplete'
      BY <1>1, <1>3, <1>4, <3>2, <3>1 DEF OkMeansComplete, Phases, RepliesFlow
    <3> QED
      BY <3>3, <3>4, <3>5, <3>6, <3>7, <3>8
  <2> QED
    BY <1>11, <2>1, <2>2, <2>3 DEF SendNext, CtxDone, InboundStops, Ended
<1> QED
  BY <1>10, <1>11 DEF Inbound

(* The initial state. *)
LEMMA InitInv ==
  ASSUME Init
  PROVE  IInv
<1> USE BoundsAreNat
<1>1. PICK p \in BOOLEAN :
        backend = [st |-> "none", patient |-> p, queue |-> <<>>, got |-> <<>>,
                   halfClosed |-> FALSE, out |-> <<>>, made |-> 0]
  BY DEF Init
<1>2. client = [input |-> "open", sent |-> 0, queue |-> <<>>, replies |-> <<>>]
  BY DEF Init
<1>3. /\ client.queue = <<>> /\ client.replies = <<>> /\ client.sent = 0
      /\ backend.st = "none" /\ backend.queue = <<>> /\ backend.got = <<>>
      /\ backend.out = <<>> /\ backend.made = 0
  BY <1>1, <1>2
<1>4. /\ main = "first" /\ inb = "off" /\ args = [main |-> 0, inb |-> 0] /\ reply = 0
      /\ inErr = "nil" /\ result = "none" /\ desc \in Descs
  BY DEF Init
<1>5. /\ <<>> \in Seq(1 .. MaxRequests) /\ <<>> \in Seq(1 .. MaxReplies)
      /\ 0 \in 0 .. MaxRequests /\ 0 \in 0 .. MaxReplies
  OBVIOUS
<1>6. TypeOK
  <2>1. client \in Client
    BY <1>2, <1>5 DEF Client
  <2>2. backend \in Backend
    BY <1>1, <1>5 DEF Backend
  <2>3. args \in [main : 0 .. MaxRequests, inb : 0 .. MaxRequests]
    BY <1>4, <1>5
  <2> QED BY <1>4, <1>5, <2>1, <2>2, <2>3 DEF TypeOK
<1>7. \A n : Ordered(<<>>, n)
  BY DEF Ordered
<1>8. Taken = 0 /\ Fetched = 0
  <2>1. client.sent = 0 /\ Len(client.queue) = 0
    BY <1>3
  <2>2. backend.made = 0 /\ Len(backend.out) = 0
    BY <1>3
  <2>3. Taken = 0
    BY <2>1 DEF Taken
  <2>4. Fetched = 0
    BY <2>2 DEF Fetched
  <2> QED BY <2>3, <2>4
<1>9. Forwarded = 0
  BY <1>3 DEF Forwarded
<1>10. QueuesOrdered
  BY <1>3, <1>7 DEF QueuesOrdered
<1>11. Phases
  BY <1>3, <1>4 DEF Phases
<1>12. RequestsFlow
  BY <1>3, <1>4, <1>8, <1>9 DEF RequestsFlow
<1>13. RepliesFlow
  BY <1>3, <1>4, <1>8 DEF RepliesFlow
<1>14. OkMeansComplete
  BY <1>4 DEF OkMeansComplete
<1> QED BY <1>6, <1>10, <1>11, <1>12, <1>13, <1>14 DEF IInv

(* A step in which nothing changes. *)
LEMMA StutterInv ==
  ASSUME IInv, UNCHANGED vars
  PROVE  IInv'
<1>1. UNCHANGED <<desc, client, backend, main, inb, args, reply, inErr, result>>
  BY DEF vars
<1>2. TypeOK'
  BY <1>1 DEF IInv, TypeOK
<1>3. QueuesOrdered' /\ Phases' /\ OkMeansComplete'
  BY <1>1 DEF IInv, QueuesOrdered, Taken, Fetched, Phases, OkMeansComplete
<1>4. RequestsFlow'
  BY <1>1 DEF IInv, RequestsFlow, Taken, Forwarded
<1>5. RepliesFlow'
  BY <1>1 DEF IInv, RepliesFlow, Fetched
<1> QED BY <1>2, <1>3, <1>4, <1>5 DEF IInv

(* IInv is an inductive invariant. *)
LEMMA Inductive == Spec => []IInv
<1>1. Init => IInv
  BY InitInv
<1>2. IInv /\ [Next]_vars => IInv'
  BY StutterInv, ClientSteps, BackendSteps, RequestSteps, ReplySteps, InboundSteps
     DEF Next, Handler
<1> QED BY <1>1, <1>2, PTL DEF Spec

(* The order of the two parts of a sequence is that of the whole. *)
LEMMA OrderedConcat ==
  ASSUME NEW S, NEW s \in Seq(S), NEW t \in Seq(S), Ordered(s, 0), Ordered(t, Len(s))
  PROVE  \A i \in 1 .. Len(s \o t) : (s \o t)[i] = i
<1>1. SUFFICES ASSUME NEW i \in 1 .. Len(s \o t)
               PROVE  (s \o t)[i] = i
  OBVIOUS
<1>2. /\ Len(s) \in Nat /\ Len(t) \in Nat /\ Len(s \o t) = Len(s) + Len(t)
      /\ (s \o t)[i] = IF i <= Len(s) THEN s[i] ELSE t[i - Len(s)]
  BY <1>1, ConcatProperties
<1>3. CASE i <= Len(s)
  BY <1>1, <1>2, <1>3 DEF Ordered
<1>4. CASE i > Len(s)
  <2>1. i - Len(s) \in 1 .. Len(t)
    BY <1>1, <1>2, <1>4
  <2>2. t[i - Len(s)] = Len(s) + (i - Len(s))
    BY <2>1 DEF Ordered
  <2> QED BY <1>1, <1>2, <1>4, <2>2
<1> QED BY <1>1, <1>2, <1>3, <1>4

(* createConnHandler forwards the first request and the others from two     *)
(* goroutines, and the replies from the first of them.  For any number of   *)
(* messages and every kind of method, what the backend got and what waits   *)
(* for it are the client's requests in order, without a gap, and what the   *)
(* client got are the backend's replies in order.                           *)
THEOREM ForwardedInOrder == Spec => []CallInv
<1>1. IInv => CallInv
  <2>1. SUFFICES ASSUME IInv
                 PROVE  TypeOK /\ MessagesInOrder
    BY DEF CallInv
  <2>2. TypeOK /\ QueuesOrdered
    BY <2>1 DEF IInv
  <2>3. /\ backend.got \in Seq(1 .. MaxRequests) /\ backend.queue \in Seq(1 .. MaxRequests)
        /\ Ordered(backend.got, 0) /\ Ordered(backend.queue, Len(backend.got))
    BY <2>2, FieldTypes DEF QueuesOrdered
  <2>4. \A i \in 1 .. Len(backend.got \o backend.queue) : (backend.got \o backend.queue)[i] = i
    BY <2>3, OrderedConcat
  <2>5. \A i \in 1 .. Len(client.replies) : client.replies[i] = i
    <3>1. Ordered(client.replies, 0) /\ Len(client.replies) \in Nat
      BY <2>2, FieldTypes DEF QueuesOrdered
    <3> QED BY <3>1 DEF Ordered
  <2> QED BY <2>2, <2>4, <2>5, Zenon DEF MessagesInOrder
<1> QED BY <1>1, Inductive, PTL

(* A handler of createConnHandler that returns nil to a client that has not *)
(* gone forwarded every reply of a backend that ended without error, and    *)
(* wg.Wait left no goroutine behind: for any number of messages.            *)
THEOREM OkIsComplete == Spec => []OkMeansComplete
<1>1. IInv => OkMeansComplete
  BY DEF IInv
<1> QED BY <1>1, Inductive, PTL

=============================================================================
