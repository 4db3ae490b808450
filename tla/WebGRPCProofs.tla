---------------------------- MODULE WebGRPCProofs ----------------------------
(***************************************************************************)
(* Proofs about a gRPC-Web call (WebGRPC), for any requests, metadata,     *)
(* statuses, sizes and number of messages.                                 *)
(***************************************************************************)
EXTENDS WebGRPC, Inductions

(* The parts written, o, follow each other, each of five bytes or more. *)
Parts(o) ==
  /\ \E S : o \in Seq(S)
  /\ \A i \in 1 .. Len(o) : o[i].end \in Nat
  /\ \A i, j \in 1 .. Len(o) : i < j => o[i].end + 5 <= o[j].end

(* The trailers, as they were sent. *)
Sent(o, w) == IF o = <<>> THEN w.header ELSE o[Len(o)].md

(* The metadata m are in the header h, with their values. *)
HeaderIn(h, m) ==
  \A k \in DOMAIN m : ~isReservedHeader(k) => k \in DOMAIN h /\ h[k] = Outgoing(k, m[k])

(* The same, but for the keys in o. *)
HeaderInBut(h, m, o) ==
  \A k \in DOMAIN m :
    ~isReservedHeader(k) => (k \in DOMAIN h /\ h[k] = Outgoing(k, m[k])) \/ k \in o

(* What trailers t say of a status. *)
StatusIn(t, s) ==
  GrpcStatus \in DOMAIN t /\ t[GrpcStatus] = <<Plain(<<s.code>>)>>

MessageIn(t, s) ==
  GrpcMessage \in DOMAIN t => t[GrpcMessage] = <<Plain(encodeGrpcMessage(s.msg))>>

(* Nothing is written before the handler runs. *)
Starting ==
  wpc = "start" => /\ out = <<>> /\ ~wroteHeader /\ ~sentHeader
                   /\ hdr = NoMD /\ wire = [status |-> 0, header |-> NoMD]

(* While it runs, only messages are written, and with the first of them the  *)
(* header is fixed, its keys the ones that were seen and the metadata of the *)
(* handler among them; the status is in it only later.                       *)
Handling ==
  wpc = "handler" =>
    /\ \A i \in 1 .. Len(out) : out[i].kind = "message"
    /\ wroteHeader <=> out # <<>>
    /\ wroteHeader => sentHeader /\ wire.status # 0 /\ DOMAIN wire.header = seen
    /\ ~wroteHeader => wire.status = 0
    /\ GrpcStatus \notin DOMAIN hdr /\ GrpcMessage \notin DOMAIN hdr
    /\ md = newIncomingContext(wreq.header)
    /\ sentHeader => HeaderIn(hdr, header)
    /\ wroteHeader => HeaderIn(wire.header, header)

(* At the end the last part is the trailer frame. *)
Finished ==
  wpc = "done" =>
    /\ wroteHeader <=> out # <<>>
    /\ \A i \in 1 .. Len(out) : out[i].kind = (IF i = Len(out) THEN "trailer" ELSE "message")
    /\ sentHeader => /\ StatusIn(Sent(out, wire), st)
                     /\ wroteHeader => /\ HeaderIn(wire.header, header)
                                       /\ HeaderInBut(Sent(out, wire), trailer, DOMAIN wire.header)
                     /\ ~wroteHeader =>
                          /\ HeaderInBut(wire.header, header, DOMAIN trailer \cup {GrpcDetails})
                          /\ HeaderIn(wire.header, trailer)
    /\ MessageIn(Sent(out, wire), st)
    /\ wroteHeader => DOMAIN Sent(out, wire) \cap DOMAIN wire.header = {}
    /\ st \in Statuses

WInv ==
  /\ TypeOK /\ Parts(out) /\ Starting /\ Handling /\ Finished
  /\ BodyIsWeb

-----------------------------------------------------------------------------
(* Lemmas about the operators. *)

(* A set of numbers up to n has its greatest. *)
LEMMA MaxIn ==
  ASSUME NEW n \in Nat, NEW S \in SUBSET (1 .. n), S # {}
  PROVE  Max(S) \in S
<1> DEFINE T == {n - i : i \in S}
<1>1. \A i \in S : i \in Nat /\ i <= n /\ n - i \in Nat
  OBVIOUS
<1>2. T \in SUBSET Nat
  BY <1>1
<1>3. T # {}
  OBVIOUS
<1>4. PICK x \in T : \A y \in T : x <= y
  BY <1>2, <1>3, NatMin
<1>5. PICK i \in S : x = n - i
  OBVIOUS
<1>6. ASSUME NEW j \in S PROVE i >= j
  <2>1. n - j \in T
    OBVIOUS
  <2>2. n - i <= n - j
    BY <1>4, <1>5, <2>1
  <2> QED BY <1>1, <2>2
<1> QED BY <1>6 DEF Max

LEMMA MaxOne ==
  ASSUME NEW n \in Nat
  PROVE  Max({n}) = n
BY DEF Max

(* The client decodes the beginning of a message that was encoded. *)
LEMMA DecodesPrefix ==
  ASSUME NEW m \in Seq(STRING)
  PROVE  IsPrefix(Unescaped(encodeGrpcMessage(m)), m)
<1> DEFINE escapes == {i \in 1 .. Len(m) : Escaped(m[i])}
           n == IF escapes = {} THEN Len(m) ELSE Max(escapes)
           e == [i \in 1 .. n |-> [c |-> m[i], escaped |-> i \in escapes]]
           s == [i \in 1 .. n |-> m[i]]
<1>1. n \in Nat /\ n <= Len(m)
  <2>1. CASE escapes = {}
    BY <2>1
  <2>2. CASE escapes # {}
    <3>1. escapes \in SUBSET (1 .. Len(m)) /\ Len(m) \in Nat
      OBVIOUS
    <3>2. n = Max(escapes)
      BY <2>2
    <3> HIDE DEF escapes, n
    <3>3. Max(escapes) \in escapes
      BY <2>2, <3>1, MaxIn
    <3>4. n \in 1 .. Len(m)
      BY <3>1, <3>2, <3>3
    <3> QED BY <3>1, <3>4
  <2> QED BY <2>1, <2>2
<1>2. encodeGrpcMessage(m) = e
  BY DEF encodeGrpcMessage
<1> HIDE DEF n
<1>3. Len(e) = n
  BY <1>1
<1>4. ASSUME NEW i \in 1 .. n
      PROVE  e[i].c = m[i] /\ (m[i] = "%" => e[i].escaped)
  <2>1. e[i] = [c |-> m[i], escaped |-> i \in escapes]
    OBVIOUS
  <2>2. i \in 1 .. Len(m)
    BY <1>1
  <2>3. m[i] = "%" => i \in escapes
    BY <2>2 DEF Escaped
  <2> HIDE DEF escapes, e
  <2>4. e[i].c = m[i]
    BY <2>1
  <2>5. ASSUME i \in escapes PROVE e[i].escaped
    <3>1. (i \in escapes) = TRUE
      BY <2>5, Zenon
    <3>2. e[i] = [c |-> m[i], escaped |-> TRUE]
      BY <2>1, <3>1, Zenon
    <3> QED BY <3>2
  <2> QED BY <2>3, <2>4, <2>5
<1>5. Unescaped(e) = s
  <2> HIDE DEF e
  <2>1. \A i \in 1 .. n : (IF e[i].c = "%" /\ ~e[i].escaped THEN "garbage" ELSE e[i].c) = m[i]
    BY <1>4
  <2> QED BY <1>3, <2>1 DEF Unescaped
<1>6. Len(s) = n /\ s \in Seq(STRING) /\ \A i \in 1 .. n : s[i] = m[i]
  BY <1>1
<1>7. IsPrefix(s, m)
  BY <1>1, <1>6 DEF IsPrefix
<1> QED BY <1>2, <1>5, <1>7

LEMMA KeysDiffer ==
  /\ ContentType # GrpcStatus /\ ContentType # GrpcMessage /\ GrpcStatus # GrpcMessage
  /\ GrpcDetails # GrpcStatus /\ GrpcDetails # GrpcMessage
  /\ Key("grpc-encoding") # GrpcStatus /\ Key("grpc-encoding") # GrpcMessage
  /\ Key("trailer") # GrpcStatus /\ Key("trailer") # GrpcMessage
  /\ isReservedHeader(GrpcStatus) /\ isReservedHeader(GrpcMessage) /\ isReservedHeader(ContentType)
BY DEF ContentType, GrpcStatus, GrpcMessage, GrpcDetails, Key, BinKey, isReservedHeader

LEMMA SetTextFacts ==
  ASSUME NEW h, NEW k, NEW t
  PROVE  /\ DOMAIN SetText(h, k, t) = DOMAIN h \cup {k}
         /\ \A x \in DOMAIN h : x # k => SetText(h, k, t)[x] = h[x]
BY DEF SetText

LEMMA SetTextAt ==
  ASSUME NEW h, NEW k, NEW t
  PROVE  SetText(h, k, t)[k] = <<t>>
BY DEF SetText

LEMMA OutgoingFacts ==
  ASSUME NEW h, NEW m
  PROVE  /\ DOMAIN h \subseteq DOMAIN setOutgoingHeader(h, m)
         /\ \A k : isReservedHeader(k) =>
              /\ k \in DOMAIN setOutgoingHeader(h, m) <=> k \in DOMAIN h
              /\ k \in DOMAIN h => setOutgoingHeader(h, m)[k] = h[k]
         /\ HeaderIn(setOutgoingHeader(h, m), m)
         /\ \A k \in DOMAIN h : k \notin DOMAIN m => setOutgoingHeader(h, m)[k] = h[k]
<1> DEFINE sent == {k \in DOMAIN m : ~isReservedHeader(k)}
           g == [k \in DOMAIN h \cup sent |-> IF k \in sent THEN Outgoing(k, m[k]) ELSE h[k]]
<1>1. setOutgoingHeader(h, m) = g
  BY DEF setOutgoingHeader
<1>2. DOMAIN g = DOMAIN h \cup sent
  OBVIOUS
<1>3. \A k : isReservedHeader(k) => k \notin sent
  OBVIOUS
<1>4. \A k \in DOMAIN h : k \notin sent => g[k] = h[k]
  OBVIOUS
<1>5. \A k \in DOMAIN m : ~isReservedHeader(k) => k \in sent
  OBVIOUS
<1>6. \A k \in sent : g[k] = Outgoing(k, m[k])
  OBVIOUS
<1>7. sent \subseteq DOMAIN m
  OBVIOUS
<1> HIDE DEF g, sent
<1>8. HeaderIn(g, m)
  BY <1>2, <1>5, <1>6 DEF HeaderIn
<1> QED BY <1>1, <1>2, <1>3, <1>4, <1>7, <1>8

(* SendHeader leaves what was there, the handler's metadata, and no status. *)
LEMMA HeaderFacts ==
  ASSUME NEW h
  PROVE  /\ DOMAIN h \subseteq DOMAIN GRPCHeader(h) /\ ContentType \in DOMAIN GRPCHeader(h)
         /\ GrpcStatus \notin DOMAIN h => GrpcStatus \notin DOMAIN GRPCHeader(h)
         /\ GrpcMessage \notin DOMAIN h => GrpcMessage \notin DOMAIN GRPCHeader(h)
         /\ HeaderIn(GRPCHeader(h), header)
<1> DEFINE typed == Set(h, ContentType, <<"grpc", Enc(wreq)>>)
           encoded == IF wreq.encoding = "" THEN typed
                      ELSE Set(typed, Key("grpc-encoding"), <<wreq.encoding>>)
           told == Set(encoded, Key("trailer"), <<"announced">>)
<1>1. GRPCHeader(h) = setOutgoingHeader(told, header)
  BY DEF GRPCHeader
<1>2. DOMAIN typed = DOMAIN h \cup {ContentType}
  BY SetTextFacts DEF Set
<1> HIDE DEF typed
<1>3. DOMAIN encoded \in {DOMAIN typed, DOMAIN typed \cup {Key("grpc-encoding")}}
  <2>1. DOMAIN Set(typed, Key("grpc-encoding"), <<wreq.encoding>>) = DOMAIN typed \cup {Key("grpc-encoding")}
    BY SetTextFacts DEF Set
  <2> QED BY <2>1
<1> HIDE DEF encoded
<1>4. DOMAIN told = DOMAIN encoded \cup {Key("trailer")}
  BY SetTextFacts DEF Set
<1> HIDE DEF told
<1>5. /\ DOMAIN h \subseteq DOMAIN told /\ ContentType \in DOMAIN told
      /\ GrpcStatus \notin DOMAIN h => GrpcStatus \notin DOMAIN told
      /\ GrpcMessage \notin DOMAIN h => GrpcMessage \notin DOMAIN told
  BY <1>2, <1>3, <1>4, KeysDiffer
<1>6. /\ DOMAIN told \subseteq DOMAIN setOutgoingHeader(told, header)
      /\ GrpcStatus \in DOMAIN setOutgoingHeader(told, header) <=> GrpcStatus \in DOMAIN told
      /\ GrpcMessage \in DOMAIN setOutgoingHeader(told, header) <=> GrpcMessage \in DOMAIN told
      /\ HeaderIn(setOutgoingHeader(told, header), header)
  BY OutgoingFacts, KeysDiffer
<1> QED BY <1>1, <1>5, <1>6

(* What the end of serveGRPC puts into a header without a status. *)
LEMMA StatusFacts ==
  ASSUME NEW h, NEW s \in Statuses, GrpcMessage \notin DOMAIN h
  PROVE  /\ DOMAIN h \subseteq DOMAIN WithStatus(h, s)
         /\ StatusIn(WithStatus(h, s), s) /\ MessageIn(WithStatus(h, s), s)
         /\ HeaderIn(WithStatus(h, s), trailer)
         /\ \A k \in DOMAIN h : ~isReservedHeader(k) /\ k \notin DOMAIN trailer \cup {GrpcDetails}
              => WithStatus(h, s)[k] = h[k]
<1> DEFINE text == <<Plain(encodeGrpcMessage(s.msg))>>
           coded == Set(h, GrpcStatus, <<s.code>>)
           named == IF s.msg = <<>> THEN coded ELSE Set(coded, GrpcMessage, encodeGrpcMessage(s.msg))
           detailed == IF s.details THEN SetText(named, GrpcDetails, encodeBinHeader(<<1>>)) ELSE named
           Good(g) == /\ DOMAIN h \subseteq DOMAIN g /\ GrpcStatus \in DOMAIN g
                      /\ g[GrpcStatus] = <<Plain(<<s.code>>)>>
                      /\ GrpcMessage \in DOMAIN g => g[GrpcMessage] = text
                      /\ \A k \in DOMAIN h : ~isReservedHeader(k) /\ k # GrpcDetails => g[k] = h[k]
<1>1. WithStatus(h, s) = setOutgoingHeader(detailed, trailer)
  BY DEF WithStatus
<1> HIDE DEF text
<1>2. Good(coded) /\ GrpcMessage \notin DOMAIN coded
  <2>1. DOMAIN coded = DOMAIN h \cup {GrpcStatus}
    BY SetTextFacts DEF Set
  <2>2. coded[GrpcStatus] = <<Plain(<<s.code>>)>>
    BY SetTextAt DEF Set
  <2>3. \A k \in DOMAIN h : k # GrpcStatus => coded[k] = h[k]
    BY SetTextFacts DEF Set
  <2> HIDE DEF coded
  <2> QED BY <2>1, <2>2, <2>3, KeysDiffer
<1> HIDE DEF coded
<1>3. Good(named)
  <2> DEFINE g == Set(coded, GrpcMessage, encodeGrpcMessage(s.msg))
  <2>1. DOMAIN g = DOMAIN coded \cup {GrpcMessage}
    BY SetTextFacts DEF Set
  <2>2. g[GrpcMessage] = text
    BY SetTextAt DEF Set, text
  <2>3. \A x \in DOMAIN coded : x # GrpcMessage => g[x] = coded[x]
    BY SetTextFacts DEF Set
  <2> HIDE DEF g
  <2>4. Good(g)
    BY <1>2, <2>1, <2>2, <2>3, KeysDiffer
  <2> QED BY <1>2, <2>4 DEF g
<1> HIDE DEF named
<1>4. Good(detailed)
  <2> DEFINE g == SetText(named, GrpcDetails, encodeBinHeader(<<1>>))
  <2>1. DOMAIN g = DOMAIN named \cup {GrpcDetails}
    BY SetTextFacts
  <2>2. \A x \in DOMAIN named : x # GrpcDetails => g[x] = named[x]
    BY SetTextFacts
  <2> HIDE DEF g
  <2>3. Good(g)
    BY <1>3, <2>1, <2>2, KeysDiffer
  <2> QED BY <1>3, <2>3 DEF g
<1> HIDE DEF detailed
<1> DEFINE g == setOutgoingHeader(detailed, trailer)
<1>5. /\ DOMAIN h \subseteq DOMAIN g /\ GrpcStatus \in DOMAIN g
      /\ g[GrpcStatus] = <<Plain(<<s.code>>)>>
      /\ GrpcMessage \in DOMAIN g => g[GrpcMessage] = text
  <2>1. /\ DOMAIN detailed \subseteq DOMAIN g
        /\ GrpcMessage \in DOMAIN g => GrpcMessage \in DOMAIN detailed
        /\ GrpcMessage \in DOMAIN detailed => g[GrpcMessage] = detailed[GrpcMessage]
        /\ GrpcStatus \in DOMAIN detailed => g[GrpcStatus] = detailed[GrpcStatus]
    BY OutgoingFacts, KeysDiffer
  <2> HIDE DEF g
  <2> QED BY <1>4, <2>1
<1>6. HeaderIn(g, trailer) /\ \A k \in DOMAIN detailed : k \notin DOMAIN trailer => g[k] = detailed[k]
  BY OutgoingFacts
<1> HIDE DEF g
<1>7. \A k \in DOMAIN h : ~isReservedHeader(k) /\ k \notin DOMAIN trailer \cup {GrpcDetails}
        => g[k] = h[k]
  BY <1>4, <1>6
<1>8. WithStatus(h, s) = g
  BY <1>1 DEF g
<1> QED BY <1>5, <1>6, <1>7, <1>8 DEF StatusIn, MessageIn, text

(* Parts. *)

LEMMA PartsAppend ==
  ASSUME NEW o, Parts(o), NEW p, p.end \in Nat,
         \A i \in 1 .. Len(o) : o[i].end + 5 <= p.end
  PROVE  /\ Parts(Append(o, p)) /\ Len(o) \in Nat
         /\ Len(Append(o, p)) = Len(o) + 1 /\ Append(o, p) # <<>>
         /\ Append(o, p)[Len(o) + 1] = p
         /\ \A i \in 1 .. Len(o) : Append(o, p)[i] = o[i]
<1>1. PICK S : o \in Seq(S)
  BY DEF Parts
<1> DEFINE a == Append(o, p)
<1>2. o \in Seq(S \cup {p}) /\ p \in S \cup {p}
  BY <1>1
<1>3. /\ a \in Seq(S \cup {p}) /\ Len(o) \in Nat /\ Len(a) = Len(o) + 1 /\ a # <<>>
      /\ a[Len(o) + 1] = p /\ \A i \in 1 .. Len(o) : a[i] = o[i]
  BY <1>2
<1> HIDE DEF a
<1>4. ASSUME NEW i \in 1 .. Len(a) PROVE a[i].end \in Nat
  BY <1>3 DEF Parts
<1>5. ASSUME NEW i \in 1 .. Len(a), NEW j \in 1 .. Len(a), i < j
      PROVE  a[i].end + 5 <= a[j].end
  <2>1. CASE j = Len(o) + 1
    BY <1>3, <1>5, <2>1
  <2>2. CASE j # Len(o) + 1
    <3>1. i \in 1 .. Len(o) /\ j \in 1 .. Len(o)
      BY <1>3, <1>5, <2>2
    <3>2. o[i].end + 5 <= o[j].end
      BY <1>5, <3>1 DEF Parts
    <3> QED BY <1>3, <3>1, <3>2
  <2> QED BY <2>1, <2>2
<1>6. Parts(a)
  BY <1>3, <1>4, <1>5 DEF Parts
<1> QED BY <1>3, <1>6 DEF a

LEMMA LastPart ==
  ASSUME Parts(out)
  PROVE  /\ Len(out) \in Nat /\ BytesOf(Len(out)) \in Nat
         /\ (out = <<>> <=> Len(out) = 0)
         /\ \A i \in 1 .. Len(out) : BytesOf(i) = out[i].end /\ out[i].end \in Nat
                                     /\ out[i].end <= BytesOf(Len(out))
<1>1. PICK S : out \in Seq(S)
  BY DEF Parts
<1>2. Len(out) \in Nat /\ (out = <<>> <=> Len(out) = 0)
  BY <1>1
<1>3. ASSUME NEW i \in 1 .. Len(out)
      PROVE  BytesOf(i) = out[i].end /\ out[i].end \in Nat
  BY <1>2, <1>3 DEF BytesOf, Parts
<1>4. BytesOf(Len(out)) \in Nat
  BY <1>2, <1>3 DEF BytesOf
<1>5. ASSUME NEW i \in 1 .. Len(out)
      PROVE  out[i].end <= BytesOf(Len(out))
  <2>1. CASE i = Len(out)
    BY <1>3, <2>1
  <2>2. CASE i # Len(out)
    <3>1. i < Len(out) /\ Len(out) \in 1 .. Len(out)
      BY <1>2, <2>2
    <3>2. out[i].end + 5 <= out[Len(out)].end
      BY <3>1 DEF Parts
    <3> QED BY <1>3, <3>1, <3>2
  <2> QED BY <2>1, <2>2
<1> QED BY <1>2, <1>3, <1>4, <1>5

LEMMA WriteFacts ==
  ASSUME Parts(out), NEW kind, NEW n \in Nat, n >= 5, NEW tr
  PROVE  LET o == Write(kind, n, tr)
         IN /\ Parts(o) /\ Len(out) \in Nat /\ Len(o) = Len(out) + 1 /\ o # <<>>
            /\ o[Len(out) + 1].kind = kind /\ o[Len(out) + 1].md = tr
            /\ \A i \in 1 .. Len(out) : o[i] = out[i]
<1> DEFINE p == [kind |-> kind, end |-> BytesOf(Len(out)) + n, md |-> tr]
<1>1. p.kind = kind /\ p.end = BytesOf(Len(out)) + n /\ p.md = tr
  OBVIOUS
<1>2. Write(kind, n, tr) = Append(out, p)
  BY DEF Write
<1> HIDE DEF p
<1>3. p.end \in Nat /\ \A i \in 1 .. Len(out) : out[i].end + 5 <= p.end
  BY <1>1, LastPart
<1>4. /\ Parts(Append(out, p)) /\ Len(out) \in Nat
      /\ Len(Append(out, p)) = Len(out) + 1 /\ Append(out, p) # <<>>
      /\ Append(out, p)[Len(out) + 1] = p
      /\ \A i \in 1 .. Len(out) : Append(out, p)[i] = out[i]
  BY <1>3, PartsAppend
<1> QED BY <1>1, <1>2, <1>4

-----------------------------------------------------------------------------
(* The steps. *)

LEMMA Initially == Init => WInv
<1> SUFFICES ASSUME Init PROVE WInv
  OBVIOUS
<1>1. TypeOK /\ Starting /\ Handling /\ Finished /\ BodyIsWeb
  BY DEF Init, TypeOK, Starting, Handling, Finished, BodyIsWeb
<1>2. Parts(out)
  BY DEF Init, Parts
<1> QED BY <1>1, <1>2 DEF WInv

LEMMA StutterStep == WInv /\ UNCHANGED webVars => WInv'
<1> SUFFICES ASSUME WInv, UNCHANGED webVars PROVE WInv'
  OBVIOUS
<1>1. TypeOK' /\ Parts(out)' /\ Starting' /\ Handling'
  BY DEF WInv, webVars, TypeOK, Parts, Starting, Handling
<1>2. Finished'
  BY DEF WInv, webVars, Finished
<1>3. BodyIsWeb'
  BY DEF WInv, webVars, BodyIsWeb, Enc
<1> QED BY <1>1, <1>2, <1>3 DEF WInv

LEMMA RefuseStep == WInv /\ Refuse => WInv'
<1> SUFFICES ASSUME WInv, Refuse PROVE WInv'
  OBVIOUS
<1>1. wpc' = "refused" /\ out' = <<>> /\ wreq' = wreq
  BY DEF WInv, Refuse, Starting
<1>2. TypeOK'
  BY DEF WInv, TypeOK, Refuse
<1>3. Parts(out)' /\ Starting' /\ Handling' /\ Finished' /\ BodyIsWeb'
  BY <1>1 DEF Parts, Starting, Handling, Finished, BodyIsWeb
<1> QED BY <1>2, <1>3 DEF WInv

LEMMA SeenFacts ==
  ASSUME NEW h
  PROVE  /\ DOMAIN SeeHeaders(h) = DOMAIN h \cup {ContentType}
         /\ SeeHeaders(h)[ContentType] = <<Plain(<<wreq.typ, Enc(wreq)>>)>>
         /\ \A m : HeaderIn(h, m) => HeaderIn(SeeHeaders(h), m)
<1>1. DOMAIN SeeHeaders(h) = DOMAIN h \cup {ContentType}
  BY SetTextFacts DEF SeeHeaders, Set
<1>2. SeeHeaders(h)[ContentType] = <<Plain(<<wreq.typ, Enc(wreq)>>)>>
  BY SetTextAt DEF SeeHeaders, Set
<1>3. \A k \in DOMAIN h : k # ContentType => SeeHeaders(h)[k] = h[k]
  <2> DEFINE t == Plain(<<wreq.typ, Enc(wreq)>>)
  <2>1. SeeHeaders(h) = SetText(h, ContentType, t)
    BY DEF SeeHeaders, Set
  <2> HIDE DEF t
  <2>2. \A k \in DOMAIN h : k # ContentType => SetText(h, ContentType, t)[k] = h[k]
    BY DEF SetText
  <2> QED BY <2>1, <2>2
<1>4. ASSUME NEW m, HeaderIn(h, m) PROVE HeaderIn(SeeHeaders(h), m)
  BY <1>1, <1>3, <1>4, KeysDiffer DEF HeaderIn
<1> QED BY <1>1, <1>2, <1>4

LEMMA RefuseCallStep == WInv /\ RefuseCall => WInv'
<1> SUFFICES ASSUME WInv, RefuseCall PROVE WInv'
  OBVIOUS
<1> DEFINE h == SeeHeaders(Set(hdr, ContentType, <<"text">>))
           p == [kind |-> "text", end |-> 9, md |-> NoMD]
           q == [kind |-> "trailer", end |-> 9 + 5, md |-> NoMD]
<1>1. /\ wpc = "start" /\ wpc' = "refused" /\ wreq' = wreq /\ GRPCRefuses(wreq) # 0
      /\ expired' = expired /\ sentHeader' = sentHeader /\ st' = st
      /\ wroteHeader' = TRUE
  BY DEF RefuseCall
<1>2. /\ hdr' = h /\ seen' = SeenAfter(h) /\ wire' = Fixed(wire, h, GRPCRefuses(wreq))
      /\ out' = <<p, q>>
  BY DEF RefuseCall
<1>3. ~wroteHeader /\ wire.status = 0
  BY <1>1 DEF WInv, Starting
<1>4. seen' = DOMAIN h /\ wire' = [status |-> GRPCRefuses(wreq), header |-> h]
  BY <1>2, <1>3 DEF SeenAfter, Fixed
<1>5. ContentType \in DOMAIN h /\ h[ContentType] = <<Plain(<<wreq.typ, Enc(wreq)>>)>>
  BY SeenFacts
<1> HIDE DEF h
<1>6. TypeOK'
  <2>1. seen' # {}
    BY <1>4, <1>5
  <2> QED BY <1>1, <1>2, <1>4, <2>1 DEF WInv, TypeOK
<1>7. Parts(out)'
  <2>1. p.end = 9 /\ q.end = 14
    OBVIOUS
  <2> HIDE DEF p, q
  <2>2. out' \in Seq({p, q}) /\ Len(out') = 2 /\ out'[1] = p /\ out'[2] = q
    BY <1>2
  <2>3. \A i \in 1 .. Len(out') : i = 1 \/ i = 2
    BY <2>2
  <2>4. \E S : out' \in Seq(S)
    BY <2>2
  <2>5. \A i \in 1 .. Len(out') : out'[i].end \in Nat
    BY <2>1, <2>2, <2>3
  <2>6. \A i, j \in 1 .. Len(out') : i < j => out'[i].end + 5 <= out'[j].end
    BY <2>1, <2>2, <2>3
  <2> QED BY <2>4, <2>5, <2>6 DEF Parts
<1>8. Starting' /\ Handling' /\ Finished'
  BY <1>1 DEF Starting, Handling, Finished
<1>9. BodyIsWeb'
  <2>1. wire'.header = h
    BY <1>4
  <2> QED BY <1>1, <1>5, <2>1 DEF BodyIsWeb, Enc
<1> QED BY <1>6, <1>7, <1>8, <1>9 DEF WInv

LEMMA CallHandlerStep == WInv /\ CallHandler => WInv'
<1> SUFFICES ASSUME WInv, CallHandler PROVE WInv'
  OBVIOUS
<1>1. /\ wpc = "start" /\ wpc' = "handler" /\ wreq' = wreq
      /\ md' = newIncomingContext(wreq.header)
      /\ UNCHANGED <<hdr, seen, wroteHeader, header, trailer, sentHeader, out, wire, st>>
  BY DEF CallHandler
<1>2. out = <<>> /\ ~wroteHeader /\ ~sentHeader /\ hdr = NoMD /\ wire.status = 0
  BY <1>1 DEF WInv, Starting
<1>3. DOMAIN NoMD = {}
  BY DEF NoMD
<1>4. TypeOK'
  <2>1. expired' \in BOOLEAN
    BY DEF CallHandler
  <2> QED BY <1>1, <2>1 DEF WInv, TypeOK
<1>5. Handling'
  BY <1>1, <1>2, <1>3 DEF Handling
<1>6. Starting' /\ Finished' /\ BodyIsWeb'
  BY <1>1, <1>2 DEF Starting, Finished, BodyIsWeb
<1>7. Parts(out)'
  BY <1>1 DEF WInv, Parts
<1> QED BY <1>4, <1>5, <1>6, <1>7 DEF WInv

(* A step of the handler that writes nothing, and leaves no status in the    *)
(* header.                                                                   *)
LEMMA QuietStep ==
  ASSUME WInv, wpc = "handler",
         UNCHANGED <<wreq, wpc, md, seen, wroteHeader, out, wire, st>>,
         expired' \in BOOLEAN, sentHeader' \in BOOLEAN, sentHeader => sentHeader',
         DOMAIN hdr \subseteq DOMAIN hdr',
         GrpcStatus \notin DOMAIN hdr', GrpcMessage \notin DOMAIN hdr',
         sentHeader' => HeaderIn(hdr', header'), sentHeader => header' = header
  PROVE  WInv'
<1>1. TypeOK'
  BY DEF WInv, TypeOK
<1>2. Handling'
  BY DEF WInv, Handling
<1>3. Starting' /\ Finished'
  BY DEF Starting, Finished
<1>4. Parts(out)' /\ BodyIsWeb'
  BY DEF WInv, Parts, BodyIsWeb, Enc
<1> QED BY <1>1, <1>2, <1>3, <1>4 DEF WInv

LEMMA QuietSteps ==
  ASSUME WInv, NEW m, Expire \/ SetHeader(m) \/ SetTrailer(m) \/ SendHeader
  PROVE  WInv'
<1>1. wpc = "handler" /\ UNCHANGED <<wreq, wpc, md, seen, wroteHeader, out, wire, st>>
  BY DEF Expire, SetHeader, SetTrailer, SendHeader
<1>2. GrpcStatus \notin DOMAIN hdr /\ GrpcMessage \notin DOMAIN hdr
  BY <1>1 DEF WInv, Handling
<1>3. expired \in BOOLEAN /\ sentHeader \in BOOLEAN
  BY DEF WInv, TypeOK
<1>4. expired' \in BOOLEAN /\ sentHeader' \in BOOLEAN /\ (sentHeader => sentHeader')
  BY <1>3 DEF Expire, SetHeader, SetTrailer, SendHeader
<1>5. hdr' = hdr \/ hdr' = GRPCHeader(hdr)
  BY DEF Expire, SetHeader, SetTrailer, SendHeader
<1>6. /\ DOMAIN hdr \subseteq DOMAIN hdr'
      /\ GrpcStatus \notin DOMAIN hdr' /\ GrpcMessage \notin DOMAIN hdr'
  BY <1>2, <1>5, HeaderFacts
<1>7. sentHeader => header' = header
  BY DEF Expire, SetHeader, SetTrailer, SendHeader
<1>8. ASSUME sentHeader' PROVE HeaderIn(hdr', header')
  <2>1. CASE sentHeader
    <3>1. hdr' = hdr
      BY <2>1 DEF Expire, SetHeader, SetTrailer, SendHeader
    <3> QED BY <1>1, <1>7, <2>1, <3>1 DEF WInv, Handling
  <2>2. CASE ~sentHeader
    <3>1. hdr' = GRPCHeader(hdr) /\ header' = header
      BY <1>8, <2>2 DEF Expire, SetHeader, SetTrailer, SendHeader
    <3> QED BY <3>1, HeaderFacts
  <2> QED BY <2>1, <2>2
<1> QED BY <1>1, <1>4, <1>6, <1>7, <1>8, QuietStep

(* What HeaderSent leaves while the handler runs. *)
LEMMA HeaderSentFacts ==
  ASSUME WInv, wpc = "handler"
  PROVE  /\ DOMAIN hdr \subseteq DOMAIN HeaderSent
         /\ GrpcStatus \notin DOMAIN HeaderSent /\ GrpcMessage \notin DOMAIN HeaderSent
         /\ HeaderIn(HeaderSent, header)
<1>1. /\ GrpcStatus \notin DOMAIN hdr /\ GrpcMessage \notin DOMAIN hdr
      /\ sentHeader => HeaderIn(hdr, header)
  BY DEF WInv, Handling
<1> QED BY <1>1, HeaderFacts DEF HeaderSent

LEMMA SendMsgPanics ==
  ASSUME WInv, NEW n \in Sizes, SendMsg(n), Enc(wreq) = "body"
  PROVE  WInv'
<1>1. /\ wpc = "handler" /\ wpc' = "panic" /\ hdr' = HeaderSent /\ sentHeader' = TRUE
      /\ UNCHANGED <<wreq, expired, seen, wroteHeader, out, wire, st>>
  BY DEF SendMsg
<1>2. TypeOK'
  BY <1>1, HeaderSentFacts DEF WInv, TypeOK
<1>3. Starting' /\ Handling' /\ Finished'
  BY <1>1 DEF Starting, Handling, Finished
<1>4. Parts(out)' /\ BodyIsWeb'
  BY <1>1 DEF WInv, Parts, BodyIsWeb, Enc
<1> QED BY <1>2, <1>3, <1>4 DEF WInv

LEMMA SendMsgStep ==
  ASSUME WInv, NEW n \in Sizes, SendMsg(n), Enc(wreq) # "body"
  PROVE  WInv'
<1> DEFINE h == IF wroteHeader THEN HeaderSent ELSE SeeHeaders(HeaderSent)
<1>1. /\ wpc = "handler" /\ wpc' = "handler" /\ sentHeader' = TRUE /\ wroteHeader' = TRUE
      /\ UNCHANGED <<wreq, md, expired, header, trailer, st>>
  BY DEF SendMsg
<1>2. /\ hdr' = h /\ seen' = SeenAfter(h) /\ wire' = Fixed(wire, h, 200)
      /\ out' = Write("message", 5 + n, NoMD)
  BY DEF SendMsg
<1>3. /\ Parts(out)' /\ out' # <<>> /\ Len(out) \in Nat /\ Len(out') = Len(out) + 1
      /\ out'[Len(out) + 1].kind = "message"
      /\ \A i \in 1 .. Len(out) : out'[i] = out[i]
  <2>1. 5 + n \in Nat /\ 5 + n >= 5
    BY WebTypes
  <2>2. Parts(out)
    BY DEF WInv
  <2>3. Parts(Write("message", 5 + n, NoMD))
    BY <2>1, <2>2, WriteFacts
  <2>4. Parts(out)'
    BY <1>2, <2>3 DEF Parts
  <2> QED BY <1>2, <2>1, <2>2, <2>4, WriteFacts
<1>4. \A i \in 1 .. Len(out') : out'[i].kind = "message"
  BY <1>1, <1>3 DEF WInv, Handling
<1>5. CASE wroteHeader
  <2>1. /\ sentHeader /\ wire.status # 0 /\ DOMAIN wire.header = seen /\ out # <<>>
        /\ HeaderIn(hdr, header) /\ HeaderIn(wire.header, header)
    BY <1>1, <1>5 DEF WInv, Handling
  <2>2. hdr' = hdr /\ seen' = seen /\ wire' = wire
    BY <1>2, <1>5, <2>1 DEF HeaderSent, SeenAfter, Fixed
  <2>3. TypeOK'
    BY <1>1, <1>5, <2>2 DEF WInv, TypeOK
  <2>4. Handling'
    BY <1>1, <1>3, <1>4, <2>1, <2>2 DEF WInv, Handling
  <2>5. BodyIsWeb'
    BY <1>1, <2>1, <2>2 DEF WInv, BodyIsWeb, Enc
  <2>6. Starting' /\ Finished'
    BY <1>1 DEF Starting, Finished
  <2> QED BY <1>3, <2>3, <2>4, <2>5, <2>6 DEF WInv
<1>6. CASE ~wroteHeader
  <2>1. wire.status = 0
    BY <1>1, <1>6 DEF WInv, Handling
  <2>2. h = SeeHeaders(HeaderSent)
    BY <1>6
  <2>3. seen' = DOMAIN h /\ wire' = [status |-> 200, header |-> h]
    BY <1>2, <1>6, <2>1 DEF SeenAfter, Fixed
  <2> HIDE DEF h
  <2>4. wire'.status # 0 /\ wire'.header = h
    BY <2>3
  <2>5. DOMAIN h = DOMAIN HeaderSent \cup {ContentType}
    BY <2>2, SeenFacts
  <2>6. h[ContentType] = <<Plain(<<wreq.typ, Enc(wreq)>>)>>
    BY <2>2, SeenFacts
  <2>7. GrpcStatus \notin DOMAIN h /\ GrpcMessage \notin DOMAIN h
    BY <1>1, <2>5, HeaderSentFacts, KeysDiffer
  <2>12. HeaderIn(h, header)
    BY <1>1, <2>2, HeaderSentFacts, SeenFacts
  <2>8. TypeOK'
    BY <1>1, <1>2, <2>3, <2>5 DEF WInv, TypeOK
  <2>9. Handling'
    BY <1>1, <1>2, <1>3, <1>4, <2>3, <2>4, <2>7, <2>12 DEF WInv, Handling
  <2>10. BodyIsWeb'
    BY <1>1, <2>4, <2>6 DEF BodyIsWeb, Enc
  <2>11. Starting' /\ Finished'
    BY <1>1 DEF Starting, Finished
  <2> QED BY <1>3, <2>8, <2>9, <2>10, <2>11 DEF WInv
<1> QED BY <1>5, <1>6

(* The end of a call: what the header has then. *)
LEMMA ReturnHeader ==
  ASSUME WInv, NEW s \in Statuses, HandlerReturns(s)
  PROVE  /\ DOMAIN hdr \subseteq DOMAIN hdr'
         /\ MessageIn(hdr', s)
         /\ sentHeader' =>
              /\ StatusIn(hdr', s) /\ HeaderIn(hdr', trailer)
              /\ HeaderInBut(hdr', header, DOMAIN trailer \cup {GrpcDetails})
<1>1. wpc = "handler" /\ sentHeader' = (sentHeader \/ ~expired)
  BY DEF HandlerReturns
<1>2. CASE expired /\ ~sentHeader
  <2>1. hdr' = hdr /\ ~sentHeader'
    BY <1>1, <1>2 DEF HandlerReturns
  <2>2. GrpcMessage \notin DOMAIN hdr
    BY <1>1 DEF WInv, Handling
  <2> QED BY <2>1, <2>2 DEF MessageIn
<1>3. CASE ~(expired /\ ~sentHeader)
  <2>1. hdr' = WithStatus(HeaderSent, s)
    BY <1>3 DEF HandlerReturns
  <2>2. /\ DOMAIN hdr \subseteq DOMAIN HeaderSent
        /\ GrpcMessage \notin DOMAIN HeaderSent /\ HeaderIn(HeaderSent, header)
    BY <1>1, HeaderSentFacts
  <2>3. /\ DOMAIN HeaderSent \subseteq DOMAIN hdr' /\ StatusIn(hdr', s) /\ MessageIn(hdr', s)
        /\ HeaderIn(hdr', trailer)
        /\ \A k \in DOMAIN HeaderSent :
             ~isReservedHeader(k) /\ k \notin DOMAIN trailer \cup {GrpcDetails}
               => hdr'[k] = HeaderSent[k]
    BY <2>1, <2>2, StatusFacts
  <2>4. HeaderInBut(hdr', header, DOMAIN trailer \cup {GrpcDetails})
    BY <2>2, <2>3 DEF HeaderIn, HeaderInBut
  <2> QED BY <2>2, <2>3, <2>4
<1> QED BY <1>2, <1>3

LEMMA ReturnsStep ==
  ASSUME WInv, NEW s \in Statuses, HandlerReturns(s)
  PROVE  WInv'
<1>1. /\ wpc = "handler" /\ wpc' = "done" /\ st' = s
      /\ sentHeader' = (sentHeader \/ ~expired)
      /\ UNCHANGED <<wreq, md, expired, seen, wroteHeader, header, trailer>>
  BY DEF HandlerReturns
<1>2. /\ sentHeader \in BOOLEAN /\ expired \in BOOLEAN /\ seen \subseteq DOMAIN hdr
  BY DEF WInv, TypeOK
<1>3. /\ DOMAIN hdr \subseteq DOMAIN hdr' /\ MessageIn(hdr', s)
      /\ sentHeader' => StatusIn(hdr', s)
      /\ sentHeader' => HeaderIn(hdr', trailer)
      /\ sentHeader' => HeaderInBut(hdr', header, DOMAIN trailer \cup {GrpcDetails})
  BY ReturnHeader
<1>4. TypeOK'
  <2>1. sentHeader' \in BOOLEAN
    BY <1>1, <1>2
  <2>2. seen' \subseteq DOMAIN hdr'
    BY <1>1, <1>2, <1>3
  <2> QED BY <1>1, <2>1, <2>2 DEF WInv, TypeOK
<1>5. /\ wroteHeader <=> out # <<>>
      /\ GrpcStatus \notin DOMAIN hdr /\ GrpcMessage \notin DOMAIN hdr
      /\ \A i \in 1 .. Len(out) : out[i].kind = "message"
      /\ wroteHeader => DOMAIN wire.header = seen /\ HeaderIn(wire.header, header)
      /\ ~wroteHeader => wire.status = 0
  BY <1>1 DEF WInv, Handling
<1>6. Starting' /\ Handling'
  BY <1>1 DEF Starting, Handling
<1>7. PICK n \in FrameSizes : flushWithTrailer(hdr', n)
  BY DEF HandlerReturns
<1>8. CASE wroteHeader
  <2> DEFINE t == [k \in DOMAIN hdr' \ seen |-> hdr'[k]]
  <2>1. wire' = wire /\ out' = Write("trailer", n, t)
    BY <1>7, <1>8 DEF flushWithTrailer, writeTrailer
  <2>2. /\ DOMAIN t = DOMAIN hdr' \ seen
        /\ \A k \in DOMAIN hdr' \ seen : t[k] = hdr'[k]
    OBVIOUS
  <2> HIDE DEF t
  <2>3. n \in Nat /\ n >= 5
    BY WebTypes
  <2>4. Parts(out)
    BY DEF WInv
  <2>5. Parts(out)'
    <3>1. Parts(Write("trailer", n, t))
      BY <2>3, <2>4, WriteFacts
    <3> QED BY <2>1, <3>1 DEF Parts
  <2>6. /\ Len(out) \in Nat /\ Len(out') = Len(out) + 1 /\ out' # <<>>
        /\ out'[Len(out) + 1].kind = "trailer" /\ out'[Len(out) + 1].md = t
        /\ \A i \in 1 .. Len(out) : out'[i] = out[i]
    BY <2>1, <2>3, <2>4, WriteFacts
  <2>7. Sent(out', wire') = t
    BY <2>6 DEF Sent
  <2>8. \A i \in 1 .. Len(out') : out'[i].kind = (IF i = Len(out') THEN "trailer" ELSE "message")
    BY <1>5, <2>6
  <2>9. GrpcStatus \notin seen /\ GrpcMessage \notin seen
    BY <1>2, <1>5
  <2>10. sentHeader' => StatusIn(t, s)
    BY <1>3, <2>2, <2>9 DEF StatusIn
  <2>11. MessageIn(t, s)
    BY <1>3, <2>2, <2>9 DEF MessageIn
  <2>12. sentHeader' => HeaderInBut(t, trailer, DOMAIN wire.header)
    BY <1>3, <1>5, <1>8, <2>2 DEF HeaderIn, HeaderInBut
  <2>13. DOMAIN t \cap DOMAIN wire.header = {}
    BY <1>5, <1>8, <2>2
  <2>14. Finished'
    <3>1. /\ trailer' = trailer /\ wire' = wire /\ st' = s /\ wroteHeader' = wroteHeader
          /\ header' = header /\ HeaderIn(wire.header, header)
      BY <1>1, <1>5, <1>8, <2>1
    <3> QED BY <1>8, <2>6, <2>7, <2>8, <2>10, <2>11, <2>12, <2>13, <3>1 DEF Finished
  <2>15. BodyIsWeb'
    BY <1>1, <1>5, <1>8, <2>1 DEF WInv, BodyIsWeb, Enc
  <2> QED BY <1>4, <1>6, <2>5, <2>14, <2>15 DEF WInv
<1>9. CASE ~wroteHeader
  <2>1. out' = out /\ wire' = Fixed(wire, hdr', 200)
    BY <1>7, <1>9 DEF flushWithTrailer
  <2>2. wire'.header = hdr' /\ out' = <<>>
    BY <1>5, <1>9, <2>1 DEF Fixed
  <2>3. Sent(out', wire') = hdr'
    BY <2>2 DEF Sent
  <2>4. Finished'
    <3>1. ~wroteHeader' /\ st' = s /\ header' = header /\ trailer' = trailer
      BY <1>1, <1>9
    <3>2. \A i \in 1 .. Len(out') : FALSE
      BY <2>2
    <3> QED BY <1>3, <2>2, <2>3, <3>1, <3>2 DEF Finished
  <2>5. Parts(out)' /\ BodyIsWeb'
    BY <2>1, <2>2 DEF WInv, Parts, BodyIsWeb
  <2> QED BY <1>4, <1>6, <2>4, <2>5 DEF WInv
<1> QED BY <1>8, <1>9

LEMMA Inductive == Spec => []WInv
<1>1. WInv /\ [Next]_webVars => WInv'
  <2> SUFFICES ASSUME WInv, [Next]_webVars PROVE WInv'
    OBVIOUS
  <2>1. CASE UNCHANGED webVars
    BY <2>1, StutterStep
  <2>2. CASE Refuse \/ RefuseCall \/ CallHandler
    BY <2>2, RefuseStep, RefuseCallStep, CallHandlerStep
  <2>3. CASE Expire \/ SendHeader
    BY <2>3, QuietSteps
  <2>4. ASSUME NEW m \in MDs, SetHeader(m) \/ SetTrailer(m) PROVE WInv'
    BY <2>4, QuietSteps
  <2>5. ASSUME NEW n \in Sizes, SendMsg(n) PROVE WInv'
    BY <2>5, SendMsgPanics, SendMsgStep
  <2>6. ASSUME NEW s \in Statuses, HandlerReturns(s) PROVE WInv'
    BY <2>6, ReturnsStep
  <2> QED BY <2>1, <2>2, <2>3, <2>4, <2>5, <2>6 DEF Next
<1> QED BY Initially, <1>1, PTL DEF Spec

-----------------------------------------------------------------------------
(* The client. *)

(* An answer with a body says which gRPC-Web format it is in, also one of    *)
(* http.Error, whatever serveGRPC and the handler set.                       *)
THEOREM AnswersAreWeb == Spec => []AnswerIsWeb
<1>1. WInv => AnswerIsWeb
  BY DEF WInv, AnswerIsWeb
<1> QED BY <1>1, Inductive, PTL

(* At the end the client has the trailers as they were sent, or, when the    *)
(* encoder kept their end, none.                                             *)
LEMMA TrailersDecoded ==
  ASSUME WInv, wpc = "done"
  PROVE  /\ ~CutOff => ClientTrailers = Sent(out, wire)
         /\ ClientTrailers \in {Sent(out, wire), NoMD}
<1>1. CASE out = <<>>
  BY <1>1 DEF ClientTrailers, Sent
<1>2. CASE out # <<>>
  <2> DEFINE n == Len(out)
  <2>1. /\ n \in Nat /\ n >= 1 /\ BytesOf(n) \in Nat
    BY <1>2, LastPart DEF WInv
  <2>2. \A i \in 1 .. n : out[i].kind = (IF i = n THEN "trailer" ELSE "message")
    BY DEF WInv, Finished
  <2>3. ~CutOff => Whole(n)
    BY <1>2, <2>1 DEF CutOff, Whole, Encoded
  <2>4. Trailers = IF Whole(n) THEN {n} ELSE {}
    BY <2>1, <2>2 DEF Trailers
  <2>5. Whole(n) => ClientTrailers = out[n].md
    BY <1>2, <2>1, <2>4, MaxOne DEF ClientTrailers
  <2>6. ~Whole(n) => ClientTrailers = NoMD
    BY <1>2, <2>4 DEF ClientTrailers
  <2>7. Sent(out, wire) = out[n].md
    BY <1>2 DEF Sent
  <2> QED BY <2>3, <2>5, <2>6, <2>7
<1> QED BY <1>1, <1>2

(* Whatever a handler sends and however the formats encode it, its messages  *)
(* are at the client when the call is over, its status is, unless the        *)
(* encoder kept its end or the deadline passed, and its message begins as    *)
(* the handler's does.                                                       *)
THEOREM AnswersArrive == Spec => []AnswerArrives
<1>1. ASSUME WInv PROVE MessagesArrive
  <2> SUFFICES ASSUME wreq.typ = "web" \/ wpc = "done",
                      NEW i \in 1 .. Len(out), out[i].kind = "message"
               PROVE  Whole(i)
    BY DEF MessagesArrive
  <2>1. Parts(out)
    BY <1>1 DEF WInv
  <2>2. /\ Len(out) \in Nat /\ BytesOf(Len(out)) \in Nat
        /\ BytesOf(i) = out[i].end /\ out[i].end \in Nat /\ out[i].end <= BytesOf(Len(out))
    BY <2>1, LastPart
  <2>3. CASE wreq.typ # "text"
    BY <2>2, <2>3 DEF Whole, Encoded
  <2>4. CASE wreq.typ = "text"
    <3>1. i # Len(out)
      BY <1>1, <2>4 DEF WInv, Finished
    <3>2. i < Len(out) /\ Len(out) \in 1 .. Len(out)
      BY <2>2, <3>1
    <3>3. out[i].end + 5 <= out[Len(out)].end
      BY <2>1, <3>2 DEF Parts
    <3>4. BytesOf(Len(out)) = out[Len(out)].end
      BY <2>1, <3>2, LastPart
    <3>5. out[i].end <= BytesOf(Len(out)) - (BytesOf(Len(out)) % 3)
      BY <2>2, <3>3, <3>4
    <3> QED BY <2>2, <2>4, <3>5 DEF Whole, Encoded
  <2> QED BY <2>3, <2>4
<1>2. ASSUME WInv PROVE StatusArrives
  <2> SUFFICES ASSUME wpc = "done", sentHeader, ~CutOff
               PROVE  StatusIn(ClientTrailers, st)
    BY DEF StatusArrives, StatusIn
  <2>1. ClientTrailers = Sent(out, wire)
    BY <1>2, TrailersDecoded
  <2> QED BY <1>2, <2>1 DEF WInv, Finished
<1>3. ASSUME WInv PROVE MessageIsPrefix
  <2> SUFFICES ASSUME wpc = "done", GrpcMessage \in DOMAIN ClientTrailers
               PROVE  IsPrefix(Unescaped(ClientTrailers[GrpcMessage][1].data), st.msg)
    BY DEF MessageIsPrefix
  <2>1. ClientTrailers = Sent(out, wire)
    <3>1. DOMAIN NoMD = {}
      BY DEF NoMD
    <3> QED BY <1>3, <3>1, TrailersDecoded
  <2>2. ClientTrailers[GrpcMessage] = <<Plain(encodeGrpcMessage(st.msg))>>
    BY <1>3, <2>1 DEF WInv, Finished, MessageIn
  <2>3. st \in Statuses
    BY <1>3 DEF WInv, Finished
  <2>4. st.msg \in Seq(STRING)
    BY <2>3, WebTypes
  <2>5. ClientTrailers[GrpcMessage][1].data = encodeGrpcMessage(st.msg)
    BY <2>2 DEF Plain
  <2> QED BY <2>4, <2>5, DecodesPrefix
<1>4. WInv => AnswerArrives
  BY <1>1, <1>2, <1>3 DEF AnswerArrives
<1> QED BY <1>4, Inductive, PTL

(* Metadata arrive in both directions with their values: the handler has the *)
(* client's without the reserved keys, and empty in the place of binary      *)
(* values that are padded or not in base64; the client has the header's in   *)
(* the header and the trailer's as trailers, but for keys that are both.     *)
THEOREM MetadataArePlaced == Spec => []MetadataInPlace
<1>1. ASSUME WInv PROVE HeadersArrive
  <2> SUFFICES ASSUME wpc \in {"handler", "done"}, sentHeader, wire.status # 0
               PROVE  \/ HeaderIn(wire.header, header)
                      \/ /\ ~wroteHeader
                         /\ HeaderInBut(wire.header, header, DOMAIN trailer \cup {GrpcDetails})
    BY DEF HeadersArrive, HeaderIn, HeaderInBut
  <2>1. CASE wpc = "handler"
    BY <1>1, <2>1 DEF WInv, Handling
  <2>2. CASE wpc = "done"
    BY <1>1, <2>2 DEF WInv, Finished
  <2> QED BY <2>1, <2>2
<1>2. ASSUME WInv PROVE TrailersArrive
  <2> SUFFICES ASSUME wpc = "done", sentHeader, ~CutOff
               PROVE  /\ wroteHeader => DOMAIN ClientTrailers \cap DOMAIN wire.header = {}
                      /\ wroteHeader => HeaderInBut(ClientTrailers, trailer, DOMAIN wire.header)
                      /\ ~wroteHeader => HeaderIn(ClientTrailers, trailer)
    BY DEF TrailersArrive, HeaderIn, HeaderInBut
  <2>1. ClientTrailers = Sent(out, wire)
    BY <1>2, TrailersDecoded
  <2>2. ~wroteHeader => Sent(out, wire) = wire.header
    BY <1>2 DEF WInv, Finished, Sent
  <2> QED BY <1>2, <2>1, <2>2 DEF WInv, Finished
<1>3. ASSUME WInv PROVE MetadataArrives
  <2> SUFFICES ASSUME wpc = "handler", NEW k \in DOMAIN wreq.header
               PROVE  IF isReservedHeader(k) /\ k.name # "user-agent" THEN k \notin DOMAIN md
                      ELSE /\ k \in DOMAIN md /\ DOMAIN md[k] = DOMAIN wreq.header[k]
                           /\ \A i \in DOMAIN wreq.header[k] :
                                md[k][i] = IF k.bin /\ NotDecoded(wreq.header[k][i]) THEN <<>>
                                           ELSE wreq.header[k][i].data
    BY DEF MetadataArrives
  <2> DEFINE kept == {x \in DOMAIN wreq.header : ~isReservedHeader(x) \/ isWhitelistedHeader(x)}
             v(x) == [i \in DOMAIN wreq.header[x] |->
                        IF x.bin THEN decodeBinHeader(wreq.header[x][i]) ELSE wreq.header[x][i].data]
  <2>1. md = [x \in kept |-> v(x)]
    BY <1>3 DEF WInv, Handling, newIncomingContext
  <2>2. CASE isReservedHeader(k) /\ k.name # "user-agent"
    <3>1. k \notin kept
      BY <2>2 DEF isWhitelistedHeader, isReservedHeader
    <3> QED BY <2>1, <2>2, <3>1
  <2>3. CASE ~(isReservedHeader(k) /\ k.name # "user-agent")
    <3>1. k \in kept
      BY <2>3 DEF isWhitelistedHeader, isReservedHeader
    <3>2. k \in DOMAIN md /\ md[k] = v(k)
      BY <2>1, <3>1
    <3>3. DOMAIN md[k] = DOMAIN wreq.header[k]
      BY <3>2
    <3>4. ASSUME NEW i \in DOMAIN wreq.header[k]
          PROVE  md[k][i] = IF k.bin /\ NotDecoded(wreq.header[k][i]) THEN <<>>
                            ELSE wreq.header[k][i].data
      <4>1. md[k][i] = IF k.bin THEN decodeBinHeader(wreq.header[k][i]) ELSE wreq.header[k][i].data
        BY <3>2
      <4>2. wreq.header[k][i].form \in {"plain", "raw", "padded"}
        <5>1. wreq \in WebRequests
          BY <1>3 DEF WInv, TypeOK
        <5> QED BY <5>1, WebTypes
      <4> QED BY <4>1, <4>2 DEF decodeBinHeader, DecodesBin, NotDecoded
    <3> QED BY <2>3, <3>2, <3>3, <3>4
  <2> QED BY <2>2, <2>3
<1>4. WInv => MetadataInPlace
  BY <1>1, <1>2, <1>3 DEF MetadataInPlace
<1> QED BY <1>4, Inductive, PTL
=============================================================================
