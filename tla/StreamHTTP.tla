----------------------------- MODULE StreamHTTP -----------------------------
(***************************************************************************)
(* How a handler receives the messages of an HTTP request: RecvMsg,        *)
(* decodeRequestArgs and readMsg of streamHTTP (larking/http.go), readAll  *)
(* (mux.go) and the ReadNext of the three stream codecs (codec.go).        *)
(*                                                                         *)
(* A client-streaming request is one body that holds many messages.  The   *)
(* reader hands the body out in pieces of any length, so a call may find   *)
(* a part of its message, or more than it; what it does not use waits in   *)
(* rbuf for the next call.                                                 *)
(*                                                                         *)
(* A body is a sequence of units.  A unit says to which message it belongs *)
(* (msg), its position (pos) and how many units the message has (size).    *)
(* For "json" the last unit is the brace that closes the object; for       *)
(* "proto" the first one is the varint that announces the rest; for "body" *)
(* (google.api.HttpBody) the units have no structure.                      *)
(***************************************************************************)
EXTENDS Naturals, Sequences, SequencesExt, FiniteSets

CONSTANTS
  Requests,    \* the requests: codec ("none" if none is registered), whether the
               \* method streams, body of the HTTP request, hasBody (of the request
               \* and of the rule), the messages that are bad (they do not
               \* unmarshal) and whether the parameters of the URL can be set
  EOFWithData, \* whether readers report io.EOF together with their last units
  Limit        \* maxReceiveMessageSize, in units

Unit == [msg : Nat, pos : Nat, size : Nat]

(* The units of a body: messages 1, 2, ... one after the other, each from    *)
(* its first unit to its last; the body may end inside a message.            *)
Framed(b) ==
  /\ \A p \in 1 .. Len(b) : b[p].pos \in 1 .. b[p].size
  /\ b # <<>> => b[1].msg = 1 /\ b[1].pos = 1
  /\ \A p \in 1 .. Len(b) - 1 :
       b[p].pos = b[p].size => b[p + 1].msg = b[p].msg + 1 /\ b[p + 1].pos = 1
  /\ \A p, q \in 1 .. Len(b) :
       p < q /\ q - p <= b[p].size - b[p].pos =>
         b[q].msg = b[p].msg /\ b[q].size = b[p].size /\ b[q].pos = b[p].pos + (q - p)
  /\ \A p, q \in 1 .. Len(b) : p < q => b[p].msg <= b[q].msg

ASSUME RequestTypes ==
  /\ Requests \subseteq [codec : {"json", "proto", "body", "none"}, streaming : BOOLEAN,
                         hasBody : BOOLEAN, body : Seq(Unit), bad : SUBSET Nat,
                         paramsOK : BOOLEAN]
  /\ \A r \in Requests : Framed(r.body)
  /\ \A r \in Requests :   \* JSON of a method that does not stream is one value
       ~r.streaming /\ r.codec = "json" /\ r.body # <<>> =>
         r.body[1].size = Len(r.body) \/ 1 \in r.bad
  /\ EOFWithData \subseteq BOOLEAN
  /\ Limit \in Nat \ {0}

VARIABLES
  req,       \* the request, fixed
  eofEarly,  \* the kind of its reader, fixed
  rest,      \* the units the reader has not handed out
  pc,        \* where RecvMsg is: "idle", "scan" in ReadNext, "all" in readAll
  buf,       \* the local b of the call
  total,     \* the local total of readAll and of codecHTTPBody.ReadNext
  rbuf,      \* streamHTTP.rbuf
  rEOF,      \* streamHTTP.rEOF
  recvCount, \* streamHTTP.recvCount
  received,  \* the messages RecvMsg has returned, in order
  params,    \* the places in `received' of the messages that got the parameters
  last       \* what the last RecvMsg returned

vars == <<req, eofEarly, rest, pc, buf, total, rbuf, rEOF, recvCount, received,
          params, last>>

TypeOK ==
  /\ req \in Requests
  /\ eofEarly \in EOFWithData
  /\ rest \in Seq(Unit)
  /\ pc \in {"idle", "scan", "all"}
  /\ buf \in Seq(Unit)
  /\ total \in Nat
  /\ rbuf \in Seq(Unit)
  /\ rEOF \in BOOLEAN
  /\ recvCount \in Nat
  /\ received \in Seq(Seq(Unit))
  /\ params \subseteq 1 .. Len(received)
  /\ last \in {"none", "message", "eof", "error"}

Init ==
  /\ req \in Requests
  /\ eofEarly \in EOFWithData
  /\ rest = req.body
  /\ pc = "idle"
  /\ buf = <<>>
  /\ total = 0
  /\ rbuf = <<>>
  /\ rEOF = FALSE
  /\ recvCount = 0
  /\ received = <<>>
  /\ params = {}
  /\ last = "none"

-----------------------------------------------------------------------------
(* RecvMsg returns.  The first message gets the parameters of the URL.       *)

ReturnError(e) == last' = e /\ UNCHANGED <<received, params>>

ReturnMessage(m, count) ==
  IF count = 0 /\ ~req.paramsOK
    THEN ReturnError("error")
    ELSE /\ received' = Append(received, m)
         /\ params' = IF count = 0 THEN params \cup {Len(received) + 1} ELSE params
         /\ last' = "message"

(* Codec.Unmarshal: JSON has no empty message, protobuf has one, and an      *)
(* HttpBody takes the bytes as they are.                                     *)
Unmarshals(m) ==
  \/ req.codec = "body"
  \/ IF m = <<>> THEN req.codec # "json" ELSE Len(received) + 1 \notin req.bad

Decode(m) ==
  IF ~Unmarshals(m)
    THEN ReturnError("error")
    ELSE ReturnMessage(m, recvCount - 1)

(* The end of readMsg for a result (b, n, err) of ReadNext. *)
ReadNextReturns(b, n, err) ==
  /\ rbuf' = SubSeq(b, n + 1, Len(b))
  /\ rEOF' = (rEOF \/ err = "eof")
  /\ IF err = "error" THEN ReturnError("error") ELSE Decode(SubSeq(b, 1, n))
  /\ pc' = "idle" /\ buf' = <<>> /\ total' = 0
  /\ UNCHANGED <<req, eofEarly, recvCount>>

-----------------------------------------------------------------------------
(* The call, up to its first read.  A handler stops at io.EOF or an error.    *)
RecvMsg ==
  /\ pc = "idle" /\ last \in {"none", "message"}
  /\ IF req.hasBody
       THEN CASE req.codec = "none" ->
                   ReturnError("error") /\ UNCHANGED <<pc, buf, recvCount>>
              [] req.codec # "none" /\ rEOF ->
                   ReturnError("eof") /\ UNCHANGED <<pc, buf, recvCount>>
              [] req.codec # "none" /\ ~rEOF ->
                   /\ recvCount' = recvCount + 1
                   /\ pc' = IF req.streaming THEN "scan" ELSE "all"
                   /\ buf' = IF req.streaming THEN rbuf ELSE <<>>
                   /\ UNCHANGED <<received, params, last>>
       ELSE /\ recvCount' = recvCount + 1
            /\ IF rEOF THEN ReturnError("eof") ELSE ReturnMessage(<<>>, recvCount)
            /\ UNCHANGED <<pc, buf>>
  /\ rEOF' = (rEOF \/ ~req.hasBody)
  /\ UNCHANGED <<req, eofEarly, rest, total, rbuf>>

(* r.Read: k units, and perhaps io.EOF.  The room left in b bounds k.        *)
Reads(k, eof) ==
  /\ k <= Len(rest)
  /\ eof => k = Len(rest)
  /\ IF rest = <<>> THEN eof ELSE k > 0 /\ (eof => eofEarly)
  /\ rest' = SubSeq(rest, k + 1, Len(rest))

-----------------------------------------------------------------------------
(* CodecJSON.ReadNext: look for the closing brace among the first Limit      *)
(* units, reading when the buffer ends.                                      *)

(* Mutant: the limit is one unit too small. *)
ClosingBelow == {i \in 1 .. Len(buf) : i < Limit /\ buf[i].pos = buf[i].size}

Closing == {i \in 1 .. Len(buf) : i <= Limit /\ buf[i].pos = buf[i].size}

(* Mutant: the last closing brace of the buffer ends the message. *)
JSONFoundLast ==
  /\ pc = "scan" /\ req.codec = "json"
  /\ \E n \in Closing : (\A i \in Closing : i <= n) /\ ReadNextReturns(buf, n, "nil")
  /\ UNCHANGED rest

JSONFound ==
  /\ pc = "scan" /\ req.codec = "json"
  /\ \E n \in Closing : (\A i \in Closing : n <= i) /\ ReadNextReturns(buf, n, "nil")
  /\ UNCHANGED rest

(* Mutant: the loop is left only beyond the limit, and reads no more at it. *)
JSONTooLargeLate ==
  /\ pc = "scan" /\ req.codec = "json"
  /\ Closing = {} /\ Len(buf) > Limit
  /\ ReadNextReturns(buf, 0, "error")
  /\ UNCHANGED rest

JSONTooLarge ==
  /\ pc = "scan" /\ req.codec = "json"
  /\ Closing = {} /\ Len(buf) >= Limit
  /\ ReadNextReturns(buf, 0, "error")
  /\ UNCHANGED rest

JSONRead(k, eof) ==
  /\ pc = "scan" /\ req.codec = "json"
  /\ Closing = {} /\ Len(buf) < Limit
  /\ Reads(k, eof)
  /\ LET b == buf \o SubSeq(rest, 1, k)
     IN IF eof THEN ReadNextReturns(b, 0, "eof")
        ELSE /\ buf' = b
             /\ UNCHANGED <<req, eofEarly, pc, total, rbuf, rEOF, recvCount,
                            received, params, last>>

(* CodecProto.ReadNext: the varint first; then io.ReadFull of exactly what    *)
(* is missing, which is content with an io.EOF that comes with the last unit. *)

ProtoSizeRead(k, eof) ==
  /\ pc = "scan" /\ req.codec = "proto"
  /\ buf = <<>>
  /\ Reads(k, eof)
  /\ LET b == SubSeq(rest, 1, k)
     IN IF eof THEN ReadNextReturns(b, 0, "eof")
        ELSE /\ buf' = b
             /\ UNCHANGED <<req, eofEarly, pc, total, rbuf, rEOF, recvCount,
                            received, params, last>>

ProtoMessage ==
  /\ pc = "scan" /\ req.codec = "proto"
  /\ buf # <<>>
  /\ LET size == Head(buf).size - 1
         b == Tail(buf)
         missing == size - Len(b)
     IN IF size > Limit
          THEN ReadNextReturns(buf, 0, "error") /\ UNCHANGED rest
          ELSE IF size <= Len(b)
            THEN ReadNextReturns(b, size, "nil") /\ UNCHANGED rest
            ELSE IF missing <= Len(rest)
              THEN /\ ReadNextReturns(b \o SubSeq(rest, 1, missing), size, "nil")
                   /\ rest' = SubSeq(rest, missing + 1, Len(rest))
              ELSE ReadNextReturns(b, 0, "error") /\ rest' = <<>>

(* Mutant: a chunk is all that was read, beyond the limit too. *)
BodyReadUncapped(k, eof) ==
  /\ pc = "scan" /\ req.codec = "body"
  /\ Reads(k, eof)
  /\ LET b == buf \o SubSeq(rest, 1, k)
         n == total + k
     IN IF eof \/ n >= Limit
          THEN ReadNextReturns(b, n, IF eof THEN "eof" ELSE "nil")
          ELSE /\ buf' = b /\ total' = n
               /\ UNCHANGED <<req, eofEarly, pc, rbuf, rEOF, recvCount,
                              received, params, last>>

(* codecHTTPBody.ReadNext: read until Limit more units have come in. *)
BodyRead(k, eof) ==
  /\ pc = "scan" /\ req.codec = "body"
  /\ Reads(k, eof)
  /\ LET b == buf \o SubSeq(rest, 1, k)
         n == IF total + k > Limit THEN Limit ELSE total + k
     IN IF eof \/ n = Limit
          THEN ReadNextReturns(b, n, IF eof THEN "eof" ELSE "nil")
          ELSE /\ buf' = b /\ total' = n
               /\ UNCHANGED <<req, eofEarly, pc, rbuf, rEOF, recvCount,
                              received, params, last>>

(* readAll, for a method that does not stream. *)
ReadAll(k, eof) ==
  /\ pc = "all"
  /\ Reads(k, eof)
  /\ LET b == buf \o SubSeq(rest, 1, k)
     IN IF total + k > Limit
          THEN /\ ReturnError("error")
               /\ pc' = "idle" /\ buf' = <<>> /\ total' = 0
               /\ UNCHANGED rEOF
          ELSE IF eof
            THEN Decode(b) /\ rEOF' = TRUE /\ pc' = "idle" /\ buf' = <<>> /\ total' = 0
            ELSE /\ buf' = b /\ total' = total + k
                 /\ UNCHANGED <<pc, rEOF, received, params, last>>
  /\ UNCHANGED <<req, eofEarly, rbuf, recvCount>>

-----------------------------------------------------------------------------
Read ==
  \E k \in 0 .. Len(rest), eof \in BOOLEAN :
    JSONRead(k, eof) \/ ProtoSizeRead(k, eof) \/ BodyRead(k, eof) \/ ReadAll(k, eof)

Next == RecvMsg \/ JSONFound \/ JSONTooLarge \/ ProtoMessage \/ Read

Spec == Init /\ [][Next]_vars

-----------------------------------------------------------------------------
(* Properties. *)

(* The requests whose body is a stream of messages that the codec frames. *)
Stream == req.hasBody /\ req.streaming /\ req.codec \in {"json", "proto"}

(* Message i of a body is its units a to b. *)
IsMessage(body, i, a, b) ==
  /\ body[a].msg = i /\ body[a].pos = 1
  /\ body[b].msg = i /\ body[b].pos = body[b].size

(* m is message i of r as the handler should see it: whole, without varint.  *)
Whole(r, m, i) ==
  \E a, b \in 1 .. Len(r.body) :
    /\ IsMessage(r.body, i, a, b)
    /\ m = SubSeq(r.body, IF r.codec = "proto" THEN a + 1 ELSE a, b)

(* What the framing must survive: pieces of any length and leftovers carried *)
(* from call to call.  Message i that RecvMsg returns is message i of the    *)
(* body, whole (the empty one it makes up at the end of the body aside).     *)
FramesInOrder ==
  Stream =>
    \A i \in 1 .. Len(received) :
      Whole(req, received[i], i) \/ (received[i] = <<>> /\ rEOF /\ i = Len(received))

(* io.EOF is the end: when it is returned, each message of the body has been *)
(* received, as long as the reader does not report io.EOF with its data.     *)
NothingLost ==
  last = "eof" /\ ~eofEarly /\ Stream =>
    \A p \in 1 .. Len(req.body) :
      LET i == req.body[p].msg IN i \in 1 .. Len(received) /\ Whole(req, received[i], i)

(* The parameters of the URL are set on the first message and on no other,   *)
(* whether or not the request has a body.                                    *)
ParamsOnFirst == received # <<>> => params = {1}

(* What RecvMsg returns is the messages of the body, in order and to the     *)
(* last, with the parameters where they belong.                              *)
MessagesInOrder == FramesInOrder /\ NothingLost /\ ParamsOnFirst

(* Message i of r is longer than the limit. *)
TooLong(r, i) ==
  \E p \in 1 .. Len(r.body) :
    r.body[p].msg = i /\ r.body[p].size > IF r.codec = "proto" THEN Limit + 1 ELSE Limit

(* The body of r ends inside message i. *)
CutShort(r, i) ==
  r.body # <<>> /\ Last(r.body).msg = i /\ Last(r.body).pos < Last(r.body).size

AllReceived == \A p \in 1 .. Len(req.body) : req.body[p].msg \in 1 .. Len(received)

(* The one refusal that has no cause in the request: readMsg turns io.EOF     *)
(* into an empty message, which JSON does not have.  So a JSON stream ends    *)
(* with an error after its last message, and whole messages that a reader     *)
(* hands out together with io.EOF are refused; so is a body that is empty.    *)
EndOfJSON == req.codec = "json" /\ rEOF /\ (AllReceived \/ (req.streaming /\ eofEarly))

(* RecvMsg refuses a message for a reason: no codec, parameters that cannot   *)
(* be set, a message that does not unmarshal, one longer than the limit, a    *)
(* body that ends inside this message.  The end of a JSON stream is the       *)
(* exception (StreamOfMessages shows it).                                     *)
RefusedForAReason ==
  last = "error" =>
    LET next == Len(received) + 1
    IN \/ req.codec = "none"
       \/ received = <<>> /\ ~req.paramsOK
       \/ next \in req.bad
       \/ TooLong(req, next) \/ CutShort(req, next)
       \/ ~req.streaming /\ Len(req.body) > Limit
       \/ EndOfJSON

(* The chunks of an HttpBody are the beginning of the body, in order and     *)
(* without a gap, none longer than the limit.                                *)
ChunksInOrder ==
  req.codec = "body" =>
    /\ IsPrefix(FlattenSeq(received), req.body)
    /\ \A i \in 1 .. Len(received) : Len(received[i]) <= Limit

-----------------------------------------------------------------------------
(* What the documentation says, and the code does not do. *)

FramesOf(b) == {u.msg : u \in {b[i] : i \in 1 .. Len(b)}}

(* README, "The above creates an input stream of two messages": a body of    *)
(* whole messages is received as these messages, and then io.EOF.            *)
StreamOfMessages ==
  last \in {"eof", "error"} =>
    /\ last = "eof"
    /\ Len(received) = Cardinality(FramesOf(req.body))

(* README, "For large requests streaming RPCs support chunking the file into *)
(* multiple messages": when io.EOF is returned, the chunks are the file.     *)
ChunksAreTheFile ==
  last = "eof" /\ req.codec = "body" /\ req.hasBody => FlattenSeq(received) = req.body
=============================================================================
