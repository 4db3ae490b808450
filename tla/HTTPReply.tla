----------------------------- MODULE HTTPReply ------------------------------
(***************************************************************************)
(* An HTTP request from serveHTTP to the last byte of its answer           *)
(* (larking/http.go): the stream of StreamHTTP, what the handler sends on  *)
(* it, and encError, which turns the error of the handler into an answer.  *)
(*                                                                         *)
(* net/http fixes the status and the headers at the first byte of the body *)
(* or at WriteHeader, whichever comes first; later ones are ignored.       *)
(***************************************************************************)
EXTENDS StreamHTTP, Negotiate, Metadata

CONSTANTS
  RepliesFor(_), \* the rest of a request, given its receiving side: accept and
                 \* acceptEncoding (headers), contentType, twirp, of the method
                 \* serverStream and output ("plain" or "HttpBody"), and sends,
                 \* a bound on what its handler sends
  Codes,         \* the codes of status errors
  MDs,           \* the metadata handlers set
  BodyTypes,     \* the content types of the HttpBody messages of handlers
  SendLimit      \* maxSendMessageSize

ASSUME ReplyTypes ==
  /\ \A r \in Requests : \A p \in RepliesFor(r) :
       /\ p.accept \in Seq(Seq(AcceptItem)) /\ p.acceptEncoding \in Seq(Seq(AcceptItem))
       /\ p.twirp \in BOOLEAN /\ p.serverStream \in BOOLEAN /\ p.sends \in Nat
  /\ Codes \subseteq Nat \ {0}
  /\ SendLimit \in Nat

VARIABLES
  rep,        \* the rest of the request, fixed
  phase,      \* "start", "handler", "done", "panic"
  accept,     \* streamHTTP.accept
  encoding,   \* the compressor of the answer, "none" for no compressor
  header,     \* streamHTTP.header: what SetHeader and SendHeader collected
  sentHeader, \* streamHTTP.sentHeader
  sendCount,  \* streamHTTP.sendCount
  raw,        \* the handler holds the reader of the body, the writer of the answer
  rawBody,    \* what it read through the former
  wHeader,    \* the header of the answer
  wire,       \* what is fixed: status (0 if nothing is), the header, the body
  serr,       \* the code of a SendMsg that failed, 0 if none did
  herr        \* the code of the error the handler returned, 0 for none

replyVars == <<rep, phase, accept, encoding, header, sentHeader, sendCount, raw, rawBody,
               wHeader, wire, serr, herr>>
allVars == <<vars, replyVars>>

NoType == Type("", "")

ReplyInit ==
  /\ Init
  /\ rep \in RepliesFor(req)
  /\ phase = "start" /\ accept = NoType /\ encoding = "none"
  /\ header = NoMD /\ sentHeader = FALSE /\ sendCount = 0
  /\ raw = [reader |-> FALSE, writer |-> FALSE] /\ rawBody = <<>>
  /\ wHeader = NoMD
  /\ wire = [status |-> 0, header |-> NoMD, body |-> <<>>]
  /\ serr = 0 /\ herr = 0

-----------------------------------------------------------------------------
(* The answer on the wire. *)

ContentType == Key("content-type")
ContentEncoding == Key("content-encoding")

(* WriteHeader: only the first one counts. *)
WithStatus(w, h, status) ==
  IF w.status # 0 THEN w ELSE [status |-> status, header |-> h, body |-> w.body]

Written(w, h, part) == [WithStatus(w, h, 200) EXCEPT !.body = Append(@, part)]

Part(kind, type, enc) == [kind |-> kind, type |-> type, enc |-> enc]

codeToHTTPStatus == <<200, 408, 500, 400, 504, 404, 409, 403, 429, 400, 409, 400, 501, 500, 503,
                      500, 401>>

(* The bound is tested with > instead of >=: the code after the last one is   *)
(* an index out of range (0 here).                                            *)
HTTPStatusCode(c) ==
  CASE c > Len(codeToHTTPStatus) -> 500
    [] c = Len(codeToHTTPStatus) -> 0
    [] OTHER -> codeToHTTPStatus[c + 1]

(* fRsp.Flush, deferred by SendMsg and so part of its failures too: an answer *)
(* that has not begun is begun, with 200.  A compressor is no http.Flusher.   *)
Flushed(w, h) == IF encoding = "none" THEN WithStatus(w, h, 200) ELSE w

(* z.Close, deferred: the compressor writes its last bytes to the answer. *)
WriterClosed(w, h) ==
  IF encoding = "none" THEN w ELSE Written(w, h, Part("footer", NoType, encoding))

(* ServeHTTP returns: net/http sends 200 if nothing was sent. *)
Closed(w, h) == WithStatus(WriterClosed(w, h), h, 200)

(* encError encodes the error for the type that is negotiated anew, JSON if  *)
(* nothing is acceptable; the codec of HttpBody is among the offers and      *)
(* cannot encode.                                                            *)
ErrorType == IF rep.twirp THEN JSON ELSE negotiateContentType(rep.accept, contentTypeOffers, JSON)

CannotEncode == ~rep.twirp /\ codecs[ErrorType] = "body"

(* Mutant: the body is written before the status. *)
EncErrorBodyFirst(c, h) ==
  LET g == Set(h, ContentType, ErrorType)
      status == HTTPStatusCode(c)
  IN /\ wHeader' = g
     /\ CASE status = 0 -> phase' = "panic" /\ wire' = WriterClosed(wire, g)
          [] status # 0 /\ CannotEncode ->
               phase' = "panic" /\ wire' = WriterClosed(WithStatus(wire, g, status), g)
          [] status # 0 /\ ~CannotEncode ->
               /\ phase' = "done"
               /\ wire' = Closed(WithStatus(Written(wire, g, Part("error", ErrorType, "none")),
                                            g, status), g)

encError(c, h) ==
  LET g == Set(h, ContentType, ErrorType)
      status == HTTPStatusCode(c)
  IN /\ wHeader' = g
     /\ CASE status = 0 -> phase' = "panic" /\ wire' = WriterClosed(wire, g)
          [] status # 0 /\ CannotEncode ->
               phase' = "panic" /\ wire' = WriterClosed(WithStatus(wire, g, status), g)
          [] status # 0 /\ ~CannotEncode ->
               /\ phase' = "done"
               /\ wire' = Closed(Written(WithStatus(wire, g, status), g,
                                         Part("error", ErrorType, "none")), g)

-----------------------------------------------------------------------------
(* serveHTTP before the handler: no rule, a bad query, no handler, a body    *)
(* that cannot be decompressed.  ServeHTTP answers with encError.            *)
RefuseCodes == {2, 3, 5, 12}

Refuse(c) ==
  /\ phase = "start" /\ c \in RefuseCodes
  /\ herr' = c
  /\ encError(c, wHeader)
  /\ UNCHANGED <<vars, rep, accept, encoding, header, sentHeader, sendCount, raw, rawBody, serr>>

CallHandler ==
  /\ phase = "start"
  /\ phase' = "handler"
  /\ accept' = negotiateContentType(rep.accept, contentTypeOffers, rep.contentType)
  /\ LET e == negotiateContentEncoding(rep.acceptEncoding, encodingTypeOffers)
     IN IF e \in DOMAIN compressors
          THEN encoding' = compressors[e] /\ wHeader' = Set(wHeader, ContentEncoding, encoding')
          ELSE UNCHANGED <<encoding, wHeader>>
  /\ UNCHANGED <<vars, rep, header, sentHeader, sendCount, raw, rawBody, wire, serr, herr>>

-----------------------------------------------------------------------------
(* The handler: between two calls, it may make any other. *)

InHandler == phase = "handler" /\ pc = "idle"

Receive ==
  /\ phase = "handler" /\ ~raw.reader
  /\ Next
  /\ UNCHANGED replyVars

(* Each piece of metadata is set once, by handlers that send. *)
MaySet(md) == InHandler /\ rep.sends > 0 /\ DOMAIN md \cap DOMAIN header = {}

SetHeader(md) ==
  /\ MaySet(md) /\ ~sentHeader
  /\ header' = Join(header, md)
  /\ UNCHANGED <<vars, rep, phase, accept, encoding, sentHeader, sendCount, raw, rawBody, wHeader,
                 wire, serr, herr>>

SendHeader(md) ==
  /\ MaySet(md) /\ ~sentHeader
  /\ header' = Join(header, md)
  /\ wHeader' = setOutgoingHeader(wHeader, header')
  /\ sentHeader' = TRUE
  /\ UNCHANGED <<vars, rep, phase, accept, encoding, sendCount, raw, rawBody, wire, serr, herr>>

(* What the first message adds to the header: its type, then the metadata if *)
(* they were not sent yet.                                                   *)
FirstHeader(type) ==
  LET h == Set(wHeader, ContentType, type)
  IN IF sentHeader THEN h ELSE setOutgoingHeader(h, header)

(* writeMsg, WriteNext and writeAll; n is the length.  A stream of protobuf  *)
(* messages has the length before each of them.  SendMsg flushes.            *)
writeMsg(codec, type, n) ==
  LET h == IF sendCount = 0 THEN FirstHeader(type) ELSE wHeader
      size == Written(wire, h, Part("size", type, encoding))
  IN /\ wHeader' = h
     /\ sentHeader' = TRUE
     /\ sendCount' = sendCount + 1
     /\ IF rep.serverStream \/ n <= SendLimit
          THEN /\ wire' = Written(IF rep.serverStream /\ codec = "proto" THEN size ELSE wire,
                                  h, Part("message", type, encoding))
               /\ UNCHANGED serr
          ELSE serr' = 2 /\ wire' = Flushed(wire, h)

(* A unary method sends once; no handler sends again after an error.         *)
MaySend == InHandler /\ sendCount < rep.sends /\ serr = 0 /\ (rep.serverStream \/ sendCount = 0)

(* SendMsg of a message that a codec encodes, and of an HttpBody. *)
SendMsg(n) ==
  /\ MaySend /\ rep.output = "plain"
  /\ CASE accept \notin DOMAIN codecs ->
            /\ serr' = 13 /\ wire' = Flushed(wire, wHeader)
            /\ UNCHANGED <<phase, sentHeader, sendCount, wHeader>>
       [] accept = HttpBody ->
            /\ phase' = "panic" /\ wire' = WriterClosed(Flushed(wire, wHeader), wHeader)
            /\ UNCHANGED <<sentHeader, sendCount, wHeader, serr>>
       [] OTHER -> writeMsg(codecs[accept], accept, n) /\ UNCHANGED phase
  /\ UNCHANGED <<vars, rep, accept, encoding, header, raw, rawBody, herr>>

SendHttpBody(type, n) ==
  /\ MaySend /\ rep.output = "HttpBody" /\ ~raw.writer
  /\ writeMsg("body", type, n)
  /\ UNCHANGED <<vars, rep, phase, accept, encoding, header, raw, rawBody, herr>>

(* AsHTTPBodyReader: instead of the first message, its parameters and the    *)
(* reader of the body; what was received before is a reason to refuse.       *)
MayTakeReader == InHandler /\ ~raw.reader /\ req.streaming /\ req.codec = "body"

TakesReader ==
  /\ raw' = [raw EXCEPT !.reader = TRUE]
  /\ received' = Append(received, <<>>) /\ params' = params \cup {Len(received) + 1}
  /\ recvCount' = recvCount + 1
  /\ UNCHANGED <<req, eofEarly, rest, pc, buf, total, rbuf, rEOF, last, rep, phase, accept,
                 encoding, header, sentHeader, sendCount, rawBody, wHeader, wire, serr, herr>>

ParamsRefused ==
  /\ ReturnError("error")
  /\ UNCHANGED <<req, eofEarly, rest, pc, buf, total, rbuf, rEOF, recvCount, replyVars>>

AsHTTPBodyReader ==
  /\ MayTakeReader /\ recvCount = 0
  /\ IF req.paramsOK THEN TakesReader ELSE ParamsRefused

ReadRaw(k, eof) ==
  /\ InHandler /\ raw.reader /\ last # "eof"
  /\ Reads(k, eof)
  /\ rawBody' = rawBody \o SubSeq(rest, 1, k)
  /\ last' = IF eof THEN "eof" ELSE last
  /\ UNCHANGED <<req, eofEarly, pc, buf, total, rbuf, rEOF, recvCount, received, params, rep,
                 phase, accept, encoding, header, sentHeader, sendCount, raw, wHeader, wire, serr,
                 herr>>

(* Mutant: the writer is given out again. *)
AsWriterAgain(type) ==
  /\ InHandler /\ rep.sends > 0
  /\ rep.serverStream /\ rep.output = "HttpBody" /\ sendCount <= rep.sends
  /\ wHeader' = FirstHeader(type)
  /\ sentHeader' = TRUE
  /\ sendCount' = sendCount + 1
  /\ raw' = [raw EXCEPT !.writer = TRUE]
  /\ UNCHANGED <<vars, rep, phase, accept, encoding, header, rawBody, wire, serr, herr>>

(* AsHTTPBodyWriter: the header of the first message and the writer. *)
AsHTTPBodyWriter(type) ==
  /\ InHandler /\ rep.sends > 0
  /\ rep.serverStream /\ rep.output = "HttpBody" /\ sendCount = 0
  /\ wHeader' = FirstHeader(type)
  /\ sentHeader' = TRUE
  /\ sendCount' = 1
  /\ raw' = [raw EXCEPT !.writer = TRUE]
  /\ UNCHANGED <<vars, rep, phase, accept, encoding, header, rawBody, wire, serr, herr>>

WriteRaw ==
  /\ InHandler /\ raw.writer /\ Len(wire.body) < rep.sends
  /\ wire' = Written(wire, wHeader, Part("raw", wHeader[ContentType][1].data, encoding))
  /\ UNCHANGED <<vars, rep, phase, accept, encoding, header, sentHeader, sendCount, raw, rawBody,
                 wHeader, serr, herr>>

(* The handler returns; the code of a unary one is that of its SendMsg. *)
HandlerReturns(c) ==
  /\ InHandler
  /\ ~rep.serverStream /\ serr # 0 => c = serr
  /\ herr' = c
  /\ IF c = 0
       THEN phase' = "done" /\ wire' = Closed(wire, wHeader) /\ UNCHANGED wHeader
       ELSE encError(c, IF sentHeader THEN wHeader
                        ELSE Set(wHeader, ContentEncoding, "identity"))
  /\ UNCHANGED <<vars, rep, accept, encoding, header, sentHeader, sendCount, raw, rawBody, serr>>

-----------------------------------------------------------------------------
Handler ==
  \/ Receive
  \/ \E md \in MDs : SetHeader(md) \/ SendHeader(md)
  \/ \E n \in {SendLimit, SendLimit + 1} : SendMsg(n) \/ \E t \in BodyTypes : SendHttpBody(t, n)
  \/ AsHTTPBodyReader
  \/ \E k \in 0 .. Len(rest), eof \in BOOLEAN : ReadRaw(k, eof)
  \/ \E t \in BodyTypes : AsHTTPBodyWriter(t)
  \/ WriteRaw
  \/ \E c \in Codes \cup {0, 2, 13} : HandlerReturns(c)

ReplyNext == (\E c \in RefuseCodes : Refuse(c)) \/ CallHandler \/ Handler

(* The client sends the whole body and reads the answer, and the handler     *)
(* ends: its loops are bounded by the body and by what it sends.             *)
ReplySpec == ReplyInit /\ [][ReplyNext]_allVars /\ WF_allVars(ReplyNext)

-----------------------------------------------------------------------------
(* Properties. *)

(* Every variable of both halves has its type. *)
ReplyTypeOK ==
  /\ TypeOK
  /\ rep \in RepliesFor(req)
  /\ phase \in {"start", "handler", "done", "panic"}
  /\ encoding \in {"none", "gzip"}
  /\ sentHeader \in BOOLEAN /\ sendCount \in 0 .. rep.sends
  /\ raw \in [reader : BOOLEAN, writer : BOOLEAN]
  /\ rawBody \in Seq(Unit)
  /\ wire.status \in Nat
  /\ serr \in {0, 2, 13} /\ herr \in Codes \cup RefuseCodes \cup {0, 2, 13}

(* The comment of negotiateContentType: the offer of the greatest weight, if *)
(* equal the more specific one, if equal the earlier one; the request's own  *)
(* type if none matches.  The loops, which see one spec at a time, find it.  *)
AcceptIsBest ==
  phase = "handler" => accept = BestOf(rep.accept, contentTypeOffers, rep.contentType)

(* A SendMsg failed; its deferred Flush has begun the answer with 200 and    *)
(* the header of that moment.                                                *)
SendFailed == serr # 0

(* The error of a handler reaches the client as an error status, unless the  *)
(* answer had begun when the handler failed: a message or raw bytes are out, *)
(* or a SendMsg had failed before.                                           *)
ErrorSeenUnlessBegun ==
  phase = "done" /\ herr # 0 =>
    \/ wire.status >= 400
    \/ \E i \in 1 .. Len(wire.body) : wire.body[i].kind \in {"message", "raw"}
    \/ SendFailed

(* The Content-Type on the wire is the type of the first part of the body,   *)
(* whatever metadata the handler set and whether it failed, unless a SendMsg *)
(* failed: encError then writes its error below a header that is gone.       *)
ContentTypeIsTrue ==
  phase = "done" /\ wire.body # <<>> /\ Head(wire.body).kind # "footer" /\ ~SendFailed =>
    wire.header[ContentType] = <<Plain(Head(wire.body).type)>>

(* The Content-Encoding is true, unless the handler set its own: no part is  *)
(* in another encoding, neither the error that is written past the           *)
(* compressor nor what its Close leaves.                                     *)
BodyEncodedAsSaid ==
  phase = "done" /\ ContentEncoding \notin DOMAIN header =>
    LET said == IF ContentEncoding \in DOMAIN wire.header
                  THEN wire.header[ContentEncoding][1].data ELSE "identity"
    IN \A i \in 1 .. Len(wire.body) :
         wire.body[i].enc = IF said = "identity" THEN "none" ELSE said

(* Metadata that SetHeader or SendHeader took without an error are in the    *)
(* header that is sent, once it is, except for reserved keys; nothing that   *)
(* is set later takes their place.  Where SendMsg found no codec (13), its   *)
(* Flush has sent the header before them.                                    *)
MetadataSent ==
  phase = "done" /\ sentHeader /\ serr # 13 =>
    \A k \in DOMAIN header :
      isReservedHeader(k) \/ (k \in DOMAIN wire.header /\ wire.header[k] = Outgoing(k, header[k]))

(* The header of the answer says what its body is and what the handler set,  *)
(* unless the Flush of a failed SendMsg sent it too early.                   *)
AnswerIsAsSaid == ContentTypeIsTrue /\ MetadataSent

(* The type and the encoding of the answer are those the negotiation found.  *)
AnswerIsAsNegotiated == AcceptIsBest /\ BodyEncodedAsSaid

(* When its handler is told io.EOF, an HttpBody has reached it: all of it if *)
(* the handler took the reader or if the body is no longer than one chunk    *)
(* may be.  Of a longer one the handler misses what is left in rbuf, which   *)
(* no call returns any more, and nothing else (ChunksAreTheFile shows it).   *)
BodyReachesHandler ==
  last = "eof" /\ req.codec = "body" =>
    IF raw.reader THEN rawBody = req.body
    ELSE req.hasBody =>
           /\ Len(req.body) <= Limit => FlattenSeq(received) = req.body
           /\ FlattenSeq(received) \o rbuf = req.body

(* What the handler has of an HttpBody is its beginning, chunk after chunk;  *)
(* at io.EOF it is the whole body, or all but what rbuf holds.               *)
BodyInOrder == ChunksInOrder /\ BodyReachesHandler

(* Answering panics only for the code after the last one of the table, and   *)
(* when the client asked for the codec that cannot encode.                   *)
ReplyPanicsExplained ==
  phase = "panic" => herr = 17 \/ HttpBody \in {accept, ErrorType}

(* Every request is answered, or ends in a panic that has a reason.          *)
RequestAnswered == <>(phase \in {"done", "panic"} /\ ReplyPanicsExplained)
=============================================================================
