------------------------------ MODULE WebGRPC -------------------------------
(***************************************************************************)
(* A gRPC-Web call: serveGRPCWeb and webWriter (larking/web.go) around     *)
(* serveGRPC (larking/grpc.go), from ServeHTTP (larking/mux.go) to what    *)
(* the client decodes.                                                     *)
(*                                                                         *)
(* serveGRPC writes headers and trailers into one http.Header; webWriter   *)
(* remembers which keys were there when the first byte was written, and at *)
(* the end sends the others as a frame of the body.  For grpc-web-text the *)
(* body goes through a base64 encoder, which writes groups of three bytes  *)
(* and keeps the rest until Close, which nobody calls.                     *)
(***************************************************************************)
EXTENDS Metadata, SequencesExt

CONSTANTS
  WebRequests, \* proto (major version), post, typ, enc ("" for none), upgrade,
               \* encoding, timeout (or NoTimeout), known (the method), header
  NoTimeout,
  MDs,         \* the metadata handlers set
  Statuses,    \* what handlers return: code, msg, details
  Sizes,       \* the lengths of messages
  FrameSizes,  \* the lengths of trailer frames: five bytes, and a line for each
               \* key; only their remainder by three makes a difference
  MaxSends     \* bound on the messages of a handler

ASSUME WebTypes ==
  /\ \A r \in WebRequests :
       /\ r.timeout # NoTimeout => r.timeout.length \in Nat
       /\ \A k \in DOMAIN r.header : \A i \in DOMAIN r.header[k] :
            r.header[k][i].form \in {"plain", "raw", "padded"}
  /\ \A s \in Statuses : s.msg \in Seq(STRING)
  /\ Sizes \subseteq Nat
  /\ FrameSizes \subseteq Nat /\ \A n \in FrameSizes : n >= 5

VARIABLES
  wreq,        \* the request, fixed
  wpc,         \* "start", "handler", "refused", "done", "panic"
  md,          \* the metadata the handler sees
  expired,     \* the timeout of the call is over
  hdr,         \* the http.Header of the ResponseWriter
  seen,        \* webWriter.seenHeaders
  wroteHeader, \* webWriter.wroteHeader
  header,      \* streamGRPC.header
  trailer,     \* streamGRPC.trailer
  sentHeader,  \* streamGRPC.sentHeader
  out,         \* what was written to webWriter.resp: parts, each with the number
               \* of bytes up to its end
  wire,        \* status (0 if none yet) and header that net/http has sent
  st           \* the status the handler returned

webVars == <<wreq, wpc, md, expired, hdr, seen, wroteHeader, header, trailer, sentHeader, out,
             wire, st>>

NoStatus == [code |-> 0, msg |-> <<>>, details |-> FALSE]

Init ==
  /\ wreq \in WebRequests
  /\ wpc = "start" /\ md = NoMD /\ expired = FALSE
  /\ hdr = NoMD /\ seen = {} /\ wroteHeader = FALSE
  /\ header = NoMD /\ trailer = NoMD /\ sentHeader = FALSE
  /\ out = <<>> /\ wire = [status |-> 0, header |-> NoMD]
  /\ st = NoStatus

-----------------------------------------------------------------------------
(* The keys serveGRPC and webWriter set. *)
ContentType == Key("content-type")
GrpcStatus == Key("grpc-status")
GrpcMessage == Key("grpc-message")
GrpcDetails == BinKey("grpc-status-details")

(* isWebRequest *)
Enc(r) == IF r.enc = "" THEN "proto" ELSE r.enc

isWebRequest(r) == r.post /\ r.typ \in {"web", "text"}

(* Why serveGRPC, called through webWriter, refuses: 0 if it does not. *)
GRPCRefuses(r) ==
  CASE Enc(r) \notin {"proto", "json", "body"} -> 415
    [] r.encoding \notin {"", "gzip", "identity"} -> 415
    [] r.timeout # NoTimeout /\ decodeTimeout(r.timeout) = "error" -> 400
    [] ~r.known -> 404
    [] OTHER -> 0

(* Mutant: the type serveGRPC set stays. *)
SeeHeadersAsSet(h) == h

(* webWriter.seeHeaders: the header it leaves. *)
SeeHeaders(h) == Set(h, ContentType, <<wreq.typ, Enc(wreq)>>)

(* The keys it takes for headers: those at the first write. *)
SeenAfter(h) == IF wroteHeader THEN seen ELSE DOMAIN h

(* The first status and header that reach net/http count. *)
Fixed(w, h, status) == IF w.status # 0 THEN w ELSE [status |-> status, header |-> h]

(* The bytes of the first n parts. *)
BytesOf(n) == IF n = 0 THEN 0 ELSE out[n].end

(* webWriter.Write of n bytes. *)
Write(kind, n, tr) == Append(out, [kind |-> kind, end |-> BytesOf(Len(out)) + n, md |-> tr])

(* webWriter.writeTrailer: the keys that were not seen. *)
writeTrailer(h, n) == Write("trailer", n, [k \in DOMAIN h \ seen |-> h[k]])

-----------------------------------------------------------------------------
(* http.Error, straight to the client: the request is not for webWriter. *)
Refuse ==
  /\ wpc = "start"
  /\ LET status == CASE wreq.proto = 2 -> 415  \* serveGRPC takes it, and has no such codec
                     [] ~isWebRequest(wreq) -> 400
                     [] wreq.upgrade -> 500
                     [] OTHER -> 0
     IN status # 0 /\ wire' = Fixed(wire, Set(hdr, ContentType, <<"text">>), status)
  /\ wpc' = "refused"
  /\ UNCHANGED <<wreq, md, expired, hdr, seen, wroteHeader, header, trailer, sentHeader, out, st>>

Accepted == wreq.proto # 2 /\ isWebRequest(wreq) /\ ~wreq.upgrade

(* http.Error through webWriter: WriteHeader, the text, a frame without      *)
(* trailers.                                                                 *)
RefuseCall ==
  /\ wpc = "start" /\ Accepted
  /\ LET h == SeeHeaders(Set(hdr, ContentType, <<"text">>))
     IN /\ GRPCRefuses(wreq) # 0
        /\ hdr' = h /\ seen' = SeenAfter(h)
        /\ wire' = Fixed(wire, h, GRPCRefuses(wreq))
        /\ out' = <<[kind |-> "text", end |-> 9, md |-> NoMD],
                    [kind |-> "trailer", end |-> 9 + 5, md |-> NoMD]>>
  /\ wroteHeader' = TRUE
  /\ wpc' = "refused"
  /\ UNCHANGED <<wreq, md, expired, header, trailer, sentHeader, st>>

CallHandler ==
  /\ wpc = "start" /\ Accepted /\ GRPCRefuses(wreq) = 0
  /\ md' = newIncomingContext(wreq.header)
  /\ expired' = (wreq.timeout # NoTimeout /\ decodeTimeout(wreq.timeout) = "expired")
  /\ wpc' = "handler"
  /\ UNCHANGED <<wreq, hdr, seen, wroteHeader, header, trailer, sentHeader, out, wire, st>>

(* The grpc-timeout is over. *)
Expire ==
  /\ wpc = "handler" /\ wreq.timeout # NoTimeout /\ ~expired
  /\ expired' = TRUE
  /\ UNCHANGED <<wreq, wpc, md, hdr, seen, wroteHeader, header, trailer, sentHeader, out, wire, st>>

-----------------------------------------------------------------------------
(* The handler.  It sets each piece of metadata once. *)

SetHeader(m) ==
  /\ wpc = "handler" /\ ~sentHeader /\ DOMAIN m \cap DOMAIN header = {}
  /\ header' = Join(header, m)
  /\ UNCHANGED <<wreq, wpc, md, expired, hdr, seen, wroteHeader, trailer, sentHeader, out, wire, st>>

SetTrailer(m) ==
  /\ wpc = "handler" /\ DOMAIN m \cap DOMAIN trailer = {}
  /\ trailer' = Join(trailer, m)
  /\ UNCHANGED <<wreq, wpc, md, expired, hdr, seen, wroteHeader, header, sentHeader, out, wire, st>>

(* What SendHeader leaves in the header. *)
GRPCHeader(h) ==
  LET typed == Set(h, ContentType, <<"grpc", Enc(wreq)>>)
      encoded == IF wreq.encoding = "" THEN typed
                 ELSE Set(typed, Key("grpc-encoding"), <<wreq.encoding>>)
  IN setOutgoingHeader(Set(encoded, Key("trailer"), <<"announced">>), header)

HeaderSent == IF sentHeader THEN hdr ELSE GRPCHeader(hdr)

SendHeader ==
  /\ wpc = "handler" /\ ~expired /\ ~sentHeader
  /\ hdr' = GRPCHeader(hdr)
  /\ sentHeader' = TRUE
  /\ UNCHANGED <<wreq, wpc, md, expired, seen, wroteHeader, header, trailer, out, wire, st>>

(* SendMsg, webWriter.Write and Flush.  The codec of HttpBody has a name     *)
(* like the others, and cannot encode.                                       *)
SendMsg(n) ==
  /\ wpc = "handler" /\ ~expired /\ Len(out) < MaxSends
  /\ sentHeader' = TRUE
  /\ IF Enc(wreq) = "body"
       THEN /\ wpc' = "panic" /\ hdr' = HeaderSent
            /\ UNCHANGED <<seen, wroteHeader, out, wire>>
       ELSE /\ LET h == IF wroteHeader THEN HeaderSent ELSE SeeHeaders(HeaderSent)
               IN /\ hdr' = h
                  /\ seen' = SeenAfter(h)
                  /\ wire' = Fixed(wire, h, 200)
            /\ wroteHeader' = TRUE
            /\ out' = Write("message", 5 + n, NoMD)
            /\ UNCHANGED wpc
  /\ UNCHANGED <<wreq, md, expired, header, trailer, st>>

-----------------------------------------------------------------------------
(* The status in the header, then the trailers. *)
WithStatus(h, s) ==
  LET coded == Set(h, GrpcStatus, <<s.code>>)
      named == IF s.msg = <<>> THEN coded ELSE Set(coded, GrpcMessage, encodeGrpcMessage(s.msg))
      detailed == IF s.details THEN SetText(named, GrpcDetails, encodeBinHeader(<<1>>)) ELSE named
  IN setOutgoingHeader(detailed, trailer)

(* Mutant: what was set since the first byte counts as sent. *)
FlushSeesAll(h, n) ==
  IF wroteHeader
    THEN /\ out' = Write("trailer", n, NoMD)
         /\ UNCHANGED wire
    ELSE /\ wire' = Fixed(wire, h, 200)
         /\ UNCHANGED out

(* Mutant: all keys go into the trailer frame. *)
FlushRepeats(h, n) ==
  IF wroteHeader
    THEN /\ out' = Write("trailer", n, h)
         /\ UNCHANGED wire
    ELSE /\ wire' = Fixed(wire, h, 200)
         /\ UNCHANGED out

(* flushWithTrailer.  If nothing was written there is no frame, and net/http *)
(* sends the whole header when the request returns.                          *)
flushWithTrailer(h, n) ==
  IF wroteHeader
    THEN /\ out' = writeTrailer(h, n)
         /\ UNCHANGED wire
    ELSE /\ wire' = Fixed(wire, h, 200)
         /\ UNCHANGED out

(* The end of serveGRPC, and of serveGRPCWeb.  When the context is over      *)
(* before the header was sent, no status is written.                         *)
HandlerReturns(s) ==
  /\ wpc = "handler"
  /\ st' = s
  /\ wpc' = "done"
  /\ hdr' = IF expired /\ ~sentHeader THEN hdr ELSE WithStatus(HeaderSent, s)
  /\ sentHeader' = (sentHeader \/ ~expired)
  /\ \E n \in FrameSizes : flushWithTrailer(hdr', n)
  /\ UNCHANGED <<wreq, md, expired, seen, wroteHeader, header, trailer>>

-----------------------------------------------------------------------------
Next ==
  \/ Refuse \/ RefuseCall \/ CallHandler \/ Expire \/ SendHeader
  \/ \E m \in MDs : SetHeader(m) \/ SetTrailer(m)
  \/ \E n \in Sizes : SendMsg(n)
  \/ \E s \in Statuses : HandlerReturns(s)

Spec == Init /\ [][Next]_webVars

-----------------------------------------------------------------------------
(* The client. *)

(* The bytes of the first n parts that base64.NewEncoder has written. *)
Encoded(n) == IF wreq.typ = "text" THEN BytesOf(n) - (BytesOf(n) % 3) ELSE BytesOf(n)

(* The client has part i, all of it. *)
Whole(i) == BytesOf(i) <= Encoded(Len(out))

Trailers == {i \in 1 .. Len(out) : out[i].kind = "trailer" /\ Whole(i)}

(* Trailers from the frame; an answer without a body has them in its header. *)
ClientTrailers ==
  IF out = <<>> THEN wire.header
  ELSE IF Trailers = {} THEN NoMD ELSE out[Max(Trailers)].md

(* The client unescapes the message: a percent sign that is not escaped      *)
(* takes what follows for a code.                                            *)
Unescaped(text) ==
  [i \in 1 .. Len(text) |-> IF text[i].c = "%" /\ ~text[i].escaped THEN "garbage" ELSE text[i].c]

(* The status and its trailers were cut off by the base64 encoder. *)
CutOff == out # <<>> /\ BytesOf(Len(out)) % 3 # 0 /\ wreq.typ = "text"

-----------------------------------------------------------------------------
(* Properties. *)

(* Every variable has its type. *)
TypeOK ==
  /\ wreq \in WebRequests
  /\ wpc \in {"start", "handler", "refused", "done", "panic"}
  /\ expired \in BOOLEAN /\ wroteHeader \in BOOLEAN /\ sentHeader \in BOOLEAN
  /\ seen \subseteq DOMAIN hdr
  /\ wroteHeader <=> seen # {}
  /\ st \in Statuses \cup {NoStatus}

(* Every message the handler sent reaches the client whole: at once for      *)
(* grpc-web, at the end of the call for grpc-web-text, where the encoder     *)
(* holds the end of a message back until more is written.                    *)
MessagesArrive ==
  wreq.typ = "web" \/ wpc = "done" =>
    \A i \in 1 .. Len(out) : out[i].kind = "message" => Whole(i)

(* The status reaches the client, in the trailer frame or in the header of   *)
(* an answer without a body, unless the deadline passed before the header    *)
(* was sent or the encoder kept its end.                                     *)
StatusArrives ==
  wpc = "done" /\ sentHeader /\ ~CutOff =>
    /\ GrpcStatus \in DOMAIN ClientTrailers
    /\ ClientTrailers[GrpcStatus] = <<Plain(<<st.code>>)>>

(* The metadata of the handler's header reach the client in the header of    *)
(* the answer, with their values.  In an answer without a body one http.Header *)
(* holds all, and a trailer with the same key, or the details of the status,  *)
(* took the place of the header.                                             *)
HeadersArrive ==
  wpc \in {"handler", "done"} /\ sentHeader /\ wire.status # 0 =>
    \A k \in DOMAIN header :
      ~isReservedHeader(k) =>
        \/ k \in DOMAIN wire.header /\ wire.header[k] = Outgoing(k, header[k])
        \/ ~wroteHeader /\ k \in DOMAIN trailer \cup {GrpcDetails}

(* The trailers reach the client as trailers, with their values, but for one *)
(* whose key was in the header when the first byte was written, which        *)
(* writeTrailer takes for that header and drops.  No header comes again as a *)
(* trailer.                                                                  *)
TrailersArrive ==
  wpc = "done" /\ sentHeader /\ ~CutOff =>
    /\ wroteHeader => DOMAIN ClientTrailers \cap DOMAIN wire.header = {}
    /\ \A k \in DOMAIN trailer :
         ~isReservedHeader(k) =>
           \/ k \in DOMAIN ClientTrailers /\ ClientTrailers[k] = Outgoing(k, trailer[k])
           \/ wroteHeader /\ k \in DOMAIN wire.header

(* The status message the client decodes is the beginning of the handler's,  *)
(* escaped or not (encodeGrpcMessage drops what follows the last escape).    *)
MessageIsPrefix ==
  wpc = "done" /\ GrpcMessage \in DOMAIN ClientTrailers =>
    IsPrefix(Unescaped(ClientTrailers[GrpcMessage][1].data), st.msg)

(* What the handler answers is what the client decodes.                      *)
AnswerArrives == MessagesArrive /\ StatusArrives /\ MessageIsPrefix

(* A text that is not in base64, or is in base64 with padding: the comment   *)
(* in decodeBinHeader says that padded input is decoded, the code below it   *)
(* does not.                                                                 *)
NotDecoded(v) == v.form = "plain" \/ (v.form = "padded" /\ Len(v.data) % 3 # 0)

(* The handler sees the metadata of the client with their values: user-agent *)
(* though it is reserved, the other reserved keys not, and of a binary key   *)
(* the empty value in the place of one that is not decoded.                  *)
MetadataArrives ==
  wpc = "handler" =>
    \A k \in DOMAIN wreq.header :
      IF isReservedHeader(k) /\ k.name # "user-agent" THEN k \notin DOMAIN md
      ELSE /\ k \in DOMAIN md /\ DOMAIN md[k] = DOMAIN wreq.header[k]
           /\ \A i \in DOMAIN wreq.header[k] :
                md[k][i] = IF k.bin /\ NotDecoded(wreq.header[k][i]) THEN <<>>
                           ELSE wreq.header[k][i].data

(* Metadata arrive in both directions, headers and trailers apart, but for   *)
(* the values that the three name.                                           *)
MetadataInPlace == HeadersArrive /\ TrailersArrive /\ MetadataArrives

(* An answer with a body says which gRPC-Web format it is in, whatever type  *)
(* serveGRPC or http.Error had set before webWriter saw the first byte.      *)
BodyIsWeb ==
  out # <<>> => wire.header[ContentType] = <<Plain(<<wreq.typ, Enc(wreq)>>)>>

(* The types, and the format of the answer.                                  *)
AnswerIsWeb == TypeOK /\ BodyIsWeb
=============================================================================
