---------------------------- MODULE ProxyStream ----------------------------
(***************************************************************************)
(* One call of a method of a registered connection: the handler that       *)
(* createConnHandler (larking/mux.go) builds.                              *)
(*                                                                         *)
(* A streaming method runs in two goroutines: the handler's own forwards   *)
(* the first request, then the replies of the backend; a second one        *)
(* forwards the other requests.  The client, the two goroutines and the    *)
(* backend move independently.  Requests and replies are numbered in the   *)
(* order they are sent.                                                    *)
(***************************************************************************)
EXTENDS Naturals, Sequences

CONSTANTS
  Descs,       \* the kinds of calls: does the client stream, does the server,
               \* is the stream a streamWS on a hijacked connection
  MaxRequests, \* bound on the messages of the client
  MaxReplies   \* bound on the messages of the backend

ASSUME DescsAreDescs == 
  Descs \subseteq [client : BOOLEAN, server : BOOLEAN, hijacked : BOOLEAN]

ASSUME BoundsAreNat == MaxRequests \in Nat /\ MaxReplies \in Nat \ {0}

VARIABLES
  desc,     \* the grpc.StreamDesc of the method and the kind of stream, fixed
  client,   \* the client: what it sent, what it received, its half of the stream
  backend,  \* the backend's stream and its handler
  main,     \* where the handler is
  inb,      \* where the inbound goroutine is
  args,     \* the request the handler or the goroutine holds
  reply,    \* the reply the handler holds
  inErr,    \* inErr: nil, io.EOF or another error
  result    \* what the handler returned: "ok", or where its error came from

vars == <<desc, client, backend, main, inb, args, reply, inErr, result>>

Client == [input : {"open", "eof", "reset"}, sent : 0 .. MaxRequests,
           queue : Seq(1 .. MaxRequests), replies : Seq(1 .. MaxReplies)]

(* A patient backend answers when its client has half-closed; the others    *)
(* end the call when they want.                                             *)
Backend == [st : {"none", "running", "ok", "error", "gone"}, patient : BOOLEAN,
            queue : Seq(1 .. MaxRequests), got : Seq(1 .. MaxRequests),
            halfClosed : BOOLEAN, out : Seq(1 .. MaxReplies), made : 0 .. MaxReplies]

TypeOK ==
  /\ desc \in Descs
  /\ client \in Client
  /\ backend \in Backend
  /\ main \in {"first", "open", "sendfirst", "recv", "send", "wait", "done"}
  /\ inb \in {"off", "recv", "send", "done"}
  /\ args \in [main : 0 .. MaxRequests, inb : 0 .. MaxRequests]
  /\ reply \in 0 .. MaxReplies
  /\ inErr \in {"nil", "eof", "error"}
  /\ result \in {"none", "ok", "eof", "client", "backend"}

Init ==
  /\ desc \in Descs
  /\ client = [input |-> "open", sent |-> 0, queue |-> <<>>, replies |-> <<>>]
  /\ \E p \in BOOLEAN :
       backend = [st |-> "none", patient |-> p, queue |-> <<>>, got |-> <<>>,
                  halfClosed |-> FALSE, out |-> <<>>, made |-> 0]
  /\ main = "first"
  /\ inb = "off"
  /\ args = [main |-> 0, inb |-> 0]
  /\ reply = 0
  /\ inErr = "nil"
  /\ result = "none"

(* The context of the call ends when the handler has returned.  A client     *)
(* that leaves cancels it earlier, unless the connection is hijacked: then   *)
(* net/http no longer watches it.                                            *)
CtxDone == main = "done" \/ (client.input = "reset" /\ ~desc.hijacked)

Ended == backend.st \in {"ok", "error", "gone"}

-----------------------------------------------------------------------------
(* The client.  One that does not stream sends one request and half-closes.  *)

ClientSend ==
  /\ client.input = "open" /\ client.sent < MaxRequests
  /\ client' = [client EXCEPT !.sent = @ + 1, !.queue = Append(@, client.sent + 1),
                              !.input = IF desc.client THEN @ ELSE "eof"]
  /\ UNCHANGED <<desc, backend, main, inb, args, reply, inErr, result>>

ClientHalfClose ==
  /\ desc.client
  /\ client.input = "open"
  /\ client' = [client EXCEPT !.input = "eof"]
  /\ UNCHANGED <<desc, backend, main, inb, args, reply, inErr, result>>

ClientReset ==
  /\ client.input # "reset" /\ main # "done"
  /\ client' = [client EXCEPT !.input = "reset"]
  /\ UNCHANGED <<desc, backend, main, inb, args, reply, inErr, result>>

-----------------------------------------------------------------------------
(* The backend. *)

BackendDoes(b) ==
  /\ backend.st = "running"
  /\ backend' = b
  /\ UNCHANGED <<desc, client, main, inb, args, reply, inErr, result>>

BackendRecv ==
  /\ backend.queue # <<>>
  /\ BackendDoes([backend EXCEPT !.queue = Tail(@),
                                 !.got = Append(@, Head(backend.queue))])

(* Without client streaming the backend's handler starts with the request;  *)
(* without server streaming it makes one reply.                             *)
BackendReply ==
  /\ desc.client \/ backend.got # <<>>
  /\ backend.made < IF desc.server THEN MaxReplies ELSE 1
  /\ BackendDoes([backend EXCEPT !.made = @ + 1,
                                 !.out = Append(@, backend.made + 1)])

BackendReturns ==
  /\ backend.patient => backend.halfClosed /\ backend.queue = <<>>
  /\ desc.client \/ backend.got # <<>>
  /\ desc.server \/ backend.made = 1
  /\ BackendDoes([backend EXCEPT !.st = "ok"])

BackendFails == BackendDoes([backend EXCEPT !.st = "error"])

BackendCancelled == CtxDone /\ BackendDoes([backend EXCEPT !.st = "gone"])

-----------------------------------------------------------------------------
(* The handler. *)

Returns(r) == main' = "done" /\ result' = r

Continues(pc) == main' = pc /\ UNCHANGED result

(* stream.RecvMsg(args): the next request; or io.EOF; or an error, for a     *)
(* message that is read and refused (too large, does not decompress or       *)
(* decode) and for a client that has left, which a hijacked connection may   *)
(* also report as io.EOF.                                                    *)
RecvFirst ==
  /\ main = "first"
  /\ \/ /\ ~CtxDone /\ client.queue # <<>>
        /\ args' = [args EXCEPT !.main = Head(client.queue)]
        /\ client' = [client EXCEPT !.queue = Tail(@)]
        /\ Continues("open")
     \/ /\ ~CtxDone /\ client.queue # <<>>
        /\ client' = [client EXCEPT !.queue = Tail(@)]
        /\ Returns("client") /\ UNCHANGED args
     \/ /\ client.queue = <<>>
        /\ client.input = "eof" \/ (client.input = "reset" /\ desc.hijacked)
        /\ Returns("eof") /\ UNCHANGED <<args, client>>
     \/ /\ client.input = "reset"
        /\ Returns("client") /\ UNCHANGED <<args, client>>
  /\ UNCHANGED <<desc, backend, inb, reply, inErr>>

(* Mutant: the inbound goroutine is started before the first request is sent. *)
NewStreamStartsInbound ==
  /\ main = "open"
  /\ \/ /\ ~CtxDone /\ Continues("sendfirst")
        /\ backend' = [backend EXCEPT !.st = "running"]
        /\ inb' = IF desc.client THEN "recv" ELSE "off"
     \/ Returns("backend") /\ UNCHANGED <<backend, inb>>
  /\ UNCHANGED <<desc, client, args, reply, inErr>>

(* cc.NewStream *)
NewStream ==
  /\ main = "open"
  /\ \/ ~CtxDone /\ Continues("sendfirst") /\ backend' = [backend EXCEPT !.st = "running"]
     \/ Returns("backend") /\ UNCHANGED backend
  /\ UNCHANGED <<desc, client, inb, args, reply, inErr>>

(* clientStream.SendMsg.  grpc-go half-closes with the message when the      *)
(* client does not stream.                                                   *)
Delivered(b, m) == [b EXCEPT !.queue = Append(@, m), !.halfClosed = ~desc.client]

(* The first request, then the inbound goroutine is started.  A stream that  *)
(* has ended answers io.EOF to a streaming client, or swallows the message.  *)
SendFirst ==
  /\ main = "sendfirst"
  /\ \/ /\ IF Ended THEN UNCHANGED backend
                    ELSE backend' = Delivered(backend, args.main)
        /\ inb' = IF desc.client THEN "recv" ELSE "off"
        /\ Continues("recv")
     \/ /\ desc.client /\ (Ended \/ CtxDone)
        /\ Returns("eof") /\ UNCHANGED <<backend, inb>>
  /\ UNCHANGED <<desc, client, args, reply, inErr>>

(* Mutant: an error of the backend waits for the inbound goroutine as well. *)
RecvReplyWaits ==
  /\ main = "recv"
  /\ \/ /\ backend.out # <<>> /\ (desc.server \/ backend.st = "ok")
        /\ reply' = Head(backend.out)
        /\ backend' = [backend EXCEPT !.out = Tail(@)]
        /\ Continues("send")
     \/ /\ backend.st \in {"ok", "error"} /\ backend.out = <<>>
        /\ Continues("wait") /\ UNCHANGED <<reply, backend>>
     \/ /\ CtxDone
        /\ Returns("client") /\ UNCHANGED <<reply, backend>>
  /\ UNCHANGED <<desc, client, inb, args, inErr>>

(* clientStream.RecvMsg.  Without server streaming it returns the reply once *)
(* the backend has ended the call.                                           *)
RecvReply ==
  /\ main = "recv"
  /\ \/ /\ backend.out # <<>> /\ (desc.server \/ backend.st = "ok")
        /\ reply' = Head(backend.out)
        /\ backend' = [backend EXCEPT !.out = Tail(@)]
        /\ Continues("send")
     \/ /\ backend.st = "ok" /\ backend.out = <<>>
        /\ Continues("wait") /\ UNCHANGED <<reply, backend>>
     \/ /\ backend.st = "error" /\ (desc.server => backend.out = <<>>)
        /\ Returns("backend") /\ UNCHANGED <<reply, backend>>
     \/ /\ CtxDone
        /\ Returns("client") /\ UNCHANGED <<reply, backend>>
  /\ UNCHANGED <<desc, client, inb, args, inErr>>

(* stream.SendMsg(reply).  It may fail (the reply is too large, the context  *)
(* is done, the write fails); a reply to a client that has left may also go  *)
(* into a buffer.  A unary handler returns what SendMsg returned.            *)
SendReply ==
  /\ main = "send"
  /\ \/ /\ client' = IF client.input = "reset" THEN client
                     ELSE [client EXCEPT !.replies = Append(@, reply)]
        /\ IF desc.server THEN Continues("recv")
           ELSE IF desc.client THEN Continues("wait") ELSE Returns("ok")
     \/ UNCHANGED client /\ Returns("client")
  /\ UNCHANGED <<desc, backend, inb, args, reply, inErr>>

(* Mutant: the handler does not wait for the inbound goroutine. *)
WaitNot ==
  /\ main = "wait"
  /\ Returns(IF desc.client /\ inErr = "error" THEN "client" ELSE "ok")
  /\ UNCHANGED <<desc, client, backend, inb, args, reply, inErr>>

(* wg.Wait when the client streams, then the trailer. *)
Wait ==
  /\ main = "wait"
  /\ desc.client => inb = "done"
  /\ Returns(IF desc.client /\ inErr = "error" THEN "client" ELSE "ok")
  /\ UNCHANGED <<desc, client, backend, inb, args, reply, inErr>>

-----------------------------------------------------------------------------
(* The inbound goroutine. *)

InboundStops(err) == inb' = "done" /\ inErr' = err

(* Mutant: the goroutine goes on after an error that is not io.EOF. *)
RecvNextRetries ==
  /\ inb = "recv"
  /\ ~CtxDone
  /\ \/ /\ client.queue # <<>>
        /\ args' = [args EXCEPT !.inb = Head(client.queue)]
        /\ client' = [client EXCEPT !.queue = Tail(@)]
        /\ inb' = "send" /\ UNCHANGED inErr
     \/ /\ client.input = "eof" /\ client.queue = <<>>
        /\ InboundStops("eof") /\ UNCHANGED <<args, client>>
  /\ UNCHANGED <<desc, backend, main, reply, result>>

(* stream.RecvMsg, with the outcomes of RecvFirst.  After the handler has    *)
(* returned the request is over, and a hijacked connection closed.           *)
RecvNext ==
  /\ inb = "recv"
  /\ \/ /\ ~CtxDone /\ client.queue # <<>>
        /\ args' = [args EXCEPT !.inb = Head(client.queue)]
        /\ client' = [client EXCEPT !.queue = Tail(@)]
        /\ inb' = "send" /\ UNCHANGED inErr
     \/ /\ ~CtxDone /\ client.queue # <<>>
        /\ client' = [client EXCEPT !.queue = Tail(@)]
        /\ InboundStops("error") /\ UNCHANGED args
     \/ /\ ~CtxDone /\ client.queue = <<>>
        /\ client.input = "eof" \/ (client.input = "reset" /\ desc.hijacked)
        /\ InboundStops("eof") /\ UNCHANGED <<args, client>>
     \/ /\ CtxDone \/ client.input = "reset"
        /\ InboundStops("error") /\ UNCHANGED <<args, client>>
  /\ UNCHANGED <<desc, backend, main, reply, result>>

SendNext ==
  /\ inb = "send"
  /\ \/ /\ IF Ended THEN UNCHANGED backend
                    ELSE backend' = Delivered(backend, args.inb)
        /\ inb' = "recv" /\ UNCHANGED inErr
     \/ /\ Ended \/ CtxDone
        /\ InboundStops("eof") /\ UNCHANGED backend
  /\ UNCHANGED <<desc, client, main, args, reply, result>>

-----------------------------------------------------------------------------
Handler == RecvFirst \/ NewStream \/ SendFirst \/ RecvReply \/ SendReply \/ Wait

Inbound == RecvNext \/ SendNext

BackendStep ==
  BackendRecv \/ BackendReply \/ BackendReturns \/ BackendFails \/ BackendCancelled

Next ==
  ClientSend \/ ClientHalfClose \/ ClientReset \/ BackendStep \/ Handler \/ Inbound

Spec == Init /\ [][Next]_vars

(* The goroutines run, and the backend serves the calls it has: it reads its *)
(* requests and its handler returns when it may.  Nothing is asked of the    *)
(* client, which may wait for ever before it sends or half-closes.           *)
FairSpec ==
  /\ Spec
  /\ WF_vars(Handler) /\ WF_vars(Inbound)
  /\ WF_vars(BackendRecv) /\ WF_vars(BackendReply) /\ WF_vars(BackendReturns)

-----------------------------------------------------------------------------
(* Properties. *)

(* Both directions keep the order, although the first request and the others *)
(* are forwarded by different goroutines: what one end received is a prefix   *)
(* of what the other sent.                                                    *)
MessagesInOrder ==
  LET forwarded == backend.got \o backend.queue
  IN /\ \A i \in 1 .. Len(forwarded) : forwarded[i] = i
     /\ \A i \in 1 .. Len(client.replies) : client.replies[i] = i

(* The state of a proxied call: its types, and what went each way so far.    *)
CallInv == TypeOK /\ MessagesInOrder

(* A call that returns nil is complete: the backend ended it without error,   *)
(* no goroutine of the call is left to touch the stream, and every reply was  *)
(* forwarded unless the client has left.                                      *)
OkMeansComplete ==
  result = "ok" => /\ backend.st = "ok"
                   /\ inb \in {"off", "done"}
                   /\ client.input = "reset" \/ Len(client.replies) = backend.made

(* The call ends when the backend has failed, whatever the handler waits for, *)
(* and when the client has left and its context with it; it ends when the     *)
(* backend has ended it and the client has half-closed or left.  The status   *)
(* of the backend alone is not enough: the handler waits for an inbound       *)
(* goroutine that waits for the client.  Nor is a websocket client that       *)
(* leaves: on a hijacked connection nothing wakes a handler that waits for a  *)
(* silent backend.                                                            *)
CallEnds ==
  \/ backend.st = "error"
  \/ client.input = "reset" /\ ~desc.hijacked
  \/ backend.st = "ok" /\ client.input \in {"eof", "reset"}
  ~> main = "done"

(* The inbound goroutine does not outlive the call for ever.                  *)
NoGoroutineLeak == main = "done" ~> inb \in {"off", "done"}

-----------------------------------------------------------------------------
(* What the documentation says, and the code does not do. *)

(* "Proxy gRPC servers": a client that has half-closed gets the answer of the *)
(* backend, also from one that waits for the end of its requests.             *)
HalfCloseIsAnswered == client.input = "eof" ~> main = "done"
=============================================================================
