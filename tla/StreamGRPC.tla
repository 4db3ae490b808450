----------------------------- MODULE StreamGRPC -----------------------------
(***************************************************************************)
(* One gRPC request: Mux.serveGRPC and the methods of streamGRPC           *)
(* (larking/grpc.go).                                                      *)
(*                                                                         *)
(* The goroutine of the request runs the handler, then writes the status;  *)
(* its deferred function cancels the context and waits for the stream      *)
(* methods that are still running.  The handler may have started other     *)
(* goroutines, which may still be inside RecvMsg or SendMsg when it        *)
(* returns.  Once serveGRPC has returned, net/http owns the ResponseWriter *)
(* and the request body again.                                             *)
(***************************************************************************)
EXTENDS Naturals, FiniteSets

CONSTANTS
  Main,        \* the goroutine of the request
  Receivers,   \* goroutines of the handler that call RecvMsg
  Senders,     \* goroutines of the handler that call SendMsg
  MaxMessages  \* bound on the messages of the client

ASSUME Distinct == Main \notin Receivers \cup Senders

ASSUME FinitelyMany == IsFiniteSet(Receivers) /\ IsFiniteSet(Senders)

ASSUME BoundIsNat == MaxMessages \in Nat

Callers == {Main} \cup Receivers \cup Senders

VARIABLES
  mpc,        \* where serveGRPC is
  call,       \* per goroutine, where it is in a stream method
  wg,         \* the counter of stream.wg
  ctx,        \* the context of the stream
  sentHeader, \* stream.sentHeader
  pending,    \* messages in the request body, not read yet
  input,      \* the client's side of the body: open, eof, reset, or closed by us
  response,   \* what was done to the ResponseWriter; late: its headers were set
              \* by a goroutine of the handler after the handler returned
  sent        \* number of messages the client has sent

vars == <<mpc, call, wg, ctx, sentHeader, pending, input, response, sent>>

MainPC == {"start", "handler", "finish", "header", "flush", "close", "status",
           "cancel", "wait", "returned"}

(* recv, send, header: in the method, before its isDone.  The others are     *)
(* behind isDone: the goroutine is about to use the body or the writer.      *)
CallPC == {"idle", "recv", "read", "send", "test", "header", "set", "write"}

Touching == {"read", "set", "write"}

TypeOK ==
  /\ mpc \in MainPC
  /\ call \in [Callers -> CallPC]
  /\ wg \in Nat
  /\ ctx \in {"active", "expired", "reset", "cancelled"}
  /\ sentHeader \in BOOLEAN
  /\ pending \in Nat
  /\ input \in {"open", "eof", "reset", "closed"}
  /\ response \in [headers : Nat, late : BOOLEAN, status : BOOLEAN, rejected : BOOLEAN]
  /\ sent \in 0 .. MaxMessages

Init ==
  /\ mpc = "start"
  /\ call = [g \in Callers |-> "idle"]
  /\ wg = 0
  /\ ctx = "active"
  /\ sentHeader = FALSE
  /\ pending = 0
  /\ input = "open"
  /\ response = [headers |-> 0, late |-> FALSE, status |-> FALSE, rejected |-> FALSE]
  /\ sent = 0

-----------------------------------------------------------------------------
(* The client and the clock. *)

ClientSend ==
  /\ input = "open" /\ sent < MaxMessages
  /\ pending' = pending + 1
  /\ sent' = sent + 1
  /\ UNCHANGED <<mpc, call, wg, ctx, sentHeader, input, response>>

ClientHalfClose ==
  /\ input = "open"
  /\ input' = "eof"
  /\ UNCHANGED <<mpc, call, wg, ctx, sentHeader, pending, response, sent>>

(* The client resets the stream: reads and writes fail, and the context of  *)
(* the HTTP request, from which the stream's derives, ends.                 *)
ClientReset ==
  /\ input \in {"open", "eof"} /\ mpc # "returned"
  /\ input' = "reset"
  /\ ctx' = IF ctx = "active" THEN "reset" ELSE ctx
  /\ UNCHANGED <<mpc, call, wg, sentHeader, pending, response, sent>>

(* The grpc-timeout of the request is over. *)
Expire ==
  /\ ctx = "active" /\ mpc \notin {"start", "returned"}
  /\ ctx' = "expired"
  /\ UNCHANGED <<mpc, call, wg, sentHeader, pending, input, response, sent>>

-----------------------------------------------------------------------------
(* The stream methods.  Each counts itself in wg for as long as it runs, and *)
(* returns an error if the context is done before it uses the request.       *)

Move(g, pc, n) ==
  /\ call' = [call EXCEPT ![g] = pc]
  /\ wg' = wg + n
  /\ UNCHANGED <<mpc, ctx, input, sent>>

Leave(g, n) ==
  /\ call' = [call EXCEPT ![g] = "idle"]
  /\ wg' = wg - n
  /\ UNCHANGED <<mpc, ctx, input, sent>>

(* A goroutine of the handler may call at any time, also after the handler   *)
(* returned; the request's own goroutine calls while it runs the handler.    *)
MayCall(g) ==
  /\ call[g] = "idle"
  /\ IF g = Main THEN mpc = "handler" ELSE mpc # "start" /\ ~response.rejected

(* One goroutine at a time receives, and one sends: the contract of          *)
(* grpc.ServerStream.                                                        *)
RecvMsg(g) ==
  /\ g \in Receivers \cup {Main}
  /\ MayCall(g)
  /\ \A h \in Callers : call[h] \notin {"recv", "read"}
  /\ Move(g, "recv", 1)
  /\ UNCHANGED <<sentHeader, pending, response>>

RecvMsgIsDone(g) ==
  /\ call[g] = "recv"
  /\ IF ctx = "active" THEN Move(g, "read", 0) ELSE Leave(g, 1)
  /\ UNCHANGED <<sentHeader, pending, response>>

(* io.ReadFull on the body: it waits for the client, whatever the context.   *)
(* What it reads may still be refused (too large, not decodable).            *)
ReadMessage(g) ==
  /\ call[g] = "read"
  /\ input \in {"open", "eof"} /\ pending > 0
  /\ pending' = pending - 1
  /\ Leave(g, 1)
  /\ UNCHANGED <<sentHeader, response>>

ReadFails(g) ==
  /\ call[g] = "read"
  /\ input \in {"reset", "closed"} \/ (input = "eof" /\ pending = 0)
  /\ Leave(g, 1)
  /\ UNCHANGED <<sentHeader, pending, response>>

SendMsg(g) ==
  /\ g \in Senders \cup {Main}
  /\ MayCall(g)
  /\ \A h \in Callers \ {Main} : call[h] \notin {"send", "test", "header", "set", "write"}
  /\ g # Main => mpc # "handler" \/ call[Main] \in {"idle", "recv", "read"}
  /\ Move(g, "send", 1)
  /\ UNCHANGED <<sentHeader, pending, response>>

SendMsgIsDone(g) ==
  /\ call[g] = "send"
  /\ IF ctx = "active" THEN Move(g, "test", 0) ELSE Leave(g, 1)
  /\ UNCHANGED <<sentHeader, pending, response>>

(* if !s.sentHeader { s.SendHeader(nil) }, which counts itself once more.    *)
SendMsgTest(g) ==
  /\ call[g] = "test"
  /\ IF sentHeader THEN Move(g, "write", 0) ELSE Move(g, "header", 1)
  /\ UNCHANGED <<sentHeader, pending, response>>

(* Mutant: a SendMsg whose SendHeader fails forgets its own Done. *)
CountsOne(g) == 1

(* How many wg counts g gives back when its SendHeader fails: SendMsg fails   *)
(* with it, serveGRPC's own call is alone.                                    *)
Counts(g) == IF g = Main /\ mpc = "header" THEN 1 ELSE 2

(* SendHeader: isDone, then the test of sentHeader. *)
SendHeaderCheck(g) ==
  /\ call[g] = "header"
  /\ \/ ctx = "active" /\ ~sentHeader /\ Move(g, "set", 0)
     \/ /\ ctx # "active" \/ sentHeader
        /\ call' = [call EXCEPT ![g] = "idle"]
        /\ wg' = wg - Counts(g)
        /\ mpc' = IF g = Main /\ mpc = "header" THEN "cancel" ELSE mpc
        /\ UNCHANGED <<ctx, input, sent>>
  /\ UNCHANGED <<sentHeader, pending, response>>

Late(g) == g # Main /\ mpc # "handler"

(* Mutant: sentHeader is not set. *)
SendHeaderSetForgets(g) ==
  /\ call[g] = "set"
  /\ response' = [response EXCEPT !.headers = @ + 1, !.late = @ \/ Late(g)]
  /\ wg' = wg - 1
  /\ IF g = Main /\ mpc = "header"
       THEN mpc' = "flush" /\ call' = [call EXCEPT ![g] = "idle"]
       ELSE UNCHANGED mpc /\ call' = [call EXCEPT ![g] = "write"]
  /\ UNCHANGED <<ctx, sentHeader, input, pending, sent>>

(* The headers are set and sentHeader with them. *)
SendHeaderSet(g) ==
  /\ call[g] = "set"
  /\ sentHeader' = TRUE
  /\ response' = [response EXCEPT !.headers = @ + 1, !.late = @ \/ Late(g)]
  /\ wg' = wg - 1
  /\ IF g = Main /\ mpc = "header"
       THEN mpc' = "flush" /\ call' = [call EXCEPT ![g] = "idle"]
       ELSE UNCHANGED mpc /\ call' = [call EXCEPT ![g] = "write"]
  /\ UNCHANGED <<ctx, input, pending, sent>>

(* Marshal, compress, Write and Flush; each may fail. *)
WriteMessage(g) ==
  /\ call[g] = "write"
  /\ Leave(g, 1)
  /\ UNCHANGED <<sentHeader, pending, response>>

-----------------------------------------------------------------------------
(* serveGRPC. *)

ServeGoes(pc, next) ==
  /\ mpc = pc
  /\ mpc' = next
  /\ UNCHANGED <<wg, sentHeader, pending, sent>>

(* Not HTTP/2, not POST, no codec, no compressor, a malformed timeout, no     *)
(* handler: an HTTP error, before the stream exists.                          *)
Reject ==
  /\ ServeGoes("start", "returned")
  /\ response' = [response EXCEPT !.rejected = TRUE]
  /\ UNCHANGED <<call, ctx, input>>

StartHandler == ServeGoes("start", "handler") /\ UNCHANGED <<call, ctx, input, response>>

HandlerReturns ==
  /\ call[Main] = "idle"
  /\ ServeGoes("handler", "finish")
  /\ UNCHANGED <<call, ctx, input, response>>

(* Mutant: SendHeader is called without the test of sentHeader. *)
FinishHeaderAlways ==
  /\ mpc = "finish"
  /\ mpc' = "header" /\ call' = [call EXCEPT ![Main] = "header"] /\ wg' = wg + 1
  /\ UNCHANGED <<ctx, sentHeader, pending, input, response, sent>>

(* if !stream.sentHeader { stream.SendHeader(nil) } *)
FinishHeader ==
  /\ mpc = "finish"
  /\ IF sentHeader
       THEN mpc' = "flush" /\ UNCHANGED <<call, wg>>
       ELSE mpc' = "header" /\ call' = [call EXCEPT ![Main] = "header"] /\ wg' = wg + 1
  /\ UNCHANGED <<ctx, sentHeader, pending, input, response, sent>>

FlushHeader == ServeGoes("flush", "close") /\ UNCHANGED <<call, ctx, input, response>>

(* Mutant: the request body is left open. *)
CloseBodyNot == ServeGoes("close", "status") /\ UNCHANGED <<call, ctx, input, response>>

CloseBody ==
  /\ ServeGoes("close", "status")
  /\ input' = IF input = "reset" THEN input ELSE "closed"
  /\ UNCHANGED <<call, ctx, response>>

WriteStatus ==
  /\ ServeGoes("status", "cancel")
  /\ response' = [response EXCEPT !.status = TRUE]
  /\ UNCHANGED <<call, ctx, input>>

(* Mutant: the wait group is waited for, the context is not cancelled. *)
CancelNot == ServeGoes("cancel", "wait") /\ UNCHANGED <<call, ctx, input, response>>

(* The deferred function: cancel, then wait for the stream methods. *)
Cancel ==
  /\ ServeGoes("cancel", "wait")
  /\ ctx' = IF ctx = "active" THEN "cancelled" ELSE ctx
  /\ UNCHANGED <<call, input, response>>

Wait ==
  /\ wg = 0
  /\ ServeGoes("wait", "returned")
  /\ UNCHANGED <<call, ctx, input, response>>

-----------------------------------------------------------------------------
StreamStep(g) ==
  \/ RecvMsgIsDone(g) \/ ReadMessage(g) \/ ReadFails(g)
  \/ SendMsgIsDone(g) \/ SendMsgTest(g) \/ SendHeaderCheck(g) \/ SendHeaderSet(g)
  \/ WriteMessage(g)

ServeStep ==
  \/ HandlerReturns \/ FinishHeader \/ FlushHeader \/ CloseBody \/ WriteStatus
  \/ Cancel \/ Wait

Next ==
  \/ ClientSend \/ ClientHalfClose \/ ClientReset \/ Expire
  \/ Reject \/ StartHandler \/ ServeStep
  \/ \E g \in Callers : RecvMsg(g) \/ SendMsg(g) \/ StreamStep(g)

Spec == Init /\ [][Next]_vars

(* Goroutines run, a client whose deadline has passed gives the stream up    *)
(* (it set the timeout itself) and a client reads what is written.           *)
FairSpec ==
  /\ Spec
  /\ WF_vars(ServeStep)
  /\ \A g \in Callers : WF_vars(StreamStep(g))
  /\ WF_vars(ctx = "expired" /\ ClientReset)

-----------------------------------------------------------------------------
(* Properties. *)

(* "Sync handler return to stream methods": once serveGRPC has returned, no   *)
(* goroutine is about to use the ResponseWriter or the request body, and the  *)
(* ones that call later are turned away by the cancelled context.             *)
NoUseAfterReturn ==
  mpc = "returned" => \A g \in Callers : call[g] \notin Touching

(* The wait group counts the methods that are running: the wait of the       *)
(* deferred function is over exactly when none is left.                      *)
WaitGroupCounts ==
  wg = Cardinality({g \in Callers : call[g] # "idle"})
       + Cardinality({g \in Callers : /\ call[g] \in {"header", "set"}
                                      /\ ~(g = Main /\ mpc = "header")})

(* The state of a request: its types, and wg, which all goroutines change.   *)
RequestInv == TypeOK /\ WaitGroupCounts

(* A response has its headers before its status, and once: while the handler *)
(* runs sentHeader, which nothing protects, is enough; only a goroutine that   *)
(* sends its first message as the handler returns may set them again.          *)
HeadersOnce ==
  /\ ~response.late => response.headers <= 1
  /\ response.status => response.headers >= 1

(* "return // ctx canceled": serveGRPC gives up without a status only when    *)
(* the context of the request was done, or when such a goroutine made its      *)
(* SendHeader fail, which serveGRPC takes for a cancelled context.             *)
StatusUnlessCancelled ==
  mpc = "wait" /\ ~response.status => ctx \in {"expired", "reset"} \/ response.late

Calls == \E g \in Callers : RecvMsg(g) \/ SendMsg(g)

(* A request ends once its handler has returned, even if a goroutine of the   *)
(* handler waits for the client in RecvMsg (closing the body wakes it), as     *)
(* long as its goroutines do not call for ever: two that take turns keep the   *)
(* wait group above zero although each call is turned away.  Nor does it hold  *)
(* for a request that a late sender made end without a status: it waits with   *)
(* the body open.                                                              *)
ReturnsAfterHandler ==
  <>[][~Calls]_vars => (mpc = "finish" ~> mpc = "returned" \/ response.late)
=============================================================================
