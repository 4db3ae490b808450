------------------------------ MODULE StreamWS ------------------------------
(***************************************************************************)
(* A websocket call: streamWS (larking/websocket.go) and the websocket     *)
(* part of serveHTTP (larking/http.go), with one goroutine for the handler.*)
(*                                                                         *)
(* The client sends frames: messages (their numbers), "bad" for text that  *)
(* is not JSON, "ping", and at the end "close", or "lost" when the         *)
(* connection breaks.                                                      *)
(***************************************************************************)
EXTENDS Metadata, SequencesExt, FiniteSets

CONSTANTS
  Scripts,   \* the frames of clients, as sequences of records with a kind and a number
  HasBody,   \* whether the rule of the method has a body
  Codes,     \* the codes of the errors of handlers
  MDs,       \* the metadata handlers set
  MaxCalls   \* bound on the messages sent, and received without a body

ASSUME ScriptTypes ==
  /\ Scripts \subseteq Seq([kind : {"data", "bad", "ping", "close", "lost"}, n : Nat])
  /\ HasBody \subseteq BOOLEAN
  /\ Codes \subseteq Nat
  /\ MaxCalls \in Nat

VARIABLES
  hasBody,    \* method.hasBody, fixed
  script,     \* the frames of the client, fixed
  pos,        \* how many of them it has sent
  taken,      \* how many of these were read
  conn,       \* "open", "lost", "closed"
  wspc,       \* "start", "refused", "handler", "read" (in RecvMsg), "done", "panic"
  header,     \* streamWS.header
  trailer,    \* streamWS.trailer
  sentHeader, \* streamWS.sentHeader
  recvN,      \* streamWS.recvN
  sendN,      \* streamWS.sendN
  results,    \* what RecvMsg made of each text: its number, and is: "params" (a message
              \* with the parameters of the URL), "plain" (one without), "bad" (not
              \* JSON), "refused" (by params.set)
  over,       \* RecvMsg found that the connection is over
  out,        \* the frames written to the client
  herr        \* the code the handler returned

wsVars == <<hasBody, script, pos, taken, conn, wspc, header, trailer, sentHeader, recvN, sendN,
            results, over, out, herr>>

Init ==
  /\ hasBody \in HasBody /\ script \in Scripts
  /\ pos = 0 /\ taken = 0 /\ conn = "open"
  /\ wspc = "start"
  /\ header = NoMD /\ trailer = NoMD /\ sentHeader = FALSE
  /\ recvN = 0 /\ sendN = 0
  /\ results = <<>> /\ over = FALSE
  /\ out = <<>> /\ herr = 0

-----------------------------------------------------------------------------
(* The client: "lost" is no frame, but the end of the connection. *)
ClientSends ==
  /\ pos < Len(script) /\ conn = "open" /\ wspc \notin {"start", "refused"}
  /\ pos' = pos + 1
  /\ conn' = IF script[pos + 1].kind = "lost" THEN "lost" ELSE conn
  /\ UNCHANGED <<hasBody, script, taken, wspc, header, trailer, sentHeader, recvN, sendN, results, over, out, herr>>

(* ws.UpgradeHTTP, or its refusal, which encError answers. *)
Upgrade ==
  /\ wspc = "start"
  /\ \/ wspc' = "handler" /\ UNCHANGED herr
     \/ wspc' = "refused" /\ herr' = 2
  /\ UNCHANGED <<hasBody, script, pos, taken, conn, header, trailer, sentHeader, recvN, sendN,
                 results, over, out>>

-----------------------------------------------------------------------------
(* Metadata: collected, and sent to nobody.  Each piece is set once. *)

SetHeader(md) ==
  /\ wspc = "handler" /\ DOMAIN md \cap (DOMAIN header \cup DOMAIN trailer) = {}
  /\ header' = IF sentHeader THEN header ELSE Join(header, md)
  /\ UNCHANGED <<hasBody, script, pos, taken, conn, wspc, trailer, sentHeader, recvN, sendN,
                 results, over, out, herr>>

SendHeader ==
  /\ wspc = "handler" /\ ~sentHeader
  /\ sentHeader' = TRUE
  /\ UNCHANGED <<hasBody, script, pos, taken, conn, wspc, header, trailer, recvN, sendN, results, over, out, herr>>

SetTrailer(md) ==
  /\ wspc = "handler" /\ DOMAIN md \cap (DOMAIN header \cup DOMAIN trailer) = {}
  /\ sentHeader' = TRUE
  /\ trailer' = Join(trailer, md)
  /\ UNCHANGED <<hasBody, script, pos, taken, conn, wspc, header, recvN, sendN, results, over, out, herr>>

-----------------------------------------------------------------------------
(* SendMsg.  It fails when the connection is gone. *)
SendMsg ==
  /\ wspc = "handler" /\ sendN < MaxCalls
  /\ sendN' = sendN + 1
  /\ out' = IF conn = "open" THEN Append(out, [kind |-> "message", n |-> sendN + 1]) ELSE out
  /\ UNCHANGED <<hasBody, script, pos, taken, conn, wspc, header, trailer, sentHeader, recvN,
                 results, over, herr>>

(* What RecvMsg makes of a text, on its call number count.  Only the first   *)
(* call sets the parameters, after it decoded the text.                      *)
Outcomes(json, count) ==
  IF ~json THEN {"bad"} ELSE IF count = 1 THEN {"params", "refused"} ELSE {"plain"}

ReturnMessage(n, json, count) ==
  \E r \in Outcomes(json, count) : results' = Append(results, [n |-> n, is |-> r])

(* A handler may go on after an error, unless the connection is over.        *)
(* Without a body RecvMsg returns at once, every time: there is no io.EOF.   *)
RecvMsg ==
  /\ wspc = "handler" /\ ~over
  /\ hasBody \/ recvN < MaxCalls
  /\ recvN' = recvN + 1
  /\ IF hasBody THEN wspc' = "read" /\ UNCHANGED results
     ELSE ReturnMessage(0, TRUE, recvN') /\ UNCHANGED wspc
  /\ UNCHANGED <<hasBody, script, pos, taken, conn, header, trailer, sentHeader, sendN, over, out,
                 herr>>

(* Mutant: text that is not JSON is skipped. *)
ReadSkipsBad(f) ==
  CASE f.kind \in {"ping", "bad"} ->
         out' = Append(out, [kind |-> "pong", n |-> 0]) /\ UNCHANGED <<wspc, results, over>>
    [] f.kind = "data" -> ReturnMessage(f.n, TRUE, recvN) /\ wspc' = "handler" /\ UNCHANGED <<over, out>>
    [] OTHER -> over' = TRUE /\ wspc' = "handler" /\ UNCHANGED <<results, out>>

(* Mutant: a close frame is answered, and the reader waits for the next one. *)
ReadGoesOn(f) ==
  CASE f.kind = "ping" ->
         out' = Append(out, [kind |-> "pong", n |-> 0]) /\ UNCHANGED <<wspc, results, over>>
    [] f.kind = "close" ->
         out' = Append(out, [kind |-> "echo", n |-> 1000]) /\ UNCHANGED <<wspc, results, over>>
    [] f.kind = "lost" -> over' = TRUE /\ wspc' = "handler" /\ UNCHANGED <<results, out>>
    [] OTHER -> /\ ReturnMessage(f.n, f.kind = "data", recvN)
                /\ wspc' = "handler" /\ UNCHANGED <<over, out>>

(* wsutil.ReadClientData answers a ping and reads on, answers a close frame  *)
(* and returns an error; the text it returns may not be JSON.                *)
ReadClientData(f) ==
  CASE f.kind = "ping" ->
         out' = Append(out, [kind |-> "pong", n |-> 0]) /\ UNCHANGED <<wspc, results, over>>
    [] f.kind = "close" ->
         /\ out' = Append(out, [kind |-> "echo", n |-> 1000])
         /\ over' = TRUE /\ wspc' = "handler" /\ UNCHANGED results
    [] f.kind = "lost" -> over' = TRUE /\ wspc' = "handler" /\ UNCHANGED <<results, out>>
    [] OTHER -> /\ ReturnMessage(f.n, f.kind = "data", recvN)
                /\ wspc' = "handler" /\ UNCHANGED <<over, out>>

Read ==
  /\ wspc = "read" /\ taken < pos
  /\ taken' = taken + 1
  /\ ReadClientData(script[taken + 1])
  /\ UNCHANGED <<hasBody, script, pos, conn, header, trailer, sentHeader, recvN, sendN, herr>>

-----------------------------------------------------------------------------
codeToWSStatus == <<1000, 1001, 1011, 1003, 1001, 1011, 1001, 1011, 1011, 1011, 1011, 1011, 1003,
                    1011, 1011, 1011, 1008>>

(* Mutant: a code beyond the table closes normally. *)
WSStatusCodeNormal(c) ==
  CASE c > Len(codeToWSStatus) -> 1000
    [] c = Len(codeToWSStatus) -> 0
    [] OTHER -> codeToWSStatus[c + 1]

(* As in HTTPStatusCode, the code after the last one is out of range. *)
WSStatusCode(c) ==
  CASE c > Len(codeToWSStatus) -> 1011
    [] c = Len(codeToWSStatus) -> 0
    [] OTHER -> codeToWSStatus[c + 1]

(* The frame written after the handler.  ws.CompiledClose has no code, which *)
(* the client takes for 1005, a closure without a status.                    *)
CloseFrame(c) ==
  LET code == IF c = 0 THEN 1005 ELSE WSStatusCode(c)
  IN IF conn = "open" THEN Append(out, [kind |-> "close", n |-> code]) ELSE out

(* The handler returns: the close frame, and the deferred conn.Close, which  *)
(* also runs when WSStatusCode panics.  A write that fails, on a lost        *)
(* connection, ends in encError, whose writer was hijacked: nobody sees it.  *)
HandlerReturns(c) ==
  /\ wspc = "handler"
  /\ herr' = c
  /\ conn' = "closed"
  /\ IF WSStatusCode(c) = 0
       THEN wspc' = "panic" /\ UNCHANGED out
       ELSE wspc' = "done" /\ out' = CloseFrame(c)
  /\ UNCHANGED <<hasBody, script, pos, taken, header, trailer, sentHeader, recvN, sendN, results, over>>

-----------------------------------------------------------------------------
Serve ==
  \/ Upgrade \/ SendHeader \/ SendMsg \/ RecvMsg \/ Read
  \/ \E md \in MDs : SetHeader(md) \/ SetTrailer(md)
  \/ \E c \in Codes \cup {0} : HandlerReturns(c)

Next == ClientSends \/ Serve

(* The client sends its script, which ends the connection one way or the     *)
(* other, and the goroutine of the request runs.                             *)
Spec == Init /\ [][Next]_wsVars /\ WF_wsVars(ClientSends) /\ WF_wsVars(Serve)

-----------------------------------------------------------------------------
(* Properties. *)

(* Every variable has its type; no more is read than was sent. *)
TypeOK ==
  /\ pos \in 0 .. Len(script) /\ taken \in 0 .. pos
  /\ conn \in {"open", "lost", "closed"}
  /\ wspc \in {"start", "refused", "handler", "read", "done", "panic"}
  /\ sentHeader \in BOOLEAN
  /\ sendN \in 0 .. MaxCalls
  /\ recvN \in Nat /\ over \in BOOLEAN

(* How many of the first i frames are texts. *)
Texts(i) == Cardinality({j \in 1 .. i : script[j].kind \in {"data", "bad"}})

(* The texts of the client arrive in order and none is passed over: the n-th *)
(* of those up to where the reader is was the n-th RecvMsg's, no other was,  *)
(* and those that are not JSON, and only those, are told as such.            *)
MessagesInOrder ==
  hasBody =>
    /\ Len(results) = Texts(taken)
    /\ \A i \in 1 .. taken :
         script[i].kind \in {"data", "bad"} =>
           /\ results[Texts(i)].n = script[i].n
           /\ results[Texts(i)].is = "bad" <=> script[i].kind = "bad"

(* The parameters of the URL are in the first message and in no other; when  *)
(* the first call fails, they are in none, though the handler goes on.       *)
ParamsOnFirst ==
  \A i \in 1 .. Len(results) :
    results[i].is \in IF i = 1 THEN {"params", "refused", "bad"} ELSE {"plain", "bad"}

(* What RecvMsg returns is what the client sent, with the parameters of the  *)
(* URL where they belong.                                                    *)
ReceivedInOrder == TypeOK /\ MessagesInOrder /\ ParamsOnFirst

(* A call ends with one close frame of serveHTTP, after its messages, on a   *)
(* connection that still stands (the echo of the client's own close frame,   *)
(* which wsutil sends, may come before it); a panic, for the code after the  *)
(* last one only, leaves the connection closed without it.                   *)
ClosedOnce ==
  /\ \A i \in 1 .. Len(out) : out[i].kind = "close" => i = Len(out)
  /\ wspc = "done" /\ (pos = 0 \/ script[pos].kind # "lost") =>
       out # <<>> /\ Last(out).kind = "close"
  /\ wspc = "panic" => herr = 17 /\ conn = "closed"

(* The close frame tells a success from an error: its code says that the    *)
(* handler failed if it did, and not otherwise.                              *)
CloseCodeTrue ==
  \A i \in 1 .. Len(out) :
    out[i].kind = "close" => ((out[i].n \in {1000, 1005}) <=> (herr = 0))

(* The client is told once how its call ended, and truly.                    *)
ClosedTruly == ClosedOnce /\ CloseCodeTrue

(* A client that closes or loses its connection ends the call of a handler   *)
(* that receives until it is told to stop.                                   *)
CallEnds == hasBody => <>(wspc \in {"refused", "done", "panic"})
=============================================================================
