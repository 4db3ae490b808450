---------------------------- MODULE MCHTTPReply -----------------------------
(* Instances of HTTPReply for TLC. *)
EXTENDS HTTPReply, MCStreamHTTP

Item(t, q) ==
  [main |-> t.main, sub |-> t.sub, param |-> IF q = <<1>> THEN "none" ELSE "q",
   q |-> [lead |-> q[1], decimals |-> Tail(q)], comma |-> TRUE]

BadItem(t) == [Item(t, <<1>>) EXCEPT !.param = "other"]

AnyType == Type("*", "*")
AnyApplication == Type("application", "*")
HTML == Type("text", "html")

(* Accept headers: none, one type, wildcards of both kinds, weights that are  *)
(* equal, zero or of three digits, a malformed item before a good one, two    *)
(* lines, a type that has no codec.                                           *)
MCAccepts ==
  {<<>>,
   <<<<Item(Proto, <<1>>)>>>>,
   <<<<Item(HTML, <<1>>), Item(AnyType, <<0, 8>>)>>>>,
   <<<<Item(AnyApplication, <<0, 5>>), Item(Octets, <<0, 5>>)>>>>,
   <<<<Item(JSON, <<0>>), Item(Proto, <<0, 2, 0, 5>>), Item(Octets, <<0, 2>>)>>>>,
   <<<<Item(JSON, <<0, 3>>), BadItem(Octets)>>, <<Item(Proto, <<0, 4>>)>>>>,
   <<<<BadItem(HTML), Item(Proto, <<1>>)>>>>,
   <<<<Item(HttpBody, <<1>>)>>>>}

Gzip == Type("", "gzip")

Reply(a, e, t, w, s, o, n) ==
  [accept |-> a, acceptEncoding |-> e, contentType |-> t, twirp |-> w, serverStream |-> s,
   output |-> o, sends |-> n]

(* The answers to a request without a body are explored whole; while a small  *)
(* body is received, a message may be sent; the other bodies are received by  *)
(* handlers that send nothing.                                                *)
MCNoBody == Request("json", FALSE, FALSE, <<>>)
MCSmall == Request("json", TRUE, TRUE, Message(1, 2))

MCRepliesFor(r) ==
  CASE r = MCNoBody ->
         {Reply(a, <<>>, t, FALSE, s, "plain", 1) : a \in MCAccepts, t \in {JSON, HTML},
                                                    s \in BOOLEAN}
         \cup {Reply(a, <<<<Item(Gzip, <<1>>)>>>>, JSON, w, s, o, 2) :
                 a \in {<<<<Item(Proto, <<1>>)>>>>, <<<<Item(HttpBody, <<1>>)>>>>},
                 w \in BOOLEAN, s \in BOOLEAN, o \in {"plain", "HttpBody"}}
    [] r = MCSmall -> {Reply(<<>>, <<>>, JSON, FALSE, s, "plain", 1) : s \in BOOLEAN}
    [] OTHER -> {Reply(<<>>, <<>>, JSON, FALSE, FALSE, "plain", 0)}

MCAllRequests == MCRequests \cup {MCNoBody, MCSmall}

MCCodes == {16, 17, 18}

MCMDs == {Key("a") :> <<<<1>>>>, ContentType :> <<HTML>>}

MCBodyTypes == {HTML, NoType}
=============================================================================
