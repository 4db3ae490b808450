----------------------------- MODULE MCWebGRPC ------------------------------
(* Instances of WebGRPC for TLC. *)
EXTENDS WebGRPC

UserAgent == Key("user-agent")

MCHeaders ==
  {UserAgent :> <<Plain(<<1>>)>> @@ ContentType :> <<Plain(<<"web">>)>>
     @@ BinKey("b") :> <<[data |-> <<1, 2>>, form |-> "raw"], [data |-> <<1, 2>>, form |-> "padded"],
                         [data |-> <<1, 2, 3>>, form |-> "padded"], Plain(<<1>>)>>}

Plainly == [proto |-> 1, post |-> TRUE, typ |-> "web", enc |-> "", upgrade |-> FALSE,
            encoding |-> "", timeout |-> NoTimeout, known |-> TRUE, header |-> CHOOSE h \in MCHeaders : TRUE]

Timeout(n, u, num, neg) == [length |-> n, unit |-> u, numeric |-> num, negative |-> neg]

(* Both formats with the encodings of the codec names, and one request for   *)
(* each reason to refuse it, each way of the timeout, and the compression.   *)
MCWebRequests ==
  {[Plainly EXCEPT !.typ = t, !.enc = e] : t \in {"web", "text"}, e \in {"", "json", "body"}}
  \cup {[Plainly EXCEPT !.timeout = t] :
          t \in {Timeout(1, "S", TRUE, FALSE), Timeout(2, "S", TRUE, TRUE),
                 Timeout(0, "S", FALSE, FALSE), Timeout(9, "S", TRUE, FALSE),
                 Timeout(8, "H", TRUE, FALSE), Timeout(1, "x", TRUE, FALSE),
                 Timeout(2, "m", FALSE, FALSE)}}
  \cup {[Plainly EXCEPT !.proto = 2], [Plainly EXCEPT !.post = FALSE],
        [Plainly EXCEPT !.typ = "web-other"], [Plainly EXCEPT !.upgrade = TRUE],
        [Plainly EXCEPT !.enc = "xml"], [Plainly EXCEPT !.encoding = "br"],
        [Plainly EXCEPT !.encoding = "gzip"], [Plainly EXCEPT !.known = FALSE],
        [Plainly EXCEPT !.typ = "text", !.known = FALSE]}

(* A key handlers use for headers and trailers alike, with two values, the    *)
(* binary one of the details of a status, and one they may not set.          *)
MCMDs ==
  {Key("a") :> <<<<7>>>>, Key("a") :> <<<<9>>>>, GrpcDetails :> <<<<7, 8>>>>,
   GrpcStatus :> <<<<0>>>>}

MCStatuses ==
  {[code |-> 0, msg |-> <<>>, details |-> FALSE],
   [code |-> 5, msg |-> <<"x", "y">>, details |-> TRUE],
   [code |-> 5, msg |-> <<"x", "%", "y">>, details |-> FALSE],
   [code |-> 5, msg |-> <<"ctl", "%">>, details |-> FALSE]}
=============================================================================
