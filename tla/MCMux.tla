------------------------------- MODULE MCMux -------------------------------
(* Instances of Mux for TLC. *)
EXTENDS Mux, TLC

CONSTANTS c1, c2, svc, odd, raw

Bind(n, v, x) == [node |-> n, verb |-> v, err |-> "none", extra |-> x]

(* Get is served by the program, the other methods by backends.  Move      *)
(* claims a rule of Get; Put has an additional binding; Bad's second rule   *)
(* does not compile.                                                        *)
MCMethods == {"Get", "Put", "Move", "Bad"}

MCImplicitPath == [m \in MCMethods |-> <<"S", m>>]

MCRules ==
  [m \in MCMethods |->
     CASE m = "Get" -> <<Bind(<<"v1", Star>>, "GET", 0)>>
       [] m = "Put" -> <<Bind(<<"v1", Star>>, "PUT", 1), Bind(<<"v1">>, "PUT", 0),
                         Bind(<<"v1", Star>>, "PUT", 0)>>
       [] m = "Move" -> <<Bind(<<"v1", Star>>, "GET", 0)>>
       [] m = "Bad" -> <<[Bind(<<"v2">>, "GET", 0) EXCEPT !.err = "body"]>>]

MCFiles == {"put", "move", "bad"}

MCFileMethods ==
  [f \in MCFiles |-> CASE f = "put" -> {"Put"} [] f = "move" -> {"Move"} [] OTHER -> {"Bad"}]

(* c1 may list two files or none (the code takes an ErrorResponse for an    *)
(* empty listing); c2 may offer a method of c1 or a file with a rule that is *)
(* refused.                                                                  *)
MCOffers == c1 :> {<<"put", "move">>, <<>>}
            @@ c2 :> {<<"put">>, <<"bad">>}

(* odd has a method that its descriptor misses, raw an implementation that *)
(* does not satisfy its handler type.                                       *)
MCServiceMethods == svc :> {"Get"} @@ odd :> {"Bad"} @@ raw :> {}

MCRequests == {[route |-> <<"v1", "x">>, verb |-> "GET"]}

(* One writer is enough to meet the disagreements with the documentation.   *)
MCOffersOne == c1 :> {<<"put">>, <<"move">>, <<"put", "move">>}
=============================================================================
