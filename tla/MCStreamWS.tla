----------------------------- MODULE MCStreamWS -----------------------------
(* Instances of StreamWS for TLC. *)
EXTENDS StreamWS

Data(n) == [kind |-> "data", n |-> n]
Frame(k) == [kind |-> k, n |-> 0]

(* Up to two messages, with a ping or text that is not JSON among them, and  *)
(* each end of the connection.                                               *)
MCScripts ==
  {Append(s, Frame(e)) :
     s \in {<<>>, <<Data(1), Data(2)>>, <<Frame("ping"), Data(1)>>,
            <<Data(1), Frame("ping"), Data(2)>>, <<Data(1), Frame("bad"), Data(2)>>,
            <<Frame("bad"), Data(1)>>},
     e \in {"close", "lost"}}

MCMDs == {Key("a") :> <<<<1>>>>, Key("b") :> <<<<2>>>>}
=============================================================================
