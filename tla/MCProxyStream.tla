--------------------------- MODULE MCProxyStream ---------------------------
(* Instances of ProxyStream for TLC. *)
EXTENDS ProxyStream

(* Unary, server streaming, client streaming, bidirectional, each on a        *)
(* request of net/http and on a websocket.                                    *)
MCDescs == [client : BOOLEAN, server : BOOLEAN, hijacked : BOOLEAN]

MCClientStreaming == {[client |-> TRUE, server |-> FALSE, hijacked |-> FALSE]}

=============================================================================
