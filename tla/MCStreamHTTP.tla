---------------------------- MODULE MCStreamHTTP ----------------------------
(* Instances of StreamHTTP for TLC. *)
EXTENDS StreamHTTP

Message(i, n) == [p \in 1 .. n |-> [msg |-> i, pos |-> p, size |-> n]]

(* Bodies of one to three messages of different lengths, one of them longer  *)
(* than the limit of 3; each may also be cut short.                          *)
MCWhole == {Message(1, 3) \o Message(2, 1) \o Message(3, 2),
            Message(1, 2) \o Message(2, 4) \o Message(3, 1),
            Message(1, 1) \o Message(2, 5),
            Message(1, 3)}

MCBodies == UNION {{SubSeq(b, 1, n) : n \in 0 .. Len(b)} : b \in MCWhole}

Request(c, s, h, b) ==
  [codec |-> c, streaming |-> s, hasBody |-> h, body |-> b, bad |-> {}, paramsOK |-> TRUE]

(* Faulty requests: without a codec, with a message that does not unmarshal, *)
(* with parameters that cannot be set.                                       *)
MCFaulty ==
  {Request("none", s, h, Message(1, 2)) : s \in BOOLEAN, h \in BOOLEAN}
  \cup {[Request(c, TRUE, TRUE, Message(1, 2) \o Message(2, 3) \o Message(3, 1))
           EXCEPT !.bad = {i}] : c \in {"json", "proto"}, i \in {1, 2}}
  \cup {[Request(c, FALSE, TRUE, Message(1, 1) \o Message(2, 1)) EXCEPT !.bad = {1}] :
          c \in {"json", "proto"}}
  \cup {[Request(c, s, h, Message(1, 2)) EXCEPT !.paramsOK = FALSE] :
          c \in {"json", "proto", "body"}, s \in BOOLEAN, h \in BOOLEAN}

(* Streams, unary requests, and requests whose rule has no body, whether the *)
(* client sends one or not.                                                  *)
MCRequests ==
  MCFaulty \cup
  {Request(c, TRUE, TRUE, b) : c \in {"json", "proto", "body"}, b \in MCBodies}
  \cup {Request(c, FALSE, TRUE, b) : c \in {"json", "proto", "body"},
                                     b \in {Message(1, n) : n \in 0 .. 4}}
  \cup {Request(c, s, FALSE, b) : c \in {"json", "body"}, s \in BOOLEAN,
                                  b \in {<<>>, Message(1, 2)}}

(* Two JSON messages, as in the documentation. *)
MCTwoMessages == {Request("json", TRUE, TRUE, Message(1, 2) \o Message(2, 2))}

(* A file longer than one chunk, in a streaming method. *)
MCFile == {Request("body", TRUE, TRUE, Message(1, 4))}
=============================================================================
