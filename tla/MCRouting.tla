----------------------------- MODULE MCRouting ------------------------------
(* Instances of Routing for TLC. *)
EXTENDS Routing

ab == <<"a", "b">>
ba == <<"b", "a">>
one == <<"1", "1">>

Lit(w) == [kind |-> "literal", text |-> w]
Wild(k) == [kind |-> k]
Var(f, segs) == [kind |-> "var", field |-> <<f>>, segs |-> segs]
OneOf(f) == Var(f, <<Wild("*")>>)

(* The text of a template. *)
Join(texts) == FoldLeft(LAMBDA acc, w : acc \o <<"/">> \o w, <<>>, texts)
SegText(s) == CASE s.kind = "literal" -> s.text
                [] s.kind = "*" -> <<"*">>
                [] s.kind = "**" -> <<"*", "*">>
                [] s.kind = "var" -> <<"{", s.field[1], "}">>
TextOf(s) ==
  IF s.kind # "var" THEN SegText(s)
  ELSE <<"{", s.field[1]>>
       \o (IF s.segs = <<Wild("*")>> THEN <<>>
           ELSE <<"=">> \o Tail(Join([i \in 1 .. Len(s.segs) |-> SegText(s.segs[i])])))
       \o <<"}">>
ActionText(a) == IF a = <<>> THEN <<>> ELSE <<":">> \o a
Template(segs, a) == Join([i \in 1 .. Len(segs) |-> TextOf(segs[i])]) \o ActionText(a)

Rule(m, verb, segs, a) ==
  [method |-> m, verb |-> verb, segs |-> segs, action |-> a, tmpl |-> Template(segs, a),
   body |-> <<>>, resp |-> FALSE]

MCRules ==
  {Rule("r1", "GET", <<Lit(ab), OneOf("x")>>, <<>>),
   Rule("r2", "GET", <<Lit(ab), Lit(ba)>>, <<>>),
   Rule("r3", "GET", <<Var("x", <<Lit(ab), Wild("**")>>)>>, <<>>),
   Rule("r4", "GET", <<OneOf("n"), OneOf("x")>>, <<>>),
   Rule("r5", "GET", <<Lit(ab), OneOf("n")>>, ba),
   Rule("r6", "*", <<Wild("**")>>, <<>>),
   Rule("r7", "GET", <<Var("x", <<Lit(ab), Wild("*")>>), OneOf("n")>>, <<>>),
   Rule("r8", "GET", <<Wild("*"), OneOf("n"), OneOf("x")>>, <<>>),
   Rule("r9", "GET", <<OneOf("n")>>, <<>>),
   Rule("r10", "GET", <<OneOf("l")>>, ab),
   Rule("r11", "GET", <<Lit(ab), OneOf("l")>>, <<>>),
   Rule("r12", "GET", <<Var("x", <<Wild("*"), Lit(ba)>>)>>, <<>>),
   [Rule("r13", "POST", <<Lit(ab)>>, <<>>) EXCEPT !.body = WholeBody],
   [Rule("r14", "POST", <<Lit(ab)>>, <<>>) EXCEPT !.body = << <<"q">> >>],
   [Rule("r15", "POST", <<Lit(ba)>>, <<>>) EXCEPT !.body = WholeBody, !.resp = TRUE],
   [Rule("r16", "POST", <<Lit(ba)>>, <<>>) EXCEPT !.body = << <<"t">> >>, !.resp = TRUE],
   Rule("r17", "GET", <<Lit(ba), OneOf("q")>>, <<>>),
   Rule("r18", "GET", <<Var("x", <<OneOf("n")>>)>>, <<>>)}

Path(segs, a, verb, query) ==
  [segs |-> segs, action |-> a, path |-> Join(segs) \o ActionText(a), verb |-> verb,
   query |-> query]

NoQuery == [k \in {} |-> <<>>]

(* The fields: one of each kind, a list, a map, a message with a part, and a  *)
(* list of messages.  "y" is the JSON name of x.                              *)
MCFieldName == [w \in {<<c>> : c \in {"x", "y", "n", "u", "b", "e", "f", "o", "l", "m", "t", "s",
                                      "w", "v", "z", "g"}} |-> IF w = <<"y">> THEN "x" ELSE w[1]]
One(k) == [kind |-> k, card |-> "one"]
MCFields ==
  << "x" >> :> One("string") @@ << "n" >> :> One("int32") @@ << "u" >> :> One("uint64")
  @@ << "b" >> :> One("bytes") @@ << "e" >> :> One("enum") @@ << "f" >> :> One("float")
  @@ << "o" >> :> One("bool") @@ << "t" >> :> One("Timestamp") @@ << "t", "s" >> :> One("int64")
  @@ << "w" >> :> One("Int32Value") @@ << "v" >> :> One("StringValue")
  @@ << "z" >> :> One("BytesValue") @@ << "l" >> :> [kind |-> "int32", card |-> "list"]
  @@ << "m" >> :> [kind |-> "message", card |-> "map"]
  @@ << "g" >> :> [kind |-> "message", card |-> "list"] @@ << "g", "s" >> :> One("int32")
MCBits == [int32 |-> 5, int64 |-> 7, uint32 |-> 5, uint64 |-> 7]
MCEnum == [w \in {ab} |-> 1]
MCFormats == [k \in {"Timestamp", "Duration", "FieldMask"} |-> {<<"1", "-", "1">>}]

Key(names) == [i \in 1 .. Len(names) |-> <<names[i]>>]

(* Texts for one field: numbers at and beyond the widths, words, base64 with  *)
(* and without padding.                                                       *)
MCValues == {<<>>, <<"1">>, <<"1", "5">>, <<"1", "6">>, <<"-", "1", "6">>, <<"-", "1", "7">>,
             <<"1", "2", "7">>, <<"1", "2", "8">>, <<"0", "1">>, <<"1", ".", "0">>,
             <<"1", "-", "1">>, TrueText, NullText, ab, <<"a", "=">>, <<"a", "b", "=", "=">>,
             <<"+", "-", "a", "b">>, <<"-", "_", "a">>, <<Quote>>, <<Quote, "1", Quote>>}

MCQueries ==
  {Key(f) :> <<v>> : f \in DOMAIN MCFields \cup {<<"q">>}, v \in MCValues}
  \cup {Key(<<"l">>) :> <<<<"1">>, <<"5">>>>, Key(<<"x">>) :> <<ab, ba>>,
        Key(<<"x">>) :> <<ab>> @@ Key(<<"y">>) :> <<ba>>,
        Key(<<"x">>) :> <<ab>> @@ Key(<<"l">>) :> <<one>> @@ Key(<<"n">>) :> <<<<"1">>, <<"2">>>>,
        Key(<<"t">>) :> <<<<"1", "-", "1">>>> @@ Key(<<"t", "s">>) :> <<<<"1">>>>}

MCRequests ==
  {Path(s, a, "GET", NoQuery) : s \in UNION {[1 .. n -> {ab, ba, one}] : n \in 1 .. 3},
                                a \in {<<>>, ba}}
  \cup {Path(<<ab, one>>, <<>>, "GET", q) : q \in MCQueries}
  \cup {Path([i \in 1 .. 6 |-> ab], <<>>, "GET", NoQuery), Path(<<ab, ba>>, <<>>, "PUT", NoQuery)}

(* Texts of up to four runes, as they are, after a slash and in a variable. *)
MCWords == UNION {[1 .. n -> {"a", "1", ".", "/", "*", "{", "}", "=", ":"}] : n \in 0 .. 4}
MCTexts == {w \in MCWords : Len(w) < 3} \cup {<<"/">> \o w : w \in MCWords}
           \cup {<<"/", "{">> \o w \o <<"}">> : w \in MCWords}

(* A rule that the lexer sees and that is refused after it, for its body. *)
TextRule(w) == [Rule("text", "GET", <<>>, <<>>) EXCEPT !.tmpl = w, !.body = << <<"q">> >>]
TextRequest(w) == [Path(<<>>, <<>>, "GET", NoQuery) EXCEPT !.path = w]
MCPaths == UNION {[1 .. n -> {"a", "/", ":", "*", "{"}] : n \in 0 .. 5}

(* One selector or two, of up to three parts; "p*" is a part like another.    *)
MCSelectors(parts) == UNION {[1 .. n -> parts] : n \in 1 .. 3}
MCConfigs == {<<a>> : a \in MCSelectors({"p", "S", "*", "", "p*"})}
             \cup {<<a, b>> : a, b \in MCSelectors({"p", "S", "*", ""})}
MCNames == {<<"p", "S", "M">>, <<"p", "p", "S">>, <<"S", "p", "S">>}

(* A request and a rule that is refused leave the tree alone, so nothing      *)
(* follows them; the texts are tried on the empty tree, and a configuration   *)
(* is asked for its rules only.  Queries meet trees of at most two rules.      *)
Fresh == last.op = "none" /\ selected.op = "none"
Growing == Fresh \/ (last.op = "add" /\ last.out = "added")
TextRules == {TextRule(w) : w \in MCTexts}
TextRequests == {TextRequest(w) : w \in MCPaths}

MCNext ==
  \/ Growing /\ \E r \in IF Fresh THEN Rules \cup TextRules ELSE Rules : AddRule(r)
  \/ Growing /\ \E q \in IF Fresh THEN Requests \cup TextRequests ELSE Requests :
                   (q.query = NoQuery \/ Cardinality(bound) <= 2) /\ Request(q)
  \/ Fresh /\ (\E c \in Configs : ServiceConfig(c)) /\ UNCHANGED <<tree, bound, last>>
  \/ selected.op = "config" /\ (\E n \in Names : Select(n)) /\ UNCHANGED <<tree, bound, last>>
MCSpec == Init /\ [][MCNext]_vars
MCRuneOrder == <<"*", "/", "1", "a", "b">>
=============================================================================
