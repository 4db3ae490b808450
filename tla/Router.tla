------------------------------- MODULE Router -------------------------------
(***************************************************************************)
(* From the text of an HTTP rule to the message of a request               *)
(* (larking/rules.go): addRule walks the tokens of the template down the   *)
(* tree, match lexes the path of a request, search walks it down the tree  *)
(* and converts what the variables capture, and the parameters of the      *)
(* query follow.  The service configuration is beside it.                  *)
(*                                                                         *)
(* The tree is the set of its entries, as in RuleTree, whose duplicate     *)
(* check is used here; a key is a literal (with the slash or *)
(* the colon before it) or a variable with its pattern of tokens.  An      *)
(* entry keeps the fields of the variables on its way.                     *)
(***************************************************************************)
EXTENDS Lexer, Params, Selector

CONSTANTS
  Rules,     \* tmpl, verb, method, body and resp of the rules; what the
             \* template means (segs, action) is there for the properties
  Requests,  \* path, verb and query; and the segments and action of the path
  RuneOrder, \* the runes of variable names in the order of their bytes
  MaxRules   \* bound on the number of rules

VARIABLES
  tree,   \* the entries
  bound,  \* the rules that were added
  last    \* the last call and what it returned

vars == <<tree, bound, last, selectorVars>>

Tree == INSTANCE RuleTree

-----------------------------------------------------------------------------
(* addRule: the tokens of the template, one pair or one variable at a time. *)

Segment(val) == [variable |-> FALSE, toks |-> <<[typ |-> "segment", val |-> val]>>]

Variable(toks) == [variable |-> TRUE, toks |-> toks]

FirstFrom(toks, i, types) == Min({j \in i .. Len(toks) : toks[j].typ \in types})

(* The variable whose "{" is at i: its field, its pattern, its end.  The     *)
(* pattern ends at the first "}", be it the one of a variable inside.        *)
VariableAt(toks, i) ==
  LET after == FirstFrom(toks, i, {"equal", "}"})
      end == FirstFrom(toks, after, {"}"})
      keys == SelectSeq(SubSeq(toks, i, after), LAMBDA t : t.typ = "ident")
  IN [fds |-> fieldPath([k \in 1 .. Len(keys) |-> keys[k].val]),
      pattern |-> IF toks[after].typ = "equal" THEN SubSeq(toks, after + 1, end - 1)
                  ELSE <<[typ |-> "*", val |-> <<"*">>]>>,
      end |-> end]

RECURSIVE Walk(_, _, _, _)
Walk(toks, i, node, fields) ==
  CASE toks[i].typ = "/" /\ toks[i + 1].typ \in {"*", "**"} ->
         Walk(toks, i + 2, Append(node, Variable(<<toks[i + 1]>>)), Append(fields, <<>>))
    [] toks[i].typ = "/" /\ toks[i + 1].typ = "literal" ->
         Walk(toks, i + 2, Append(node, Segment(toks[i].val \o toks[i + 1].val)), fields)
    [] toks[i].typ = "/" /\ toks[i + 1].typ = "{" ->
         LET v == VariableAt(toks, i + 1)
         IN IF v.fds = <<>> THEN [err |-> "field"]
            ELSE Walk(toks, v.end + 1, Append(node, Variable(v.pattern)), Append(fields, v.fds))
    [] toks[i].typ = ":" ->
         [err |-> "nil", node |-> Append(node, Segment(toks[i].val \o toks[i + 1].val)),
          fields |-> fields]
    [] toks[i].typ = "eof" -> [err |-> "nil", node |-> node, fields |-> fields]
    [] OTHER -> [err |-> "panic"]

WholeBody == << <<"*">> >>    \* the body "*"

(* Mutant: the field of the body is not looked up. *)
BodyFailsNot(rule) == rule.resp /\ fieldPath(rule.body) = <<>>

(* The field of the response is looked up by the name of the body, among the *)
(* fields of the request.                                                    *)
BodyFails(rule) ==
  \/ rule.body \notin {<<>>, WholeBody} /\ fieldPath(rule.body) = <<>>
  \/ rule.resp /\ fieldPath(rule.body) = <<>>

Compiled(l) == IF l.err # "nil" THEN [err |-> "lex"] ELSE Walk(l.toks, 1, <<>>, <<>>)

Outcome(t, rule, c) ==
  CASE c.err \in {"lex", "field"} -> "error"
    [] c.err = "panic" -> "panic"
    [] OTHER -> Tree!AddRuleOutcome(t, [node |-> c.node, verb |-> rule.verb,
                                        err |-> IF BodyFails(rule) THEN "body" ELSE "none"],
                                    rule.method)

AddRule(rule) ==
  \E l \in {lexTemplate(Start(rule.tmpl))} : \E c \in {Compiled(l)} :
    \E out \in {Outcome(tree, rule, c)} :
      /\ Cardinality(bound) < MaxRules
      /\ tree' = IF out = "added"
                   THEN tree \cup {[node |-> c.node, verb |-> rule.verb, method |-> rule.method,
                                    fields |-> c.fields]}
                   ELSE tree
      /\ bound' = IF out = "added" THEN bound \cup {rule} ELSE bound
      /\ last' = [op |-> "add", rule |-> rule, out |-> out]
      /\ UNCHANGED selectorVars

-----------------------------------------------------------------------------
(* variable.index: how many tokens the pattern takes, -1 if it does not fit. *)
(* The searches of "*" and "**" start at the first token, not at the one     *)
(* they stand for: a result beyond the tokens makes search panic.            *)

IndexOf(toks, types) ==
  LET found == {j \in 1 .. Len(toks) : toks[j].typ \in types}
  IN IF found = {} THEN -1 ELSE Min(found) - 1

IndexStep(toks, i, tok) ==
  LET jump == IF tok.typ = "*" THEN IndexOf(toks, {"/", ":"}) ELSE IndexOf(toks, {":"})
  IN CASE i = -1 \/ i >= Len(toks) -> IF i > Len(toks) THEN i ELSE -1
       [] tok.typ = "/" -> IF toks[i + 1].typ = "/" THEN i + 1 ELSE -1
       [] tok.typ \in {"*", "**"} -> IF jump = -1 THEN Len(toks) ELSE i + jump
       [] tok.typ = "literal" ->
            IF toks[i + 1].typ = "path" /\ toks[i + 1].val = tok.val THEN i + 1 ELSE -1

index(pattern, toks) == FoldLeft(LAMBDA i, tok : IndexStep(toks, i, tok), 0, pattern)

-----------------------------------------------------------------------------
(* search: the literal first, then the variables in the order of their names. *)

RuneRank(r) == CHOOSE i \in 1 .. Len(RuneOrder) : RuneOrder[i] = r

NameLess(a, b) ==
  \/ IsStrictPrefix(a, b)
  \/ \E i \in 1 .. Len(a) : /\ i <= Len(b) /\ SubSeq(a, 1, i - 1) = SubSeq(b, 1, i - 1)
                            /\ RuneRank(a[i]) < RuneRank(b[i])

KeysAt(t, node) == {e.node[Len(node) + 1] : e \in {f \in t : IsStrictPrefix(node, f.node)}}

VariablesAt(t, node) ==
  SetToSortSeq({k \in KeysAt(t, node) : k.variable},
               LAMBDA k, h : NameLess(Spell(k.toks), Spell(h.toks)))

Failed(e) == [err |-> e]

Found(entry, ps) == [err |-> "nil", entry |-> entry, ps |-> ps]

MethodAt(t, node, verb) ==
  LET at == {e \in t : e.node = node}
      own == {e \in at : e.verb = verb}
      all == {e \in at : e.verb = Tree!All}
  IN CASE own # {} -> Found(CHOOSE e \in own : TRUE, <<>>)
       [] own = {} /\ all # {} -> Found(CHOOSE e \in all : TRUE, <<>>)
       [] OTHER -> Failed("method")

(* Mutant: the captures are counted from the first variable. *)
CaptureFromFirst(r, text) ==
  LET fds == r.entry.fields[Len(r.ps) + 1]
      p == IF fds = <<>> THEN Value(text) ELSE parseParam(fds, text)
  IN IF p.err THEN Failed("param") ELSE Found(r.entry, Append(r.ps, [fds |-> fds] @@ p))

(* What a variable captured is converted for its field, found by counting    *)
(* from the last variable: the captures of the ones below are in r.ps.       *)
Capture(r, text) ==
  LET fds == r.entry.fields[Len(r.entry.fields) - Len(r.ps)]
      p == IF fds = <<>> THEN Value(text) ELSE parseParam(fds, text)
  IN IF p.err THEN Failed("param") ELSE Found(r.entry, Append(r.ps, [fds |-> fds] @@ p))

RECURSIVE search(_, _, _, _), TryVariables(_, _, _, _, _)

(* The next variable is tried when this one does not fit or finds nothing    *)
(* below; not when the conversion of its own capture fails.                  *)
TryVariables(t, node, keys, toks, verb) ==
  IF keys = <<>> THEN Failed("notfound")
  ELSE LET l == index(Head(keys).toks, Tail(toks)) + 1
           r == search(t, Append(node, Head(keys)), SubSeq(toks, l + 1, Len(toks)), verb)
       IN CASE l = 0 -> TryVariables(t, node, Tail(keys), toks, verb)
            [] l > Len(toks) -> Failed("panic")
            [] OTHER -> CASE r.err = "panic" -> r
                          [] r.err = "nil" -> Capture(r, Spell(SubSeq(toks, 2, l)))
                          [] OTHER -> TryVariables(t, node, Tail(keys), toks, verb)

search(t, node, toks, verb) ==
  IF Len(toks) <= 1 THEN MethodAt(t, node, verb)
  ELSE LET key == Segment(toks[1].val \o toks[2].val)
           r == IF key \in KeysAt(t, node)
                  THEN search(t, Append(node, key), SubSeq(toks, 3, Len(toks)), verb)
                  ELSE Failed("none")
       IN IF r.err \in {"nil", "panic"} THEN r
          ELSE TryVariables(t, node, VariablesAt(t, node), toks, verb)

match(t, route, verb) ==
  LET l == lexPath(Start(route))
  IN IF l.err # "nil" THEN Failed("lex") ELSE search(t, <<>>, l.toks, verb)

-----------------------------------------------------------------------------
(* The beginning of serveHTTP and the params.set of the first message: the   *)
(* captures, the last one first, then the query.                             *)
Answer(t, q, order) ==
  LET r == match(t, q.path, q.verb)
      query == parseQueryParams(q.query, order)
      set == SetParams(r.ps \o query.ps)
  IN CASE r.err # "nil" -> Failed(r.err)
       [] r.err = "nil" /\ query.err -> Failed("query")
       [] OTHER -> [method |-> r.entry.method] @@ set

(* The keys of url.Values come in any order. *)
Request(q) ==
  \E order \in SetToSeqs(DOMAIN q.query) :
    /\ last' = [op |-> "request", request |-> q, order |-> order, out |-> Answer(tree, q, order)]
    /\ UNCHANGED <<tree, bound, selectorVars>>

-----------------------------------------------------------------------------
Init == tree = {} /\ bound = {} /\ last = [op |-> "none"] /\ SelectorInit

(* The options of NewMux come before the mux is used. *)
Next ==
  \/ \E r \in Rules : AddRule(r)
  \/ \E q \in Requests : Request(q)
  \/ last.op = "none" /\ (\E c \in Configs : ServiceConfig(c)) /\ UNCHANGED <<tree, bound, last>>
  \/ (\E n \in Names : Select(n)) /\ UNCHANGED <<tree, bound, last>>

Spec == Init /\ [][Next]_vars
=============================================================================
