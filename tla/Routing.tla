------------------------------ MODULE Routing -------------------------------
(***************************************************************************)
(* What the lexer, the tree and the parameters are for, said without       *)
(* tokens, and the properties that Router does it.                         *)
(*                                                                         *)
(* A template is a sequence of segments, [kind, text] for "literal", "*"   *)
(* and "**" and [kind, field, segs] for "var", with an action (its verb    *)
(* ":action", <<>> for none).  A path is a sequence of texts and an action. *)
(***************************************************************************)
EXTENDS Router

-----------------------------------------------------------------------------
(* The grammar in the comment of lexer.go, by splitting the text.  IDENT and *)
(* LITERAL are runs of the runes the comments of their tokens list.          *)

Sub(w, i, j) == SubSeq(w, i, j)

AllIn(w, class) == w # <<>> /\ \A i \in 1 .. Len(w) : w[i] \in class

RECURSIVE IsFieldPath(_), IsSegments(_)

IsFieldPath(w) ==
  \/ AllIn(w, isIdent)
  \/ \E i \in 1 .. Len(w) : /\ w[i] = "." /\ AllIn(Sub(w, 1, i - 1), isIdent)
                            /\ IsFieldPath(Sub(w, i + 1, Len(w)))

IsVariable(w) ==
  /\ Len(w) > 2 /\ w[1] = "{" /\ w[Len(w)] = "}"
  /\ LET inner == Sub(w, 2, Len(w) - 1)
     IN \/ IsFieldPath(inner)
        \/ \E i \in 1 .. Len(inner) : /\ inner[i] = "=" /\ IsFieldPath(Sub(inner, 1, i - 1))
                                      /\ IsSegments(Sub(inner, i + 1, Len(inner)))

IsSegment(w) ==
  \/ w \in {<<"*">>, <<"*", "*">>}
  \/ AllIn(w, isLiteral)
  \/ IsVariable(w)

IsSegments(w) ==
  \/ IsSegment(w)
  \/ \E i \in 1 .. Len(w) : /\ w[i] = "/" /\ IsSegment(Sub(w, 1, i - 1))
                            /\ IsSegments(Sub(w, i + 1, Len(w)))

IsTemplate(w) ==
  /\ w # <<>> /\ w[1] = "/"
  /\ \/ IsSegments(Tail(w))
     \/ \E i \in 2 .. Len(w) : /\ w[i] = ":" /\ IsSegments(Sub(w, 2, i - 1))
                               /\ AllIn(Sub(w, i + 1, Len(w)), isLiteral)

(* The templates of the grammar that lexSegment refuses all the same: one of  *)
(* their segments is a literal of one rune, or begins with no letter.  The    *)
(* first rune of a segment must be a letter, and is gone when lexLiteral asks *)
(* for at least one rune.                                                     *)
HasOddLiteral(w) ==
  \E i \in 1 .. Len(w) - 1 :
    /\ w[i] \in {"/", "="} /\ w[i + 1] \in isLiteral
    /\ w[i + 1] \notin Letter \/ i + 2 > Len(w) \/ w[i + 2] \notin isLiteral

(* A path: values, each after a slash or a colon. *)
IsPath(w) ==
  \A i \in 1 .. Len(w) :
    /\ w[i] \in isPath \cup {"/", ":"}
    /\ i = 1 => w[i] \in {"/", ":"}
    /\ w[i] \in {"/", ":"} => i < Len(w) /\ w[i + 1] \in isPath

-----------------------------------------------------------------------------
(* What it means for a template to match a path, and what its variables      *)
(* capture.  A "**" stands for one segment or more at the end.               *)

Flat(segs) ==
  FlattenSeq([i \in 1 .. Len(segs) |-> IF segs[i].kind = "var" THEN segs[i].segs ELSE <<segs[i]>>])

Fits(seg, text) == seg.kind # "literal" \/ seg.text = text

Covers(segs, texts) ==
  LET flat == Flat(segs)
      open == flat # <<>> /\ flat[Len(flat)].kind = "**"
  IN /\ IF open THEN Len(texts) >= Len(flat) ELSE Len(texts) = Len(flat)
     /\ \A i \in 1 .. Len(flat) : Fits(flat[i], texts[i])

MatchesRule(r, q) ==
  Covers(r.segs, q.segs) /\ r.action = q.action /\ r.verb \in {q.verb, Tree!All}

(* The texts a variable at place i captures, joined by slashes. *)
CapturedText(segs, i, texts) ==
  LET from == Len(Flat(Sub(segs, 1, i - 1))) + 1
      own == Flat(<<segs[i]>>)
      to == IF own[Len(own)].kind = "**" THEN Len(texts) ELSE from + Len(own) - 1
  IN FoldLeft(LAMBDA acc, k : IF acc = <<>> THEN texts[k] ELSE acc \o <<"/">> \o texts[k],
              <<>>, [k \in 1 .. to - from + 1 |-> from + k - 1])

NamedVariables(segs) == {i \in 1 .. Len(segs) : segs[i].kind = "var"}

(* What the variables of the rule say of the message. *)
CapturesOf(r, q) ==
  [f \in {r.segs[i].field : i \in NamedVariables(r.segs)} |->
     parseParam(f, CapturedText(r.segs, CHOOSE i \in NamedVariables(r.segs) : r.segs[i].field = f,
                                q.segs))]

Converts(r, q) == \A f \in DOMAIN CapturesOf(r, q) : ~CapturesOf(r, q)[f].err

Matching(q) == {r \in bound : MatchesRule(r, q)}

-----------------------------------------------------------------------------
(* Properties. *)

(* Every variable has its type, and an entry keeps a field for each of its   *)
(* variables, as search counts on when it looks up m.vars.                   *)
TypeOK ==
  /\ tree \subseteq [node : Seq([variable : BOOLEAN, toks : Seq([typ : STRING, val : Seq(STRING)])]),
                     verb : STRING, method : STRING, fields : Seq(Seq(STRING))]
  /\ \A e \in tree : Len(e.fields) = Cardinality({i \in 1 .. Len(e.node) : e.node[i].variable})
  /\ bound \subseteq Rules
  /\ config \in Seq(Seq(STRING))
  /\ last.op \in {"none", "add", "request"} /\ selected.op \in {"none", "config", "select"}

(* lexTemplate accepts no text but those of the grammar in its comment, and  *)
(* all of them but those of HasOddLiteral (as long as there is room for the  *)
(* tokens); the tokens spell the text.                                       *)
TemplatesFollowGrammar ==
  last.op = "add" =>
    \A l \in {lexTemplate(Start(last.rule.tmpl))} :
       /\ l.err # "limit" => (l.err = "nil" <=> IsTemplate(last.rule.tmpl) /\ ~HasOddLiteral(last.rule.tmpl))
       /\ l.err = "nil" => Spell(l.toks) = last.rule.tmpl
       /\ l.err = "limit" => Len(l.toks) = MaxTokens

(* The keys of two segments in the tree: the names of variables do not count. *)
KeyOf(seg) == IF seg.kind = "var" THEN seg.segs ELSE <<seg>>

SameKeys(r, s) ==
  /\ r.action = s.action /\ Len(r.segs) = Len(s.segs)
  /\ \A i \in 1 .. Len(r.segs) : KeyOf(r.segs[i]) = KeyOf(s.segs[i])

KnownField(f) == f \in DOMAIN Fields

(* Why addRule may refuse a rule: its text, a variable in a variable (which   *)
(* panics), an unknown field, a rule for the same place, a response field     *)
(* (which is looked up under the name of the body).                           *)
ReasonToRefuse(rule, others) ==
  \/ ~IsTemplate(rule.tmpl) \/ HasOddLiteral(rule.tmpl) \/ lexTemplate(Start(rule.tmpl)).err = "limit"
  \/ \E i \in NamedVariables(rule.segs) :
        \/ ~KnownField(rule.segs[i].field)
        \/ \E j \in 1 .. Len(rule.segs[i].segs) : rule.segs[i].segs[j].kind = "var"
  \/ \E r \in others : SameKeys(r, rule) /\ r.verb \in {rule.verb, Tree!All}
  \/ rule.body \notin {<<>>, WholeBody} /\ fieldPath(rule.body) = <<>>
  \/ rule.resp /\ rule.body \in {<<>>, WholeBody}

(* A rule is added unless there is a reason to refuse it; and of two rules    *)
(* for one place, only one is in the tree.                                    *)
RulesRefusedForAReason ==
  last.op = "add" /\ last.rule.method # "text" =>
    IF last.out = "added" THEN ~ReasonToRefuse(last.rule, bound \ {last.rule})
                          ELSE ReasonToRefuse(last.rule, bound)

(* The tree is well formed and has the rules it was given.                   *)
RulesAsGiven == TypeOK /\ RulesRefusedForAReason

(* lexPath refuses empty segments and runes it does not know, and loses none *)
(* of the path.                                                              *)
PathsFollowGrammar ==
  last.op = "request" =>
    \A l \in {lexPath(Start(last.request.path))} :
       /\ l.err # "limit" => (l.err = "nil" <=> IsPath(last.request.path))
       /\ l.err = "nil" => Spell(l.toks) = last.request.path

(* Both languages of the lexer are the ones of its grammar, the templates    *)
(* with an odd literal aside.                                                *)
LexerFollowsGrammar == TemplatesFollowGrammar /\ PathsFollowGrammar

(* Two things the code does with the action of a path: a wildcard may take it *)
(* for one more segment, and a "**" that follows something in its variable    *)
(* counts its end from the wrong token.                                       *)
InnerStarStar(r) ==
  \E i \in NamedVariables(r.segs) :
    \E j \in 2 .. Len(r.segs[i].segs) : r.segs[i].segs[j].kind = "**"

ActionAsSegment(r, q) ==
  /\ Len(r.segs) > 1 /\ r.segs[Len(r.segs)].kind # "literal"
  /\ Covers(Sub(r.segs, 1, Len(r.segs) - 1), q.segs)
  /\ Covers(<<r.segs[Len(r.segs)]>>, <<q.action>>)

ActionConfused(q) ==
  q.action # <<>> /\ \E r \in bound : InnerStarStar(r) \/ ActionAsSegment(r, q)

NotServed == {"lex", "method", "notfound", "param"}

(* search answers with a rule that matches the path and whose captures can   *)
(* be converted.  It may miss one only if a capture of some matching rule    *)
(* cannot be converted, or the path does not fit into the tokens.            *)
ServedByAMatch ==
  last.op = "request" /\ ~ActionConfused(last.request) =>
    LET q == last.request
        out == last.out
    IN /\ out.err \notin NotServed \cup {"panic", "query"} =>
            \E r \in Matching(q) : r.method = out.method /\ Converts(r, q)
       /\ Matching(q) # {} /\ (\A r \in Matching(q) : Converts(r, q)) =>
            out.err \notin NotServed \/ lexPath(Start(q.path)).err = "limit"

(* Among the rules that match, one with a literal where the answer has a     *)
(* variable is passed over only if a capture cannot be converted.            *)
LiteralsFirst ==
  last.op = "request" /\ last.out.err = "nil" /\ ~ActionConfused(last.request) =>
    \A r \in Matching(last.request), s \in Matching(last.request) :
      r.method = last.out.method /\ r # s /\ Converts(s, last.request) =>
        \A i \in 1 .. Len(r.segs) :
          /\ i <= Len(s.segs)
          /\ \A j \in 1 .. i - 1 : KeyOf(r.segs[j]) = KeyOf(s.segs[j])
          => (s.segs[i].kind = "literal" => r.segs[i].kind = "literal")

-----------------------------------------------------------------------------
(* What a text means for a field, by writing the value down again. *)

RECURSIVE Decimal(_)
Decimal(n) ==
  CASE n < 0 -> <<"-">> \o Decimal(0 - n)
    [] n \in 0 .. 9 -> <<Digits[n + 1]>>
    [] OTHER -> Decimal(n \div 10) \o Decimal(n % 10)

IsInt(kind, text, val) == InRange(kind, val) /\ text \in {Decimal(val), NullText} /\
                          (text = NullText => val = 0)

Bare(text) == IF IsQuoted(text) THEN Unquoted(text) ELSE text

RECURSIVE Means(_, _, _)
Means(kind, text, val) ==
  CASE kind \in Signed \cup Unsigned -> IsInt(kind, text, val)
    [] kind = "bool" -> text = (IF val THEN TrueText ELSE FalseText) \/ (text = NullText /\ ~val)
    [] kind = "enum" -> \/ IsInt("int32", text, val)
                        \/ text \in DOMAIN EnumNumber /\ EnumNumber[text] = val
    [] kind \in Floats -> val = text \/ (text = NullText /\ val = <<"0">>)
    [] kind = "bytes" -> Len(val) % 4 # 1 /\ Len(val) \in Len(text) - 2 .. Len(text)
    [] kind \in DOMAIN Wraps -> text # NullText /\ IsInt(Wraps[kind], WholeValue(Bare(text)), val)
    [] kind = "BytesValue" -> Means("bytes", Bare(text), val)
    [] kind \in Quoted -> val = Bare(text)
    [] OTHER -> val = text

(* The texts given for a field: the capture of the rule, then the query. *)
Given(r, q, f) ==
  LET captured == {i \in NamedVariables(r.segs) : r.segs[i].field = f}
      keys == {k \in DOMAIN q.query : fieldPath(k) = f}
  IN (IF captured = {} THEN <<>> ELSE <<CapturedText(r.segs, CHOOSE i \in captured : TRUE, q.segs)>>)
     \o (IF keys = {} THEN <<>> ELSE q.query[CHOOSE k \in keys : TRUE])

(* No two keys of the query name the same field, or a field and its part. *)
Independent(q) ==
  \A k, h \in DOMAIN q.query : k # h => ~IsPrefix(fieldPath(k), fieldPath(h))

(* Each field of the message holds what the path and the query say of it: a  *)
(* list all the texts in their order, another field the last one.  (A field  *)
(* the query names twice, under its two names, is random: see Independent.)  *)
FieldsAsWritten ==
  last.op = "request" /\ last.out.err = "nil" /\ ~ActionConfused(last.request)
     /\ Independent(last.request) =>
    \A r \in Matching(last.request) : r.method = last.out.method =>
      \A f \in DOMAIN Fields :
        LET given == Given(r, last.request, f)
            val == last.out.msg[f]
        IN /\ f \in DOMAIN last.out.msg <=> given # <<>>
           /\ given # <<>> =>
                IF Fields[f].card = "list"
                  THEN /\ Len(val) = Len(given)
                       /\ \A i \in 1 .. Len(val) : Means(Fields[f].kind, given[i], val[i])
                  ELSE Means(Fields[f].kind, given[Len(given)], val)

(* Go hands out the keys of the query in a random order: the same request    *)
(* has the same answer each time, unless its keys depend on each other.      *)
AnswerIsDetermined ==
  last.op = "request" /\ Independent(last.request) =>
    \A order \in SetToSeqs(DOMAIN last.request.query) :
      Answer(tree, last.request, order) = last.out

(* A request panics only in the two ways the code does not guard: the end of *)
(* an inner "**", and a query key that leads through a list.                 *)
PanicsExplained ==
  last.op = "request" /\ last.out.err = "panic" =>
    \/ ActionConfused(last.request)
    \/ \E k \in DOMAIN last.request.query :
         \E n \in 1 .. Len(k) - 1 : Fields[fieldPath(SubSeq(k, 1, n))].card # "one"

(* A request gets the method it asks for, or an error, or a known panic.     *)
RequestsServed == ServedByAMatch /\ LiteralsFirst /\ PanicsExplained
=============================================================================
