------------------------------- MODULE Lexer --------------------------------
(***************************************************************************)
(* The lexer of path templates and of request paths (larking/lexer.go).    *)
(*                                                                         *)
(* A text is a sequence of runes, and the runes are split into the classes *)
(* the code tells apart.  The state of a lexer is a record: the input, the *)
(* fields pos and start, the tokens emitted, and the error that ended it.  *)
(* Every function of the code maps such a state to the next one; once      *)
(* there is an error nothing changes any more, which is what the early     *)
(* returns `if err != nil { return err }' do.                              *)
(*                                                                         *)
(* The code reads a rune and backs up when it is not the one it wants;     *)
(* here the rune is looked at first (Peek) and consumed (Skip) if wanted.  *)
(***************************************************************************)
EXTENDS Naturals, Sequences, SequencesExt, FiniteSets, FiniteSetsExt

CONSTANTS
  Letter,    \* the runes of unicode.IsLetter
  Number,    \* the other runes of isIdent: numbers, "_" and "-"
  Sign,      \* the runes only isPath knows, "*" and "=" aside
  MaxTokens  \* the length of lexer.toks

Punctuation == {"/", "*", "{", "}", "=", ".", ":"}

ASSUME LexerAssumption ==
  /\ MaxTokens \in Nat \ {0}
  /\ (Letter \cup Number \cup Sign) \cap Punctuation = {}
  /\ Letter \cap (Number \cup Sign) = {} /\ Number \cap Sign = {}

EndOfInput == "eof"

isIdent == Letter \cup Number
isLiteral == isIdent \cup {"."}
isPath == isLiteral \cup Sign \cup {"*", "="}

(* The concatenated values of the tokens: tokens.String. *)
Spell(toks) == FlattenSeq([i \in 1 .. Len(toks) |-> toks[i].val])

-----------------------------------------------------------------------------
(* The primitives. *)

Start(input) == [input |-> input, pos |-> 0, start |-> 0, toks |-> <<>>, err |-> "nil"]

Peek(l) == CASE l.err # "nil" -> "stopped"
             [] l.err = "nil" /\ l.pos < Len(l.input) -> l.input[l.pos + 1]
             [] OTHER -> EndOfInput

Skip(l) == IF Peek(l) \in {"stopped", EndOfInput} THEN l ELSE [l EXCEPT !.pos = @ + 1]

emit(l, typ) ==
  CASE l.err # "nil" -> l
    [] l.err = "nil" /\ Len(l.toks) >= MaxTokens -> [l EXCEPT !.err = "limit"]
    [] OTHER -> [l EXCEPT !.toks = Append(@, [typ |-> typ,
                                  val |-> SubSeq(l.input, l.start + 1, l.pos)]),
                          !.start = l.pos]

(* errUnexpected (of the rune just read) and errShort emit a token first. *)
Fail(l, e) ==
  IF l.err # "nil" THEN l
  ELSE LET f == emit(l, "error") IN [f EXCEPT !.err = IF @ = "nil" THEN e ELSE @]

errUnexpected(l) == Fail(Skip(l), "unexpected")

acceptRun(l, valid) ==
  IF l.err # "nil" THEN l
  ELSE LET ends == {i \in l.pos + 1 .. Len(l.input) : l.input[i] \notin valid}
       IN [l EXCEPT !.pos = Min(ends \cup {Len(l.input) + 1}) - 1]

(* A token of one rune or more of the class. *)
LexRun(l, valid, typ) ==
  LET r == acceptRun(l, valid)
  IN IF r.pos = l.pos THEN Fail(r, "short") ELSE emit(r, typ)

-----------------------------------------------------------------------------
(* Templates. *)

lexIdent(l) == LexRun(l, isIdent, "ident")

lexLiteral(l) == LexRun(l, isLiteral, "literal")

RECURSIVE lexFieldPath(_)
lexFieldPath(l) ==
  LET f == lexIdent(l)
  IN IF Peek(f) = "." THEN lexFieldPath(emit(Skip(f), "dot")) ELSE f

lexVerb(l) ==
  LET v == lexLiteral(l)
  IN IF Peek(v) = EndOfInput THEN emit(v, "eof") ELSE errUnexpected(v)

RECURSIVE lexSegments(_)

lexVariable(l) ==
  LET f == lexFieldPath(emit(Skip(l), "{"))
      g == IF Peek(f) = "=" THEN lexSegments(emit(Skip(f), "equal")) ELSE f
  IN IF Peek(g) = "}" THEN emit(Skip(g), "}") ELSE errUnexpected(g)

(* Mutant: a star is taken whatever follows it. *)
lexSegmentOneStar(l) ==
  CASE Peek(l) \in Letter -> lexLiteral(Skip(l))
    [] Peek(l) = "*" -> emit(Skip(l), "*")
    [] Peek(l) = "{" -> lexVariable(l)
    [] OTHER -> errUnexpected(l)

(* The letter that starts a literal is consumed before lexLiteral asks for  *)
(* one rune or more: a literal of one letter is refused.                    *)
lexSegment(l) ==
  CASE Peek(l) \in Letter -> lexLiteral(Skip(l))
    [] Peek(l) = "*" -> IF Peek(Skip(l)) = "*" THEN emit(Skip(Skip(l)), "**")
                                               ELSE emit(Skip(l), "*")
    [] Peek(l) = "{" -> lexVariable(l)
    [] OTHER -> errUnexpected(l)

lexSegments(l) ==
  LET s == lexSegment(l)
  IN IF Peek(s) = "/" THEN lexSegments(emit(Skip(s), "/")) ELSE s

lexTemplate(l) ==
  IF Peek(l) # "/" THEN errUnexpected(l)
  ELSE LET s == lexSegments(emit(Skip(l), "/"))
       IN CASE Peek(s) = ":" -> lexVerb(emit(Skip(s), ":"))
            [] Peek(s) = EndOfInput -> emit(s, "eof")
            [] OTHER -> errUnexpected(s)

-----------------------------------------------------------------------------
(* Request paths: every slash and every colon must be followed by a value. *)

lexPathSegment(l) == LexRun(l, isPath, "path")

RECURSIVE lexPath(_)
lexPath(l) ==
  CASE Peek(l) \in {"/", ":"} -> lexPath(lexPathSegment(emit(Skip(l), Peek(l))))
    [] Peek(l) = EndOfInput -> emit(l, "eof")
    [] OTHER -> errUnexpected(l)
=============================================================================
