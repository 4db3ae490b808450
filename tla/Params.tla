------------------------------- MODULE Params -------------------------------
(***************************************************************************)
(* The typed parameters of a request (larking/rules.go): fieldPath, quote, *)
(* parseParam, params.set and parseQueryParams.                            *)
(*                                                                         *)
(* A field is a path of names.  Fields describes those of the request      *)
(* message: its kind, and whether it holds one value, a list or a map.  A  *)
(* parameter text is a sequence of runes.  A message is a function from    *)
(* the fields that are set to their values.                                *)
(***************************************************************************)
EXTENDS Integers, Sequences, SequencesExt, FiniteSets, FiniteSetsExt, Functions

CONSTANTS
  FieldName,  \* the name of the field a text names, as JSON or proto name
  Fields,     \* [path of names -> [kind, card]]
  Bits,       \* the width of each integer kind: 32 or 64 in the code
  EnumNumber, \* the numbers of the names of the enum
  Formats     \* the texts a Timestamp, a Duration, a FieldMask accepts

Digits == <<"0", "1", "2", "3", "4", "5", "6", "7", "8", "9">>
Quote == "\""
TrueText == <<"t", "r", "u", "e">>
FalseText == <<"f", "a", "l", "s", "e">>
NullText == <<"n", "u", "l", "l">>

Signed == {"int32", "int64"}
Unsigned == {"uint32", "uint64"}
Floats == {"float", "double"}
(* The well-known messages whose JSON form is a scalar: those that are        *)
(* quoted before they are parsed, and the wrappers of a scalar, which are not. *)
Quoted == {"Timestamp", "Duration", "BytesValue", "StringValue", "FieldMask"}
Wraps == [BoolValue |-> "bool", Int32Value |-> "int32", Int64Value |-> "int64",
          UInt32Value |-> "uint32", UInt64Value |-> "uint64",
          FloatValue |-> "float", DoubleValue |-> "double"]

Error == [err |-> TRUE]
Value(v) == [err |-> FALSE, val |-> v]

-----------------------------------------------------------------------------
(* encoding/json, protojson and base64, as far as parseParam uses them. *)

IsDigits(s) == s # <<>> /\ \A i \in 1 .. Len(s) : s[i] \in Range(Digits)

(* A JSON number without fraction: no leading zero. *)
IsNatural(s) == IsDigits(s) /\ (s[1] = "0" => Len(s) = 1)

Negative(s) == s # <<>> /\ s[1] = "-"

IsInteger(s) == IsNatural(IF Negative(s) THEN Tail(s) ELSE s)

DigitsValue(s) ==
  FoldLeft(LAMBDA acc, d : 10 * acc + (CHOOSE i \in 1 .. 10 : Digits[i] = d) - 1, 0, s)

IntegerValue(s) == IF Negative(s) THEN 0 - DigitsValue(Tail(s)) ELSE DigitsValue(s)

InRange(kind, n) ==
  IF kind \in Unsigned
    THEN 0 <= n /\ n < 2 ^ Bits[kind]
    ELSE 0 - 2 ^ (Bits[kind] - 1) <= n /\ n < 2 ^ (Bits[kind] - 1)

(* A JSON number: an integer, or one with a fraction. *)
IsNumber(s) ==
  \/ IsInteger(s)
  \/ \E i \in 1 .. Len(s) : /\ s[i] = "." /\ IsInteger(SubSeq(s, 1, i - 1))
                            /\ IsDigits(SubSeq(s, i + 1, Len(s)))

(* json.Unmarshal into a Go value of the kind.  null leaves the zero value. *)
UnmarshalJSON(kind, s) ==
  CASE kind = "bool" /\ s \in {TrueText, FalseText, NullText} -> Value(s = TrueText)
    [] kind \in Signed \cup Unsigned /\ s = NullText -> Value(0)
    [] kind \in Signed \cup Unsigned /\ IsInteger(s) /\ InRange(kind, IntegerValue(s)) ->
         Value(IntegerValue(s))
    [] kind \in Floats /\ s = NullText -> Value(<<"0">>)
    [] kind \in Floats /\ IsNumber(s) -> Value(s)
    [] OTHER -> Error

(* A JSON string: quotes at both ends and none between. *)
IsQuoted(s) == Len(s) > 1 /\ s[1] = Quote /\ s[Len(s)] = Quote

Unquoted(s) == SubSeq(s, 2, Len(s) - 1)

IsString(s) == IsQuoted(s) /\ \A i \in 2 .. Len(s) - 1 : s[i] # Quote

(* The integer part of a number, which is the number if its fraction is 0. *)
Whole(s) == SelectInSeq(s, LAMBDA r : r = ".")

WholeValue(s) ==
  IF Whole(s) = 0 THEN s
  ELSE IF \A i \in Whole(s) + 1 .. Len(s) : s[i] = "0" THEN SubSeq(s, 1, Whole(s) - 1)
  ELSE <<>>

(* protojson.Unmarshal of a wrapper: null is refused, a number may be quoted, *)
(* and an integer may have a fraction of zeros.                               *)
UnmarshalWrapper(kind, s) ==
  LET n == IF IsString(s) /\ kind # "bool" THEN Unquoted(s) ELSE s
  IN CASE s = NullText \/ n = NullText -> Error
       [] kind \in Signed \cup Unsigned /\ IsNumber(n) /\ n # NullText ->
            UnmarshalJSON(kind, WholeValue(n))
       [] OTHER -> UnmarshalJSON(kind, n)

(* base64: the runes of the standard and of the URL alphabet differ in two.  *)
Std == [r \in {"-", "_"} |-> IF r = "-" THEN "+" ELSE "/"]

Decode64(s, foreign, padded) ==
  LET body == SelectSeq(s, LAMBDA r : r # "=")
      pad == Len(s) - Len(body)
  IN IF /\ \A i \in 1 .. Len(body) : s[i] = body[i] /\ body[i] \notin foreign
        /\ IF padded THEN pad <= 2 /\ (Len(s) = 0 \/ Len(body) > 0)
                     ELSE pad = 0 /\ Len(s) % 4 # 1
       THEN Value([i \in 1 .. Len(body) |->
                     IF body[i] \in DOMAIN Std THEN Std[body[i]] ELSE body[i]])
       ELSE Error

-----------------------------------------------------------------------------
(* parseParam. *)

ParseBytes(s) ==
  LET url == \E i \in 1 .. Len(s) : s[i] \in {"-", "_"}
  IN Decode64(s, IF url THEN {"+", "/"} ELSE {"-", "_"}, Len(s) % 4 = 0)

(* The number first, so that null is 0 for every enum; then the name. *)
ParseEnum(s) ==
  LET number == UnmarshalJSON("int32", s)
  IN IF ~number.err THEN number
     ELSE IF s \in DOMAIN EnumNumber THEN Value(EnumNumber[s]) ELSE Error

ParseScalar(kind, s) == UnmarshalJSON(kind, s)

(* quote: quotes are added unless they are there at both ends; an empty text *)
(* stays empty and a single quote stays alone, and neither is a JSON string. *)
quote(s) ==
  IF s # <<>> /\ (s[1] # Quote \/ s[Len(s)] # Quote) THEN <<Quote>> \o s \o <<Quote>> ELSE s

(* The text between the quotes, read by protojson as the message asks. *)
ParseQuoted(msg, s) ==
  CASE ~IsQuoted(quote(s)) \/ (IsQuoted(s) /\ ~IsString(s)) -> Error
    [] msg = "BytesValue" -> ParseBytes(Unquoted(quote(s)))
    [] msg = "StringValue" -> Value(Unquoted(quote(s)))
    [] OTHER -> IF Unquoted(quote(s)) \in Formats[msg] THEN Value(Unquoted(quote(s))) ELSE Error

ParseMessage(msg, s) ==
  CASE msg \in Quoted -> ParseQuoted(msg, s)
    [] msg \in DOMAIN Wraps -> UnmarshalWrapper(Wraps[msg], s)
    [] OTHER -> Error

parseParam(fds, s) ==
  LET kind == Fields[fds].kind
  IN CASE kind \in {"bool"} \cup Signed \cup Unsigned \cup Floats -> ParseScalar(kind, s)
       [] kind = "string" -> Value(s)
       [] kind = "bytes" -> ParseBytes(s)
       [] kind = "enum" -> ParseEnum(s)
       [] OTHER -> ParseMessage(kind, s)

(* fieldPath: the field the keys name, or nil. *)
fieldPath(keys) ==
  LET names == [i \in 1 .. Len(keys) |->
                  IF keys[i] \in DOMAIN FieldName THEN FieldName[keys[i]] ELSE "unknown"]
  IN IF names \in DOMAIN Fields THEN names ELSE <<>>

-----------------------------------------------------------------------------
(* params.set.  Setting a field that is a message replaces what was set     *)
(* below it; a list grows; a map is refused, and there is no way through a  *)
(* list or a map: Value.Message panics.                                     *)

Outside(m, fds) == {f \in DOMAIN m : ~IsStrictPrefix(fds, f)}

(* Mutant: a list keeps only the last value. *)
SetFieldOverwrites(m, p) ==
  [f \in Outside(m, p.fds) \cup {p.fds} |->
     IF f # p.fds THEN m[f] ELSE IF Fields[f].card = "list" THEN <<p.val>> ELSE p.val]

SetField(m, p) ==
  [f \in Outside(m, p.fds) \cup {p.fds} |->
     CASE f # p.fds -> m[f]
       [] f = p.fds /\ Fields[f].card = "list" ->
            Append(IF f \in DOMAIN m THEN m[f] ELSE <<>>, p.val)
       [] OTHER -> p.val]

(* The parameters whose field is empty belong to wildcards without a name:  *)
(* their loop has no round.                                                 *)
SetParams(ps) ==
  LET named == SelectSeq(ps, LAMBDA p : p.fds # <<>>)
      Through(f) == \E n \in 1 .. Len(f) - 1 : Fields[SubSeq(f, 1, n)].card # "one"
      bad == {i \in 1 .. Len(named) : Through(named[i].fds) \/ Fields[named[i].fds].card = "map"}
  IN CASE bad = {} -> [err |-> "nil", msg |-> FoldLeft(SetField, [f \in {} |-> {}], named)]
       [] bad # {} /\ Through(named[Min(bad)].fds) -> [err |-> "panic"]
       [] OTHER -> [err |-> "error"]

(* Mutant: only the parameters of the last key are kept. *)
parseQueryParamsLast(values, order) ==
  LET k == order[Len(order)]
      ps == [i \in 1 .. Len(values[k]) |->
               [fds |-> fieldPath(k)] @@ parseParam(fieldPath(k), values[k][i])]
  IN IF order = <<>> THEN [err |-> FALSE, ps |-> <<>>]
     ELSE IF fieldPath(k) = <<>> \/ \E i \in 1 .. Len(ps) : ps[i].err
            THEN [err |-> TRUE]
            ELSE [err |-> FALSE, ps |-> ps]

(* parseQueryParams over the keys in the order the map hands them out: the  *)
(* parameters of one key in their order, the first error ends it.           *)
parseQueryParams(values, order) ==
  LET OfKey(k) == [i \in 1 .. Len(values[k]) |->
                     [fds |-> fieldPath(k)] @@ parseParam(fieldPath(k), values[k][i])]
      ps == FlattenSeq([i \in 1 .. Len(order) |-> OfKey(order[i])])
  IN IF (\E k \in DOMAIN values : fieldPath(k) = <<>>)
        \/ \E i \in 1 .. Len(ps) : ps[i].err
       THEN [err |-> TRUE]
       ELSE [err |-> FALSE, ps |-> ps]
=============================================================================
