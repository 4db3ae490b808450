----------------------------- MODULE Negotiate ------------------------------
(***************************************************************************)
(* The Accept and Accept-Encoding headers (larking/negotiate.go), and the  *)
(* offers NewMux gives to them (larking/mux.go).                           *)
(*                                                                         *)
(* A header is a sequence of lines, a line a sequence of items.  An item   *)
(* has a value (main type and subtype, "*" for any; a value without slash  *)
(* has main type ""), what follows it (param: "none", "q" or "other"), the *)
(* quality as its first digit and its decimals, and whether a comma        *)
(* follows.  Blanks are left out.                                          *)
(***************************************************************************)
EXTENDS Integers, Sequences, SequencesExt, TLC

MaxDecimals == 3  \* a bound: HTTP gives a quality no more

AcceptItem == [main : STRING, sub : STRING, param : {"none", "q", "other"},
               q : [lead : 0 .. 9, decimals : {d \in Seq(0 .. 9) : Len(d) <= MaxDecimals}],
               comma : BOOLEAN]

(* Qualities are in thousandths. *)
expectQuality(q) ==
  LET Digit(i) == IF Len(q.decimals) >= i THEN q.decimals[i] ELSE 0
  IN IF q.lead \notin {0, 1} THEN -1
     ELSE 1000 * q.lead + 100 * Digit(1) + 10 * Digit(2) + Digit(3)

Quality(item) == IF item.param = "q" THEN expectQuality(item.q) ELSE 1000

(* An item that ends the line: it and what follows it is dropped. *)
Malformed(item) == item.param = "other" \/ Quality(item) < 0

(* The specs of a line: up to the first malformed item, or the first one     *)
(* without a comma.                                                          *)
SpecsOf(line) ==
  LET ends == {i \in 1 .. Len(line) : Malformed(line[i])}
      stops == {i \in 1 .. Len(line) : ~line[i].comma}
      n == CHOOSE n \in 0 .. Len(line) :
             /\ \A i \in ends : n < i
             /\ \A i \in stops : n <= i
             /\ n + 1 \in ends \/ n \in stops \/ n = Len(line)
  IN [i \in 1 .. n |-> [main |-> line[i].main, sub |-> line[i].sub, q |-> Quality(line[i])]]

parseAccept(lines) == FlattenSeq([i \in 1 .. Len(lines) |-> SpecsOf(lines[i])])

-----------------------------------------------------------------------------
(* A media type or an encoding. *)
Type(m, s) == [main |-> m, sub |-> s]

(* Both functions try each spec for each offer and keep the best so far. *)

BetterEncoding(best, p) ==
  IF /\ p.spec.q > best.q
     /\ [main |-> p.spec.main, sub |-> p.spec.sub] \in {Type("", "*"), p.offer}
    THEN [q |-> p.spec.q, offer |-> p.offer]
    ELSE best

Identity == [main |-> "", sub |-> "identity"]
NoEncoding == [main |-> "", sub |-> ""]

(* The inner loop tries the specs for one offer, the outer one the offers.   *)
(* (The choice is from one value: it makes TLC evaluate the argument once.)  *)
BestSpec(Better(_, _), best, offer, specs) ==
  LET after[j \in 0 .. Len(specs)] ==
        IF j = 0 THEN best
        ELSE CHOOSE b \in {Better(x, [offer |-> offer, spec |-> specs[j]]) : x \in {after[j - 1]}} :
               TRUE
  IN after[Len(specs)]

BestPair(Better(_, _), first, offers, specs) ==
  LET after[i \in 0 .. Len(offers)] ==
        IF i = 0 THEN first ELSE BestSpec(Better, after[i - 1], offers[i], specs)
  IN after[Len(offers)]

negotiateContentEncoding(lines, offers) ==
  LET best == BestPair(BetterEncoding, [q |-> -1, offer |-> Identity], offers,
                       parseAccept(lines))
  IN IF best.q = 0 THEN NoEncoding ELSE best.offer

(* How general a spec is that covers the offer, 3 if it does not. *)
Wildness(spec, offer) ==
  CASE spec.main = "*" /\ spec.sub = "*" -> 2
    [] spec.main \notin {"", "*"} /\ spec.sub = "*" -> IF spec.main = offer.main THEN 1 ELSE 3
    [] OTHER -> IF spec.main = offer.main /\ spec.sub = offer.sub THEN 0 ELSE 3

(* Mutant: a spec as good as the best so far replaces it. *)
BetterTypeLater(best, p) ==
  LET wild == Wildness(p.spec, p.offer)
  IN IF wild < 3 /\ p.spec.q # 0 /\ (p.spec.q > best.q \/ (p.spec.q = best.q /\ wild <= best.wild))
       THEN [q |-> p.spec.q, wild |-> wild, offer |-> p.offer]
       ELSE best

BetterType(best, p) ==
  LET wild == Wildness(p.spec, p.offer)
  IN IF wild < 3 /\ p.spec.q # 0 /\ (p.spec.q > best.q \/ (p.spec.q = best.q /\ wild < best.wild))
       THEN [q |-> p.spec.q, wild |-> wild, offer |-> p.offer]
       ELSE best

negotiateContentType(lines, offers, default) ==
  BestPair(BetterType, [q |-> -1, wild |-> 3, offer |-> default], offers,
           parseAccept(lines)).offer

-----------------------------------------------------------------------------
(* NewMux: the default codecs, sorted by their names; the names also serve   *)
(* as the offers of content encodings.                                       *)

JSON == Type("application", "json")
Proto == Type("application", "protobuf")
Octets == Type("application", "octet-stream")
HttpBody == Type("", "google.api.HttpBody")

codecs == JSON :> "json" @@ Proto :> "proto" @@ Octets :> "proto" @@ HttpBody :> "body"

contentTypeOffers == <<JSON, Octets, Proto, HttpBody>>

compressors == [e \in {Type("", "gzip")} |-> "gzip"]

encodingTypeOffers == contentTypeOffers

(* What the comment of negotiateContentType says: the offer whose best spec  *)
(* weighs most, of these the most specific, of these the first.              *)
BestOf(lines, offers, default) ==
  LET specs == parseAccept(lines)
      Covered(o) == {j \in 1 .. Len(specs) : specs[j].q > 0 /\ Wildness(specs[j], o) < 3}
      Beats(s, o, t, u) == \/ s.q > t.q
                           \/ s.q = t.q /\ Wildness(s, o) < Wildness(t, u)
      Best(i) == \E j \in Covered(offers[i]) :
                   \A k \in 1 .. Len(offers) : \A h \in Covered(offers[k]) :
                     /\ ~Beats(specs[h], offers[k], specs[j], offers[i])
                     /\ k < i => Beats(specs[j], offers[i], specs[h], offers[k])
  IN IF \E i \in 1 .. Len(offers) : Best(i)
       THEN offers[CHOOSE i \in 1 .. Len(offers) : Best(i)]
       ELSE default
=============================================================================
