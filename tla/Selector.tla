------------------------------ MODULE Selector ------------------------------
(***************************************************************************)
(* The service configuration (larking/mux.go): ruleSelector knows which of *)
(* its rules belong to a method.  A selector and a name are the sequences  *)
(* of their parts between the dots.                                        *)
(*                                                                         *)
(* A node of the tree of ruleSelectors is the parts on the way down to it, *)
(* and a rule is its place in the configuration.                           *)
(***************************************************************************)
EXTENDS Integers, Sequences, SequencesExt

CONSTANTS
  Configs,  \* the selectors of service configurations
  Names     \* full names of methods

ASSUME SelectorTypes ==
  Configs \subseteq Seq(Seq(STRING) \ {<<>>}) /\ Names \subseteq Seq(STRING)

VARIABLES
  config,   \* the selectors of the configuration in use
  selected  \* the last call of setRules or getRules and what it returned

selectorVars == <<config, selected>>

-----------------------------------------------------------------------------
NoPart == ""  \* the part of an empty text

(* set goes down until it meets the end, an empty part or "*". *)
Depth(sel) ==
  Min({i \in 1 .. Len(sel) : sel[i] \in {NoPart, "*"}} \cup {Len(sel) + 1}) - 1

NodeOf(sel) == SubSeq(sel, 1, Depth(sel))

(* A "*" with anything but an empty text after it. *)
InvalidSelector(sel) ==
  LET rest == SubSeq(sel, Depth(sel) + 1, Len(sel))
  IN rest # <<>> /\ rest[1] = "*" /\ Tail(rest) \notin {<<>>, <<NoPart>>}

setRules(selectors) ==
  IF \E i \in DOMAIN selectors : InvalidSelector(selectors[i]) THEN "panic" ELSE "nil"

(* The rules of a node: set appends each one where its selector ends. *)
RulesAt(selectors, node) ==
  LET rules[i \in 0 .. Len(selectors)] ==
        CASE i = 0 -> <<>>
          [] i > 0 /\ NodeOf(selectors[i]) = node -> Append(rules[i - 1], i)
          [] OTHER -> rules[i - 1]
  IN rules[Len(selectors)]

(* Mutant: the rules of the root are left out. *)
getRulesBelow(selectors, name) ==
  LET rules[d \in 0 .. Len(name)] ==
        IF d = 0 THEN <<>> ELSE rules[d - 1] \o RulesAt(selectors, SubSeq(name, 1, d))
  IN rules[Len(name)]

(* The rules of the nodes on the way to the name, from the root down. *)
getRules(selectors, name) ==
  LET rules[d \in 0 .. Len(name)] ==
        IF d = 0 THEN RulesAt(selectors, <<>>)
        ELSE rules[d - 1] \o RulesAt(selectors, SubSeq(name, 1, d))
  IN rules[Len(name)]

-----------------------------------------------------------------------------
(* ServiceConfigOption gives the selectors to setRules, which starts anew;   *)
(* appendHandler asks for the rules of a method by its name.                 *)
ServiceConfig(c) ==
  /\ config' = IF setRules(c) = "nil" THEN c ELSE config
  /\ selected' = [op |-> "config", selectors |-> c, out |-> setRules(c)]

Select(name) ==
  /\ selected' = [op |-> "select", name |-> name, out |-> getRules(config, name)]
  /\ UNCHANGED config

SelectorInit == config = <<>> /\ selected = [op |-> "none"]

SelectorNext == (\E c \in Configs : ServiceConfig(c)) \/ (\E n \in Names : Select(n))

SelectorSpec == SelectorInit /\ [][SelectorNext]_selectorVars

-----------------------------------------------------------------------------
(* The selectors setRules is made for: no empty part, no "*" before the end.  *)
(* The comment of ruleSelector also forbids a part like "b*", which the code  *)
(* takes for a name; the comma-separated lists it speaks of the code does not *)
(* know.                                                                      *)
StarAtEnd(sel) ==
  \A i \in 1 .. Len(sel) : sel[i] # NoPart /\ (sel[i] = "*" => i = Len(sel))

(* What the comment says a pattern selects: its element, or for a "*" what    *)
(* has one or more parts in its place.                                        *)
Selects(sel, name) ==
  \/ sel = name
  \/ Last(sel) = "*" /\ IsStrictPrefix(Front(sel), name)

(* The element a selector names, or the one that encloses what it selects. *)
Named(sel) == IF Last(sel) = "*" THEN Front(sel) ELSE sel

(* Rule i comes before rule j: it is less specific, or as specific and       *)
(* earlier in the configuration.                                             *)
Before(i, j) ==
  \/ Len(Named(config[i])) < Len(Named(config[j]))
  \/ Len(Named(config[i])) = Len(Named(config[j])) /\ i < j

(* A configuration panics for a "*" before the end of a selector and for     *)
(* nothing else, empty parts aside: "foo.*.bar" of the comment is refused,   *)
(* its "foo.b*" is not.                                                      *)
InvalidPanics ==
  selected.op = "config" /\ (\A i \in DOMAIN selected.selectors :
                               \A k \in DOMAIN selected.selectors[i] :
                                 selected.selectors[i][k] # NoPart) =>
    (selected.out = "nil" <=>
       \A i \in DOMAIN selected.selectors : StarAtEnd(selected.selectors[i]))

(* A method gets the rules of the selectors that name it or what encloses it, *)
(* each once, the less specific ones first.  These are the ones the comment   *)
(* gives it and more: a selector without "*" takes all the elements below its *)
(* own too, and one with "*" its own element.                                 *)
RulesSelected ==
  selected.op = "select" /\ (\A i \in DOMAIN config : StarAtEnd(config[i])) =>
    /\ IsInjective(selected.out)
    /\ \A i \in DOMAIN config :
         /\ Selects(config[i], selected.name) => i \in Range(selected.out)
         /\ i \in Range(selected.out) <=> IsPrefix(Named(config[i]), selected.name)
    /\ \A a, b \in DOMAIN selected.out : a < b => Before(selected.out[a], selected.out[b])

(* No rule that the comment of ruleSelector gives a method is lost, and what *)
(* setRules and getRules do beyond it is as said.                            *)
SelectorsResolved == InvalidPanics /\ RulesSelected
=============================================================================
