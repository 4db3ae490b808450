------------------------------ MODULE RuleTree ------------------------------
(***************************************************************************)
(* The HTTP rule tree of larking/rules.go: type path, addRule, delRule,    *)
(* alive and the search that routes a request.                             *)
(*                                                                         *)
(* A *path tree is written as the set of its entries.  An entry says that  *)
(* the node reached from the root by the keys `node' holds a method: in    *)
(* `methods[verb]', or in `methodAll' when the verb is All.  The nodes of  *)
(* the tree are the prefixes of the entries' nodes: addRule leaves a node  *)
(* without entry only in a clone that is thrown away, and delRule prunes.  *)
(*                                                                         *)
(* A key is a literal segment, or a variable: Star for "*" and {field},    *)
(* StarStar for "**".  Variables over several segments, verbs ":verb" and  *)
(* the conversion of captured values are not part of this module.          *)
(***************************************************************************)
EXTENDS Naturals, Sequences, SequencesExt

All == "*"          \* the kind "*", kept in methodAll
Star == "*"         \* the variable that captures one segment
StarStar == "**"    \* the variable that captures the rest of the path

Nodes == Seq(STRING)

(* Where a key stands in a node's search order: the segments of the map    *)
(* first, in any order, then the variables sorted by name ("*" < "**").    *)
Rank(key) == CASE key = Star -> 1 [] key = StarStar -> 2 [] OTHER -> 0

(* Node a is visited before node b because of the first key they differ in. *)
Precedes(a, b) ==
  \E i \in 1 .. Len(a) : /\ i <= Len(b)
                         /\ SubSeq(a, 1, i - 1) = SubSeq(b, 1, i - 1)
                         /\ Rank(a[i]) < Rank(b[i])

-----------------------------------------------------------------------------
(* addRule.  A binding is one pattern of an HttpRule: its node, its verb,  *)
(* how its text fails to compile (`err': "template" when the lexer or a    *)
(* path field refuses it, "body" when the body field is unknown, which is  *)
(* noticed only after the lookup), and the number of additional bindings   *)
(* that follow it in the same rule.                                        *)

MethodsAt(t, b) == {e \in t : e.node = b.node /\ e.verb = b.verb /\ e.verb # All}

MethodAllAt(t, b) == {e \in t : e.node = b.node /\ e.verb = All}

(* Mutant: the lookup of an existing method is dropped. *)
AddRuleOutcomeOverwrites(t, b, m) == IF b.err = "none" THEN "added" ELSE "error"

(* What the call of addRule does with its own pattern.  The condition      *)
(* `ok || cursor.methodAll != nil' reads y.desc even when only methodAll   *)
(* is set: y is then nil and the call panics.                              *)
AddRuleOutcome(t, b, m) ==
  CASE b.err = "template" -> "error"
    [] b.err # "template" /\ MethodsAt(t, b) # {} ->
         IF \A e \in MethodsAt(t, b) : e.method = m THEN "already" ELSE "error"
    [] b.err # "template" /\ MethodsAt(t, b) = {} /\ MethodAllAt(t, b) # {} -> "panic"
    [] OTHER -> IF b.err = "body" THEN "error" ELSE "added"

Entry(b, m) == [node |-> b.node, verb |-> b.verb, method |-> m]

-----------------------------------------------------------------------------
(* delRule.  Depth first, segments before variables before the node's own  *)
(* methods, it deletes the first entry of the method and returns; methodAll *)
(* is never looked at.  On the way up a node that is not alive is unlinked. *)

Candidates(t, m) == {e \in t : e.method = m /\ e.verb # All}

FirstVisited(t, m) ==
  {e \in Candidates(t, m) :
     \A f \in Candidates(t, m) : /\ ~IsStrictPrefix(e.node, f.node)
                                 /\ ~Precedes(f.node, e.node)}

(* After a deletion at node n, its prefix a is not alive: nothing is left  *)
(* below or at a but the way down to n, with no entry except methodAll     *)
(* (which alive() does not count).                                         *)
NotAlive(t, n, a) ==
  \A e \in t : IsPrefix(a, e.node) => e.verb = All /\ IsPrefix(e.node, n)

Unlinked(t, n) ==
  {a \in {SubSeq(n, 1, i) : i \in 1 .. Len(n)} : NotAlive(t, n, a)}

Pruned(t, n) ==
  {e \in t : \A a \in Unlinked(t, n) : ~IsPrefix(a, e.node)}

(* The trees delRule may leave (the order of a Go map is random). *)
DelRule(t, m) ==
  IF Candidates(t, m) = {}
    THEN {t}
    ELSE {Pruned(t \ {e}, e.node) : e \in FirstVisited(t, m)}

-----------------------------------------------------------------------------
(* search.  Depth first preferring segments over variables; a node that    *)
(* has no method for the verb is an error the search backs out of.         *)

CoversRoute(n, route) ==
  \/ /\ Len(n) = Len(route)
     /\ \A i \in 1 .. Len(n) : n[i] = route[i] \/ n[i] = Star
  \/ /\ n # <<>> /\ Len(n) <= Len(route)
     /\ n[Len(n)] = StarStar
     /\ \A i \in 1 .. Len(n) - 1 : n[i] = route[i] \/ n[i] = Star

Matching(t, route, verb) ==
  {e \in t : CoversRoute(e.node, route) /\ e.verb \in {verb, All}}

(* The entries whose way down captures a value. *)
Capturing(t) == {e \in t : \E i \in 1 .. Len(e.node) : e.node[i] \in {Star, StarStar}}

(* The entry search returns, as a set that is empty when it finds none.    *)
Search(t, route, verb) ==
  {e \in Matching(t, route, verb) :
     \A f \in Matching(t, route, verb) :
        /\ ~Precedes(f.node, e.node)
        /\ f.node = e.node => (f.verb = All \/ e.verb = verb)}
=============================================================================
