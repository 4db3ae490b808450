------------------------------ MODULE Registry ------------------------------
(***************************************************************************)
(* What the registry of larking.Mux promises to the requests: every owner  *)
(* (a connection, or a service of the program) answers a set of methods.   *)
(* A registration replaces the set of one owner by a complete set of that  *)
(* owner in one step, and touches no other owner.  A registration that     *)
(* fails changes nothing.                                                  *)
(***************************************************************************)
CONSTANTS Owners,    \* connections and services
          Complete   \* per owner, the sets of methods it may offer

VARIABLE serving     \* the methods each owner answers

Init == serving = [o \in Owners |-> {}]

Register(o) ==
  \E ms \in Complete[o] : serving' = [serving EXCEPT ![o] = ms]

Next == \E o \in Owners : Register(o)

Spec == Init /\ [][Next]_serving
=============================================================================
