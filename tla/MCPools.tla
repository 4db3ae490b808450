------------------------------- MODULE MCPools -------------------------------
(***************************************************************************)
(* Instance of Pools: a receiving gRPC stream, two sending ones, and       *)
(* requests with compressed bodies.                                        *)
(***************************************************************************)
EXTENDS Pools, TLC

(* Two messages for each reader, one for each writer: every kind of object   *)
(* is used, put back and used again by somebody else.                        *)
MCMaxRounds == [u \in Users |-> IF u \in Senders THEN 1 ELSE 2]

Symmetry == Permutations(Objects) \cup Permutations(Senders)
=============================================================================
