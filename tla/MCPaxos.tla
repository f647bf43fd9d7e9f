------------------------------ MODULE MCPaxos -------------------------------
(***************************************************************************)
(* TLC instances of Paxos.                                                 *)
(***************************************************************************)
EXTENDS Paxos, TLC

CONSTANTS p1, p2, p3, v1, v2

\* The cores that may propose come up with different values.
TwoValues == p1 :> {v1} @@ p2 :> {v2} @@ p3 :> {v1, v2}
=============================================================================
