----------------------------- MODULE MCSelfOpt ------------------------------
(***************************************************************************)
(* TLC instances of SelfOpt: the topologies of its runs.                   *)
(***************************************************************************)
EXTENDS SelfOpt, TLC

CONSTANTS c0, c1, a1, a2, x1, x2, x3

\* Two clusters: a1 belongs to c1 and has x1 of c1 and x2 of c0; a2 is alone in
\* c0, whose controller counts the ends of applications; x3 of c0 is free.
PairMask == [x \in Core |-> IF x \in {c1, a1, x1} THEN c1 ELSE c0]
PairFirst == a1 :> <<a1, x1, x2>> @@ a2 :> <<a2>>
PairTargets == a1 :> {{a2}} @@ a2 :> {{a1}, {a1, c0}}
PairRounds == a1 :> 2 @@ a2 :> 1
\* Each may make one more round, or only a1 two more.
PairSpent == {a1 :> 1 @@ a2 :> 0, a1 :> 0 @@ a2 :> 1}

\* One cluster, in which a2 asks a1 and the controller while a1 asks the
\* controller: a ring.
OneMask == [x \in Core |-> c0]
OneRounds == a1 :> 1 @@ a2 :> 1
OneSpent == {a1 :> 0 @@ a2 :> 0}
RingTargets == a1 :> {{c0}} @@ a2 :> {{a1, c0}}
=============================================================================
