------------------------- MODULE MCFailureDetector --------------------------
(***************************************************************************)
(* The TLC instance of FailureDetector: the four builds in three           *)
(* topologies.  Cores 0, 10 and 20 have no detector, 11 and 12 have one.   *)
(***************************************************************************)
EXTENDS FailureDetector, TLC

CONSTANTS portion

\* Controller 20; manager 12 watches its workers, 0 without work and 10.
ManagerWatches(build) ==
  [build |-> build, cores |-> {0, 10, 12, 20}, manager |-> 12,
   idag_mask |-> 0 :> 20 @@ 10 :> 20 @@ 12 :> 20 @@ 20 :> 20,
   workload |-> 0 :> NoWork @@ 10 :> portion]
\* Controller 11 and worker 12 watch each other and the manager, 10.
BothWatch(build) ==
  [build |-> build, cores |-> {10, 11, 12}, manager |-> 10,
   idag_mask |-> 10 :> 11 @@ 11 :> 11 @@ 12 :> 11,
   workload |-> 12 :> portion]
\* The only worker of manager 12 is core 0 of another cluster.
TwoClusters(build) ==
  [build |-> build, cores |-> {0, 10, 12, 20}, manager |-> 12,
   idag_mask |-> 0 :> 10 @@ 10 :> 10 @@ 12 :> 20 @@ 20 :> 20,
   workload |-> 0 :> portion]

Instances ==
  {ManagerWatches(b) : b \in Build} \cup {BothWatch(b) : b \in {"PFD", "tPFD"}}
  \cup {TwoClusters(b) : b \in Build}
=============================================================================
