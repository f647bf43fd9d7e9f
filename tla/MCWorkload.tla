----------------------------- MODULE MCWorkload -----------------------------
(***************************************************************************)
(* TLC instances of Workload: the situations its runs begin with.          *)
(***************************************************************************)
EXTENDS Workload, TLC

CONSTANTS a, b, x, y

\* Two managers, one without workers, and two offers between them.
Exchange == [first |-> a :> <<x, y>> @@ b :> <<>>, free |-> {},
             offers |-> 2, apps |-> 0]
\* A worker is offered to the initial core of a new application.
Founding == [first |-> a :> <<x, y>>, free |-> {}, offers |-> 2, apps |-> 1]
\* The new application may have a free core, or the manager.
Growing == [first |-> a :> <<x>>, free |-> {y}, offers |-> 1, apps |-> 1]

All == {Exchange, Founding, Growing}
FoundingOnly == {Founding}
Both == {[Exchange EXCEPT !.apps = 1]}
=============================================================================
