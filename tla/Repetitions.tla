----------------------------- MODULE Repetitions -----------------------------
(***************************************************************************)
(* What the distribution of work promises.  An application is a number of  *)
(* repetitions of the same work.  A repetition is cut into portions, the   *)
(* portions are done in any order, and only when all of them are done does *)
(* the next repetition begin, or the application end.                      *)
(***************************************************************************)
EXTENDS Naturals

CONSTANTS
  App,    \* managers, one application each at a time
  Length, \* repetitions of an application, a positive number
  Cut     \* numbers of portions that a repetition may be cut into

VARIABLES
  left,  \* [App -> Nat], repetitions still to do, with the one under way
  todo   \* [App -> set of portions], of the repetition under way

vars == <<left, todo>>

Cuts(n) == {{[left |-> n, part |-> i] : i \in 1..k} : k \in Cut}

Init == /\ left \in [App -> {0, Length}]
        /\ todo = [m \in App |-> {}]

\* An application is given to a manager that has none.
Begin(m) == /\ left[m] = 0 /\ todo[m] = {}
            /\ left' = [left EXCEPT ![m] = Length] /\ UNCHANGED todo

\* Its first repetition is cut.
Give(m) == /\ left[m] = Length /\ todo[m] = {}
           /\ \E portions \in Cuts(Length) :
                todo' = [todo EXCEPT ![m] = portions]
           /\ UNCHANGED left

Do(m) == /\ \E p \in todo[m] : todo' = [todo EXCEPT ![m] = @ \ {p}]
         /\ UNCHANGED left

\* The last portion is done: the next repetition is cut.
Again(m) == /\ left[m] > 1 /\ todo[m] = {}
            /\ left' = [left EXCEPT ![m] = @ - 1]
            /\ \E portions \in Cuts(left[m] - 1) :
                 todo' = [todo EXCEPT ![m] = portions]

Over(m) == /\ left[m] = 1 /\ todo[m] = {}
           /\ left' = [left EXCEPT ![m] = 0] /\ UNCHANGED todo

Next == \E m \in App : Begin(m) \/ Give(m) \/ Do(m) \/ Again(m) \/ Over(m)

Spec == Init /\ [][Next]_vars
=============================================================================
