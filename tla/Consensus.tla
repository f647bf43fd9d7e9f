----------------------------- MODULE Consensus ------------------------------
(***************************************************************************)
(* What the election of a new controller promises: the cores that announce *)
(* a new controller all announce the same one.                             *)
(***************************************************************************)
CONSTANTS Core, Value, NoValue

VARIABLE announced  \* [Core -> Value, or NoValue before the core announces]

Init == announced = [c \in Core |-> NoValue]

Announce(c, v) ==
  /\ announced[c] = NoValue
  /\ \A d \in Core : announced[d] \in {NoValue, v}
  /\ announced' = [announced EXCEPT ![c] = v]

Next == \E c \in Core, v \in Value : Announce(c, v)

Spec == Init /\ [][Next]_announced
=============================================================================
