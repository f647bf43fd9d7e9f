----------------------------- MODULE SignalQueue ----------------------------
(***************************************************************************)
(* What the signal lists of SignalList promise: every core has one FIFO    *)
(* queue of signals; a sender appends to it, the owner handles the signal  *)
(* at its head and removes it when the handler is over.  Nothing is lost,  *)
(* duplicated, reordered or torn.                                          *)
(***************************************************************************)
EXTENDS Sequences

CONSTANTS Node, Signal

VARIABLES
  queue,     \* [Node -> Seq(Signal)], signals not handled yet, oldest first
  handling   \* [Node -> the signal whose handler runs, a sequence, or <<>>]

vars == <<queue, handling>>

Init ==
  /\ queue = [n \in Node |-> <<>>]
  /\ handling = [n \in Node |-> <<>>]

Put(n, signal) ==
  /\ queue' = [queue EXCEPT ![n] = Append(@, signal)]
  /\ UNCHANGED handling

Take(n) ==
  /\ handling[n] = <<>> /\ queue[n] # <<>>
  /\ handling' = [handling EXCEPT ![n] = <<Head(queue[n])>>]
  /\ UNCHANGED queue

Finish(n) ==
  /\ handling[n] # <<>>
  /\ handling' = [handling EXCEPT ![n] = <<>>]
  /\ queue' = [queue EXCEPT ![n] = Tail(@)]

Next ==
  \E n \in Node :
    (\E signal \in Signal : Put(n, signal)) \/ Take(n) \/ Finish(n)

Spec == Init /\ [][Next]_vars
=============================================================================
