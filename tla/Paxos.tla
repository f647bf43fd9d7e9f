------------------------------- MODULE Paxos --------------------------------
(***************************************************************************)
(* The election of a new controller by the cores of a cluster whose        *)
(* controller is suspected (paxos_signal_handlers.c, builds with a failure *)
(* detector): sig_PAXOS_INIT_handler, started by the detector's timer, and *)
(* the handlers of PREPARE_REQUEST, PREPARE_ACCEPT_NO_PREVIOUS,            *)
(* PREPARE_ACCEPT, ACCEPT_REQUEST, ACCEPTED and LEARN.  Every core of the  *)
(* cluster is acceptor and may become proposer; the old controller takes   *)
(* no part.  A core handles its signals in order (SignalQueue).  At LEARN  *)
(* a process ends: exit(0), line 591; the code after it is never reached.  *)
(*                                                                         *)
(* The replies to a proposer do not say which proposal they answer, and    *)
(* the proposer counts them: that is modelled as it is.  The value it      *)
(* proposes is the core with the highest score (leader_preference); as     *)
(* max_score and index start uninitialised, and a score may be sent        *)
(* uninitialised too, anything may come out: any value of index[c].        *)
(* The order in which signals of different cores reach a core is left      *)
(* open, as the loops that send them run side by side.                     *)
(* Bounds: only the cores of Detecting suspect the controller, in all      *)
(* MaxProposals times.  The timer is taken between two handlers.  The      *)
(* election of a new manager has no acceptors, as nothing ever fills the   *)
(* list "coworkers", and is left out.                                      *)
(***************************************************************************)
EXTENDS Integers, FiniteSets, Sequences

CONSTANTS
  Core,          \* the cores of the cluster but the controller
  CLUSTER_SIZE,  \* the controller included
  Value,         \* values that may be proposed
  index,         \* [Core -> SUBSET Value], what a core may come up with
  Detecting,     \* the cores whose detector fires
  NoValue,       \* -1
  Redetect,      \* TRUE in tPFD: the same core may be suspected again
  MaxProposals

ASSUME ClusterAssumption ==
  /\ IsFiniteSet(Core) /\ CLUSTER_SIZE \in Nat
  /\ Cardinality(Core) <= CLUSTER_SIZE
ASSUME ValueAssumption ==
  NoValue \notin Value /\ index \in [Core -> (SUBSET Value) \ {{}}]
ASSUME BoundAssumption ==
  Detecting \subseteq Core /\ Redetect \in BOOLEAN /\ MaxProposals \in Nat

VARIABLES
  running,                  \* [Core -> BOOLEAN], the process has not exited
  proposal_number_global,   \* Nat, in shared memory
  proposal_number_personal, \* [Core -> Nat, or -1 before PAXOS_INIT]
  acceptor_vars, proposer_vars,  \* [Core -> records]
  PREPARE_ACCEPT_SENT,      \* [Core -> BOOLEAN]
  SIG_LEARN_SENT,           \* [Core -> BOOLEAN]
  mail,                     \* [Core -> [Core -> Seq(signal)]], receiver, sender
  promised,                 \* promises made so far, <<acceptor, number>>,
  accepted,                 \* values accepted, <<acceptor, number, value>>, and
  announced                 \* [Core -> value of its LEARN]: not in the code

proposalVars == <<proposal_number_global, proposal_number_personal>>
sentVars == <<PREPARE_ACCEPT_SENT, SIG_LEARN_SENT, announced>>
vars == <<running, proposalVars, acceptor_vars, proposer_vars, sentVars, mail,
          promised, accepted>>

Signal ==
  [sig : {"PREPARE_REQUEST"}, n : Nat] \cup
  [sig : {"PREPARE_ACCEPT_NO_PREVIOUS"}] \cup
  [sig : {"PREPARE_ACCEPT", "ACCEPT_REQUEST"}, n : Nat, value : Value] \cup
  [sig : {"ACCEPTED", "LEARN"}, value : Value]

Init ==
  /\ running = [c \in Core |-> TRUE]
  /\ proposal_number_global = 0
  /\ proposal_number_personal = [c \in Core |-> -1]
  /\ acceptor_vars = [c \in Core |->
       [highest_proposed_n |-> -1, highest_acc_n |-> -1,
        highest_acc_value |-> NoValue]]
  /\ proposer_vars = [c \in Core |->
       [highest_replied_n |-> -1, highest_replied_value |-> NoValue,
        cores_promised |-> 0, cores_accepted |-> 0]]
  /\ PREPARE_ACCEPT_SENT = [c \in Core |-> FALSE]
  /\ SIG_LEARN_SENT = [c \in Core |-> FALSE]
  /\ mail = [c \in Core |-> [d \in Core |-> <<>>]]
  /\ promised = {} /\ accepted = {}
  /\ announced = [c \in Core |-> NoValue]
-----------------------------------------------------------------------------
majority(cores) == (cores \div 2) + 1

\* How many replies are enough.
QuorumHalf(n) == n >= CLUSTER_SIZE \div 2  \* a defect
Quorum(n) == n >= majority(CLUSTER_SIZE)

\* Is core c bound by its promise to turn number n down?
ToldHigherNever(c, n) == FALSE  \* a defect
ToldHigherOrSame(c, n) == acceptor_vars[c].highest_proposed_n >= n  \* a defect
ToldHigher(c, n) == acceptor_vars[c].highest_proposed_n > n

\* Signal s of core c goes to one core or, in a loop, to all of them; what
\* is sent to a process that has exited is dropped, as nobody reads it.
Send(box, c, t, s) ==
  IF running[t] THEN [box EXCEPT ![t][c] = Append(@, s)] ELSE box
SendAll(box, c, s) ==
  [t \in Core |-> IF running[t] THEN [box[t] EXCEPT ![c] = Append(@, s)]
                  ELSE box[t]]

\* The timer of the detector suspects the controller.  PFD does that once,
\* as faulty_core stays set; tPFD again after three more periods.
Detect(c) ==
  /\ c \in Detecting /\ running[c]
  /\ proposal_number_personal[c] = -1 \/ Redetect
  /\ proposal_number_global < MaxProposals
  /\ proposal_number_personal' =
       [proposal_number_personal EXCEPT ![c] = proposal_number_global]
  /\ proposal_number_global' = proposal_number_global + 1
  /\ mail' = SendAll(mail, c, [sig |-> "PREPARE_REQUEST",
                               n |-> proposal_number_global])
  /\ UNCHANGED <<running, acceptor_vars, proposer_vars, sentVars, promised,
                 accepted>>

\* Core c handles the oldest signal it has from core p.
Receives(c, p, sig) ==
  running[c] /\ mail[c][p] # <<>> /\ Head(mail[c][p]).sig = sig
Taken(c, p) == [mail EXCEPT ![c][p] = Tail(@)]

\* A proposal that is not newer than those seen is not answered.
Newer(c, n) == ~ ToldHigher(c, n) /\ acceptor_vars[c].highest_proposed_n # n

PrepareRequestOld(c, p) ==
  /\ Receives(c, p, "PREPARE_REQUEST")
  /\ ~ Newer(c, Head(mail[c][p]).n)
  /\ mail' = Taken(c, p)
  /\ UNCHANGED <<running, proposalVars, acceptor_vars, proposer_vars, sentVars,
                 promised, accepted>>

\* Otherwise the core promises, and tells what it has accepted.
PrepareRequest(c, p) ==
  /\ Receives(c, p, "PREPARE_REQUEST")
  /\ LET s == Head(mail[c][p])
         mine == acceptor_vars[c]
     IN  /\ Newer(c, s.n)
         /\ acceptor_vars' =
              [acceptor_vars EXCEPT ![c].highest_proposed_n = s.n]
         /\ promised' = promised \cup {<<c, s.n>>}
         /\ mail' = Send(Taken(c, p), c, p,
              IF mine.highest_acc_value = NoValue
              THEN [sig |-> "PREPARE_ACCEPT_NO_PREVIOUS"]
              ELSE [sig |-> "PREPARE_ACCEPT",
                    n |-> mine.highest_acc_n, value |-> mine.highest_acc_value])
  /\ UNCHANGED <<running, proposalVars, proposer_vars, sentVars, accepted>>

\* What a proposer does with a promise once "mine" counts it: with a majority,
\* and not before, it asks all cores to accept a value.
Promised(c, p, mine, value) ==
  IF Quorum(mine.cores_promised) /\ ~ PREPARE_ACCEPT_SENT[c]
  THEN /\ PREPARE_ACCEPT_SENT' = [PREPARE_ACCEPT_SENT EXCEPT ![c] = TRUE]
       /\ proposer_vars' = [proposer_vars EXCEPT ![c] =
                              [mine EXCEPT !.highest_replied_value = value]]
       /\ mail' = SendAll(Taken(c, p), c,
            [sig |-> "ACCEPT_REQUEST",
             n |-> proposal_number_personal[c], value |-> value])
  ELSE /\ proposer_vars' = [proposer_vars EXCEPT ![c] = mine]
       /\ mail' = Taken(c, p)
       /\ UNCHANGED PREPARE_ACCEPT_SENT

PrepareAcceptNoPrevious(c, p) ==
  /\ Receives(c, p, "PREPARE_ACCEPT_NO_PREVIOUS")
  /\ LET mine == [proposer_vars[c] EXCEPT !.cores_promised = @ + 1]
         value == mine.highest_replied_value
     IN  \E v \in IF value = NoValue THEN index[c] ELSE {value} :
           Promised(c, p, mine, v)
  /\ UNCHANGED <<running, proposalVars, acceptor_vars, SIG_LEARN_SENT,
                 announced, promised, accepted>>

\* The value of the highest number replied so far is kept.
KeepsNone(mine, s) == mine  \* a defect
Keeps(mine, s) ==
  IF s.n > mine.highest_replied_n
  THEN [mine EXCEPT !.highest_replied_n = s.n,
                    !.highest_replied_value = s.value]
  ELSE mine

PrepareAccept(c, p) ==
  /\ Receives(c, p, "PREPARE_ACCEPT")
  /\ LET mine == Keeps([proposer_vars[c] EXCEPT !.cores_promised = @ + 1],
                       Head(mail[c][p]))
     IN  Promised(c, p, mine, mine.highest_replied_value)
  /\ UNCHANGED <<running, proposalVars, acceptor_vars, SIG_LEARN_SENT,
                 announced, promised, accepted>>

AcceptRequest(c, p) ==
  /\ Receives(c, p, "ACCEPT_REQUEST")
  /\ LET s == Head(mail[c][p])
     IN  IF ToldHigher(c, s.n)
         THEN mail' = Taken(c, p) /\ UNCHANGED <<acceptor_vars, accepted>>
         ELSE /\ acceptor_vars' = [acceptor_vars EXCEPT ![c] =
                   [highest_proposed_n |-> s.n, highest_acc_n |-> s.n,
                    highest_acc_value |-> s.value]]
              /\ accepted' = accepted \cup {<<c, s.n, s.value>>}
              /\ mail' = Send(Taken(c, p), c, p,
                   [sig |-> "ACCEPTED", value |-> s.value])
  /\ UNCHANGED <<running, proposalVars, proposer_vars, sentVars, promised>>

\* Accepted by a majority: the new controller is announced, here as well.
Accepted(c, p) ==
  /\ Receives(c, p, "ACCEPTED")
  /\ LET cores == proposer_vars[c].cores_accepted + 1
         value == Head(mail[c][p]).value
     IN  /\ proposer_vars' = [proposer_vars EXCEPT ![c].cores_accepted = cores]
         /\ IF Quorum(cores) /\ ~ SIG_LEARN_SENT[c]
            THEN /\ SIG_LEARN_SENT' = [SIG_LEARN_SENT EXCEPT ![c] = TRUE]
                 /\ announced' = [announced EXCEPT ![c] = value]
                 /\ mail' = SendAll(Taken(c, p), c, [sig |-> "LEARN",
                                               value |-> value])
            ELSE mail' = Taken(c, p) /\ UNCHANGED <<SIG_LEARN_SENT, announced>>
  /\ UNCHANGED <<running, proposalVars, acceptor_vars, PREPARE_ACCEPT_SENT,
                 promised, accepted>>

\* The new controller is known and the process exits.
Learn(c, p) ==
  /\ Receives(c, p, "LEARN")
  /\ mail' = [mail EXCEPT ![c] = [d \in Core |-> <<>>]]
  /\ running' = [running EXCEPT ![c] = FALSE]
  /\ UNCHANGED <<proposalVars, acceptor_vars, proposer_vars, sentVars,
                 promised, accepted>>

Handler(c, p) ==
  \/ PrepareRequestOld(c, p) \/ PrepareRequest(c, p)
  \/ PrepareAcceptNoPrevious(c, p) \/ PrepareAccept(c, p)
  \/ AcceptRequest(c, p) \/ Accepted(c, p) \/ Learn(c, p)

Next ==
  \/ \E c \in Core : Detect(c)
  \/ \E c, p \in Core : Handler(c, p)

Spec == Init /\ [][Next]_vars

\* Every core that runs keeps handling its signals.
FairSpec == Spec /\ \A c, p \in Core : WF_vars(Handler(c, p))
-----------------------------------------------------------------------------
\* TypeOK: every variable has its type; no core is ever asked to accept
\* NoValue.
TypeOK ==
  /\ running \in [Core -> BOOLEAN]
  /\ proposal_number_global \in Nat
  /\ proposal_number_personal \in [Core -> Nat \cup {-1}]
  /\ acceptor_vars \in [Core -> [highest_proposed_n : Nat \cup {-1},
                                 highest_acc_n : Nat \cup {-1},
                                 highest_acc_value : Value \cup {NoValue}]]
  /\ proposer_vars \in [Core -> [highest_replied_n : Nat \cup {-1},
                                 highest_replied_value : Value \cup {NoValue},
                                 cores_promised : Nat, cores_accepted : Nat]]
  /\ PREPARE_ACCEPT_SENT \in [Core -> BOOLEAN]
  /\ SIG_LEARN_SENT \in [Core -> BOOLEAN]
  /\ mail \in [Core -> [Core -> Seq(Signal)]]
  /\ promised \subseteq Core \X Nat /\ accepted \subseteq Core \X Nat \X Value
  /\ announced \in [Core -> Value \cup {NoValue}]

\* Agreement: however many cores suspect the controller at the same time,
\* whatever they propose and in whatever order their signals are handled, all
\* LEARN signals name the same new controller: the election implements
\* Consensus.
C == INSTANCE Consensus
Agreement == C!Spec

\* PromisedByMajority: a proposer asks the cores to accept only with the
\* promise of a majority for the very number it uses ("Received reply from
\* majority", line 286), although the replies it counts carry no number.
PromisedByMajority ==
  \A c, p \in Core : \A i \in DOMAIN mail[c][p] :
    LET s == mail[c][p][i]
    IN  s.sig = "ACCEPT_REQUEST" =>
          Cardinality({d \in Core : <<d, s.n>> \in promised}) >=
            majority(Cardinality(Core))

\* OneValue: two cores that accepted for the same number accepted the same
\* value, and one that accepts keeps to what it promised.
OneValue ==
  /\ \A c, d \in Core :
       acceptor_vars[c].highest_acc_n = acceptor_vars[d].highest_acc_n =>
         acceptor_vars[c].highest_acc_value = acceptor_vars[d].highest_acc_value
  /\ \A p \in promised : acceptor_vars[p[1]].highest_proposed_n >= p[2]

\* Elects: once the controller is suspected somewhere, a new one is announced
\* in the end, although a proposer that is turned down never tries again.
Elects ==
  (\E c \in Core : proposal_number_personal[c] # -1) ~>
    \E c \in Core : SIG_LEARN_SENT[c]
=============================================================================
