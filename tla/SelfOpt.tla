------------------------------ MODULE SelfOpt ------------------------------
(***************************************************************************)
(* How the managers (agents) of running applications trade cores with each *)
(* other and with the controllers, and how the controllers keep book:      *)
(* self-optimisation (AGENT_SELF_OPT .. AGENT_SELF_CHK_OFFERS), the signal *)
(* handlers REQ_CORES, REP_OFFERS, ACK, REJECT, ADD_CORES_DDS,             *)
(* REM_CORES_DDS and FINISH, the queues of interactions per peer, and the  *)
(* end of an application (AGENT_ENDING, AGENT_ZOMBIE).                     *)
(*                                                                         *)
(* A node handles its signals one by one, in the order they arrived        *)
(* (SignalQueue).  A handler that sends SIG_ACK and then waits for data    *)
(* (sem_wait on flag_data_written) blocks the whole node until the peer    *)
(* has handled the ACK; only the timer signal still gets through.          *)
(*                                                                         *)
(* Left out: the start of applications (INIT_* states), the work of the    *)
(* worker cores, and the discovery of targets (any set in Targets may be   *)
(* found).  Which cores an offer has depends on speedup models, distances  *)
(* and work in progress: any subset of the candidates may be offered.      *)
(* scc_signals_check drains the list of a node; here the program of the    *)
(* node may go on between any two signals, which allows more behaviours.   *)
(* Bounds: MaxRounds self-optimisation rounds per agent (selfopt_interval  *)
(* doubles each round and stops the rounds past Max_SelfOpt_Interval_MS);  *)
(* only the applications of Finishing end.                                 *)
(***************************************************************************)
EXTENDS Integers, Sequences, FiniteSets, SequencesExt

CONSTANTS
  Controller,  \* nodes with my_idag = -1
  Agent,       \* nodes that manage an application at the start
  Worker,      \* the remaining cores; they take no part themselves
  Zero,        \* the controller that counts ended applications
  idag_mask,   \* [Core -> Controller], the cluster of a core
  FirstCores,  \* [Agent -> Seq(Core)], my_cores at the start, agent first
  Targets,     \* [Agent -> sets of nodes that discovery may find]
  MaxRounds,   \* [Agent -> Nat]
  Spent,       \* functions [Agent -> Nat]: the rounds made before the start
  Finishing,   \* agents whose application may end
  NotOffered, Elsewhere  \* -1 and -2 in offered_to

Node == Controller \cup Agent
Core == Node \cup Worker

ASSUME ClusterAssumption ==
  /\ Controller \cap Agent = {} /\ {NotOffered, Elsewhere} \cap Node = {}
  /\ NotOffered # Elsewhere /\ IsFiniteSet(Core)
  /\ Zero \in Controller
  /\ idag_mask \in [Core -> Controller]
  /\ \A c \in Controller : idag_mask[c] = c
ASSUME StartAssumption ==
  /\ \A a \in Agent : FirstCores[a] \in Seq(Core) /\ FirstCores[a] # <<>>
                        /\ Head(FirstCores[a]) = a
  /\ \A a, b \in Agent : \A i \in DOMAIN FirstCores[a], j \in DOMAIN FirstCores[b] :
       FirstCores[a][i] = FirstCores[b][j] => a = b /\ i = j
  /\ \A a \in Agent : Targets[a] \subseteq SUBSET (Node \ {a})
  /\ MaxRounds \in [Agent -> Nat]
  /\ \A spent \in Spent : /\ DOMAIN spent = Agent
                          /\ \A a \in Agent : spent[a] \in 0..MaxRounds[a]
  /\ Finishing \subseteq Agent
ASSUME WorkerAssumption ==
  \A a \in Agent : Range(FirstCores[a]) \cap Controller = {}

VARIABLES
  state, pending_state, app_state,  \* [Agent -> names of structs.h]
  my_cores,        \* [Agent -> Seq([core, offered_to])]
  my_cores_count,  \* [Agent -> Nat]
  book,            \* [Controller -> book, see DDS]
  inter,           \* [Node -> [Node -> Seq(interaction)]], core_inter_head
  mail,            \* [Node -> Seq(signal)], signals not handled yet
  waiting,         \* [Node -> signal whose handler is in sem_wait, or none]
  data,            \* [Node -> Seq], data areas written and not consumed
  selfopt_offers,  \* [Agent -> Seq([sender, cores])], selfopt_man_offers
  timer,           \* [Agent -> BOOLEAN], the timer is armed
  asking,          \* [Agent -> BOOLEAN], discovery of a round not finished
  leaving,         \* [Agent -> BOOLEAN], IDLE_AGENT between its first line
                   \* and the one that stops the timer
  rounds,          \* [Agent -> Nat]
  num_apps_terminated  \* Nat, kept by Zero

agentVars == <<state, pending_state, app_state, my_cores, my_cores_count,
               selfopt_offers, timer, asking, leaving, rounds>>
netVars == <<inter, mail, waiting, data>>
vars == <<agentVars, netVars, book, num_apps_terminated>>

B == INSTANCE DDS
-----------------------------------------------------------------------------
\* Lists of cores.
Cores(a) == {my_cores[a][i].core : i \in DOMAIN my_cores[a]}
Offered(a) == {i \in DOMAIN my_cores[a] :
                 my_cores[a][i].offered_to # NotOffered}
Entries(cores) ==
  [i \in DOMAIN cores |-> [core |-> cores[i], offered_to |-> NotOffered]]

\* The entries of a list whose cores are not given away, in their order.
Without(list, cores) ==
  LET left == {i \in DOMAIN list : list[i].core \notin cores}
      order == CHOOSE f \in [1..Cardinality(left) -> left] :
                 \A i, j \in DOMAIN f : i < j => f[i] < f[j]
  IN  [i \in DOMAIN order |-> list[order[i]]]

\* The cores of cluster c nobody has an application on at the start.
FreeAtStart(c) ==
  {x \in Core \ {c} : idag_mask[x] = c} \
    UNION {Range(FirstCores[a]) : a \in Agent}

HolderAtStart(x) == CHOOSE a \in Agent : x \in Range(FirstCores[a])

BookAtStart(c) ==
  LET own == {x \in Core \ {c} : idag_mask[x] = c}
      held(a) == {x \in own : x \in Range(FirstCores[a])}
  IN  [offered_to |-> [x \in own |-> IF x \in FreeAtStart(c) THEN NotOffered
                                     ELSE HolderAtStart(x)],
       free |-> Cardinality(FreeAtStart(c)),
       dds |-> [a \in {b \in Agent : held(b) # {}} |-> Cardinality(held(a))]]

NoSignal == [from |-> NotOffered, msg |-> [sig |-> "none"]]

Init ==
  /\ rounds \in Spent
  /\ state = [a \in Agent |-> IF rounds[a] < MaxRounds[a]
                              THEN "AGENT_SELF_OPT" ELSE "IDLE_AGENT"]
  /\ pending_state = [a \in Agent |-> "NO_PENDING_STATE"]
  /\ app_state = [a \in Agent |-> "RUNNING"]
  /\ my_cores = [a \in Agent |-> Entries(FirstCores[a])]
  /\ my_cores_count = [a \in Agent |-> Len(FirstCores[a])]
  /\ book = [c \in Controller |-> BookAtStart(c)]
  /\ inter = [n \in Node |-> [p \in Node |-> <<>>]]
  /\ mail = [n \in Node |-> <<>>]
  /\ waiting = [n \in Node |-> NoSignal]
  /\ data = [n \in Node |-> <<>>]
  /\ selfopt_offers = [a \in Agent |-> <<>>]
  /\ timer = [a \in Agent |-> FALSE]
  /\ asking = [a \in Agent |-> FALSE]
  /\ leaving = [a \in Agent |-> FALSE]
  /\ num_apps_terminated = 0
-----------------------------------------------------------------------------
\* The network part of a step: interaction queues and signals, as one value
\* that the calls of a handler transform one after the other.
Net == [inter |-> inter, mail |-> mail]

Becomes(net) == inter' = net.inter /\ mail' = net.mail

\* scc_kill: signal s from n is appended to the list of t.
Send(net, n, t, s) ==
  [net EXCEPT !.mail[t] = Append(@, [from |-> n, msg |-> s])]

\* The signal scc_kill builds from an interaction that send_next_signal sends.
SignalOf(x) ==
  CASE x.type = "SELFOPT_REQ_CORES_PENDING" ->
         [sig |-> "REQ_CORES", body |-> "request"]
    [] x.type = "REP_AGENT_REQ_CORES" ->
         [sig |-> "REQ_CORES", body |-> "offers", some |-> x.cores # {}]
    [] x.type = "REP_AGENT_OFFER_SENT" ->
         [sig |-> "REP_OFFERS", answer |-> x.answer]
    [] x.type = "IDAG_ADD_CORES_DDS" ->
         [sig |-> "ADD_CORES_DDS", cores |-> x.cores, agent |-> x.agent]
    [] x.type = "IDAG_REM_CORES_DDS" ->
         [sig |-> "REM_CORES_DDS", cores |-> x.cores, old |-> x.old,
          new |-> x.new]
    [] x.type = "REMOVE_APP" ->
         [sig |-> "FINISH", cores |-> x.cores, agent |-> x.agent]

\* send_next_signal leaves an interaction that is not of these types alone.
SendsWhenNext == {"SELFOPT_REQ_CORES_PENDING", "REP_AGENT_REQ_CORES",
                  "IDAG_ADD_CORES_DDS", "IDAG_REM_CORES_DDS", "REMOVE_APP"}

\* A new interaction with p goes to the end of the queue, and its signal is
\* sent at once if it is alone there.
Post(net, n, p, x) ==
  LET queued == [net EXCEPT !.inter[n][p] = Append(@, x)]
  IN  IF net.inter[n][p] = <<>> THEN Send(queued, n, p, SignalOf(x))
      ELSE queued

\* The interaction at the head is over and the next one is sent (PopSilent
\* forgets that, a defect for the mutation runs).
PopSilent(net, n, p) == [net EXCEPT !.inter[n][p] = Tail(@)]
Pop(net, n, p) ==
  LET rest == Tail(net.inter[n][p])
      popped == [net EXCEPT !.inter[n][p] = rest]
  IN  IF rest # <<>> /\ Head(rest).type \in SendsWhenNext
      THEN Send(popped, n, p, SignalOf(Head(rest)))
      ELSE popped

\* A new interaction with several nodes, and its signal where it is alone
\* (PostAllAlways does not look, a defect for the mutation runs).
PostAllAlways(net, n, items) ==
  [inter |-> [net.inter EXCEPT ![n] = [p \in Node |->
                IF p \in DOMAIN items THEN Append(@[p], items[p]) ELSE @[p]]],
   mail |-> [p \in Node |->
               IF p \in DOMAIN items
               THEN Append(net.mail[p], [from |-> n, msg |-> SignalOf(items[p])])
               ELSE net.mail[p]]]
PostAll(net, n, items) ==
  [inter |-> [net.inter EXCEPT ![n] = [p \in Node |->
                IF p \in DOMAIN items THEN Append(@[p], items[p]) ELSE @[p]]],
   mail |-> [p \in Node |->
               IF p \in DOMAIN items /\ net.inter[n][p] = <<>>
               THEN Append(net.mail[p], [from |-> n, msg |-> SignalOf(items[p])])
               ELSE net.mail[p]]]

Rehead(net, n, p, x) == [net EXCEPT !.inter[n][p] = <<x>> \o Tail(@)]

\* The type of the interaction at the head of n's queue for p.
HeadType(n, p) == IF inter[n][p] = <<>> THEN "none" ELSE Head(inter[n][p]).type

Ack == [sig |-> "ACK"]
Reject == [sig |-> "REJECT"]
-----------------------------------------------------------------------------
\* The program of a manager between signals: the states of common_core.c.
Free(a) == waiting[a] = NoSignal /\ ~ leaving[a]

\* A round starts; discovery of the targets (not modelled) is under way.
SelfOptStart(a) ==
  /\ state[a] = "AGENT_SELF_OPT" /\ Free(a)
  /\ IF app_state[a] = "APP_TERMINATED"
     THEN /\ state' = [state EXCEPT ![a] = "AGENT_ENDING"]
          /\ UNCHANGED <<asking, rounds>>
     ELSE /\ state' = [state EXCEPT ![a] = "IDLE_AGENT_WAITING_OFF"]
          /\ asking' = [asking EXCEPT ![a] = TRUE]
          /\ rounds' = [rounds EXCEPT ![a] = @ + 1]
  /\ UNCHANGED <<pending_state, app_state, my_cores, my_cores_count,
                 selfopt_offers, timer, leaving, netVars, book,
                 num_apps_terminated>>

\* The last reply of the controllers: every target is asked for cores, and
\* the timer limits how long offers are waited for.
DiscoveryDone(a) ==
  /\ asking[a] /\ waiting[a] = NoSignal
  /\ \E targets \in Targets[a] :
       Becomes(PostAll(Net, a, [t \in targets |->
                                  [type |-> "SELFOPT_REQ_CORES_PENDING"]]))
  /\ asking' = [asking EXCEPT ![a] = FALSE]
  /\ timer' = [timer EXCEPT ![a] = TRUE]
  /\ state' = [state EXCEPT ![a] = "IDLE_AGENT_WAITING_OFF"]
  /\ UNCHANGED <<pending_state, app_state, my_cores, my_cores_count,
                 selfopt_offers, leaving, rounds, waiting, data, book,
                 num_apps_terminated>>

\* sig_TIMER_handler interrupts the program, a waiting handler included.
TimerState(s) ==
  CASE s = "IDLE_AGENT_WAITING_OFF" -> "AGENT_SELF_CHK_OFFERS"
    [] s = "IDLE_AGENT" -> "AGENT_SELF_OPT"
    [] s = "AGENT_ZOMBIE" -> "INIT_MAN_CHK_OFFERS"
    [] OTHER -> s
TimerPending(s, pending) ==
  CASE s = "AGENT_ENDING" -> "INIT_MAN_CHK_OFFERS"
    [] s = "AGENT_ZOMBIE" -> "AGENT_ZOMBIE"
    [] OTHER -> pending

Timer(a) ==
  /\ timer[a]
  /\ timer' = [timer EXCEPT ![a] = FALSE]
  /\ state' = [state EXCEPT ![a] = TimerState(@)]
  /\ pending_state' =
       [pending_state EXCEPT ![a] = TimerPending(state[a], @)]
  /\ UNCHANGED <<app_state, my_cores, my_cores_count, selfopt_offers, asking,
                 leaving, rounds, netVars, book, num_apps_terminated>>

\* The first offer of the list is taken, unless the application is over.
Accepts(a) == selfopt_offers[a] # <<>> /\ app_state[a] # "APP_TERMINATED"
Answer(a, p) ==
  IF Accepts(a) /\ p = Head(selfopt_offers[a]).sender THEN 1 ELSE 0

\* An offer is answered once, if its interaction still waits for that.
Unanswered(a) ==
  {p \in Node : /\ HeadType(a, p) = "REP_AGENT_OFFER_PENDING"
                /\ \E offer \in Range(selfopt_offers[a]) : offer.sender = p}

AnswerOffers(net, a) ==
  LET reply(p) == [type |-> "REP_AGENT_OFFER_SENT", answer |-> Answer(a, p)]
  IN  [inter |-> [net.inter EXCEPT ![a] = [p \in Node |->
                    IF p \in Unanswered(a) THEN <<reply(p)>> \o Tail(@[p])
                    ELSE @[p]]],
       mail |-> [p \in Node |->
                   IF p \in Unanswered(a)
                   THEN Append(net.mail[p], [from |-> a, msg |-> SignalOf(reply(p))])
                   ELSE net.mail[p]]]

\* The offers are looked at: the first one is accepted and its cores become
\* the manager's, which the controller is told, and all are answered.
SelfChkOffers(a) ==
  /\ state[a] = "AGENT_SELF_CHK_OFFERS" /\ Free(a)
  /\ LET offers == selfopt_offers[a]
         taken == IF Accepts(a) THEN Head(offers).cores ELSE {}
         told == IF ~ Accepts(a) THEN Net
                 ELSE Post(Net, a, idag_mask[a],
                           [type |-> "IDAG_ADD_CORES_DDS", cores |-> taken,
                            agent |-> a])
     IN  /\ Becomes(AnswerOffers(told, a))
         /\ my_cores' = [my_cores EXCEPT ![a] =
                           @ \o Entries(SetToSeq(taken))]
         /\ my_cores_count' =
              [my_cores_count EXCEPT ![a] = @ + Cardinality(taken)]
  /\ selfopt_offers' = [selfopt_offers EXCEPT ![a] = <<>>]
  /\ IF app_state[a] = "APP_TERMINATED"
     THEN /\ state' = [state EXCEPT ![a] = "AGENT_ENDING"]
          /\ UNCHANGED timer
     ELSE /\ state' = [state EXCEPT ![a] = "IDLE_AGENT"]
          /\ \E armed \in {FALSE} \cup {rounds[a] < MaxRounds[a]} :
               timer' = [timer EXCEPT ![a] = armed]
  /\ UNCHANGED <<pending_state, app_state, asking, leaving, rounds, waiting,
                 data, book, num_apps_terminated>>

\* The last worker of the last repetition finished.
AppFinishes(a) ==
  /\ a \in Finishing /\ app_state[a] = "RUNNING" /\ waiting[a] = NoSignal
  /\ Len(my_cores[a]) > 1
  /\ app_state' = [app_state EXCEPT ![a] = "APP_TERMINATED"]
  /\ UNCHANGED <<state, pending_state, my_cores, my_cores_count,
                 selfopt_offers, timer, asking, leaving, rounds, netVars, book,
                 num_apps_terminated>>

\* IDLE_AGENT with the application over: the first line of the iteration sets
\* AGENT_ENDING, signals are handled, then the timer is stopped.
LeaveAtTop(a) ==
  /\ state[a] = "IDLE_AGENT" /\ Free(a) /\ app_state[a] = "APP_TERMINATED"
  /\ state' = [state EXCEPT ![a] = "AGENT_ENDING"]
  /\ leaving' = [leaving EXCEPT ![a] = TRUE]
  /\ UNCHANGED <<pending_state, app_state, my_cores, my_cores_count,
                 selfopt_offers, timer, asking, rounds, netVars, book,
                 num_apps_terminated>>

\* The same when the application ended while the signals were handled.
Leave(a) ==
  /\ waiting[a] = NoSignal
  /\ \/ leaving[a]
     \/ state[a] = "IDLE_AGENT" /\ app_state[a] = "APP_TERMINATED"
  /\ timer' = [timer EXCEPT ![a] = FALSE]
  /\ state' = [state EXCEPT ![a] = "AGENT_ENDING"]
  /\ leaving' = [leaving EXCEPT ![a] = FALSE]
  /\ UNCHANGED <<pending_state, app_state, my_cores, my_cores_count,
                 selfopt_offers, asking, rounds, netVars, book,
                 num_apps_terminated>>

\* A defect for the mutation runs: the end is told when its core turns into a
\* zombie, and again when the zombie leaves.
TellZeroZombie(net, a, next_state) ==
  IF idag_mask[a] # Zero
  THEN Send(net, a, Zero, [sig |-> "APP_TERMINATED"]) ELSE net

\* SIG_APP_TERMINATED goes to core 0 unless that is the own controller, which
\* counts SIG_FINISH, or the manager stays on as a zombie.
TellZero(net, a, next_state) ==
  IF idag_mask[a] # Zero /\ next_state # "AGENT_ZOMBIE"
  THEN Send(net, a, Zero, [sig |-> "APP_TERMINATED"]) ELSE net

InitCoreStates == {"INIT_MAN_CHK_OFFERS", "INIT_MANAGER_SEND_OFFERS"}

\* AGENT_ENDING with cores still on offer: the manager waits for the answers.
AgentZombie(a) ==
  /\ state[a] = "AGENT_ENDING" /\ Free(a) /\ my_cores[a] # <<>>
  /\ Offered(a) \ {1} # {}
  /\ LET next_state == IF pending_state[a] \in InitCoreStates
                       THEN pending_state[a] ELSE "AGENT_ZOMBIE"
     IN  /\ state' = [state EXCEPT ![a] = next_state]
         /\ Becomes(TellZero(Net, a, next_state))
  /\ pending_state' = [pending_state EXCEPT ![a] =
                         IF @ \in InitCoreStates THEN "NO_PENDING_STATE" ELSE @]
  /\ UNCHANGED <<app_state, my_cores, my_cores_count, selfopt_offers, timer,
                 asking, leaving, rounds, waiting, data, book,
                 num_apps_terminated>>

\* AGENT_ENDING with no core on offer: the cores go back.
AgentEnds(a) ==
  /\ state[a] = "AGENT_ENDING" /\ Free(a) /\ my_cores[a] # <<>>
  /\ Offered(a) \ {1} = {}
  /\ LET next_state == IF pending_state[a] \in InitCoreStates
                       THEN pending_state[a] ELSE "IDLE_CORE"
     IN  /\ state' = [state EXCEPT ![a] = next_state]
         /\ Becomes(TellZero(
              Post(Net, a, idag_mask[a],
                   [type |-> "REMOVE_APP", cores |-> Cores(a), agent |-> a]),
              a, next_state))
  /\ pending_state' = [pending_state EXCEPT ![a] =
                         IF @ \in InitCoreStates THEN "NO_PENDING_STATE" ELSE @]
  /\ my_cores' = [my_cores EXCEPT ![a] = <<>>]
  /\ app_state' = [app_state EXCEPT ![a] = "NO_APP"]
  /\ UNCHANGED <<my_cores_count, selfopt_offers, timer, asking, leaving,
                 rounds, waiting, data, book, num_apps_terminated>>

\* INIT_MAN_CHK_OFFERS without offers, which a manager that is no initial
\* core reaches through the timer.  INIT_MANAGER_SEND_OFFERS looks for cores
\* for the application init_app; what follows is not in this module.
InitManChkOffers(a) ==
  /\ state[a] = "INIT_MAN_CHK_OFFERS" /\ Free(a)
  /\ IF app_state[a] = "APP_TERMINATED"
     THEN /\ state' = [state EXCEPT ![a] = "AGENT_ENDING"]
          /\ pending_state' =
               [pending_state EXCEPT ![a] = "INIT_MANAGER_SEND_OFFERS"]
     ELSE /\ state' = [state EXCEPT ![a] = "INIT_MANAGER_SEND_OFFERS"]
          /\ UNCHANGED pending_state
  /\ UNCHANGED <<app_state, my_cores, my_cores_count, selfopt_offers, timer,
                 asking, leaving, rounds, netVars, book, num_apps_terminated>>
-----------------------------------------------------------------------------
\* Signal handlers: node n takes the oldest signal of its list.
Receives(n, sig) ==
  waiting[n] = NoSignal /\ mail[n] # <<>> /\ Head(mail[n]).msg.sig = sig

Peer(n) == Head(mail[n]).from
Taken(n) == [Net EXCEPT !.mail[n] = Tail(@)]
HasCores(n) == n \in Controller \/ my_cores[n] # <<>>

\* What sig_REQ_CORES does with a signal that is a request for cores or the
\* answer to one: only the interaction at the head tells which.
\* ReqBranchBoth is a defect for the mutation runs: crossing requests are both
\* served.
ReqBranchBoth(n, p, some) ==
  CASE HeadType(n, p) = "SELFOPT_REQ_CORES_PENDING" -> "offer"
    [] HeadType(n, p) = "none" -> IF HasCores(n) THEN "offer" ELSE "reject"
    [] HeadType(n, p) = "SELFOPT_REQ_CORES" ->
         IF state[n] # "IDLE_AGENT_WAITING_OFF" THEN "stray"
         ELSE IF some THEN "collect" ELSE "nothing offered"
    [] OTHER -> "reject"
ReqBranch(n, p, some) ==
  CASE HeadType(n, p) = "none" -> IF HasCores(n) THEN "offer" ELSE "reject"
    [] HeadType(n, p) = "SELFOPT_REQ_CORES" ->
         IF state[n] # "IDLE_AGENT_WAITING_OFF" THEN "stray"
         ELSE IF some THEN "collect" ELSE "nothing offered"
    [] HeadType(n, p) = "SELFOPT_REQ_CORES_PENDING" -> "crossed"
    [] OTHER -> "reject"

\* A request has a number there too, its region.
Brings(s) == s.body = "offers" => s.some

ReqCores(n) ==
  /\ Receives(n, "REQ_CORES")
  /\ LET p == Peer(n)
         branch == ReqBranch(n, p, Brings(Head(mail[n]).msg))
     IN  /\ Becomes(
              CASE branch \in {"offer", "collect"} -> Send(Taken(n), n, p, Ack)
                [] branch = "reject" -> Send(Taken(n), n, p, Reject)
                [] branch = "stray" -> Pop(Send(Taken(n), n, p, Reject), n, p)
                [] branch = "nothing offered" ->
                     Pop(Send(Taken(n), n, p, Ack), n, p)
                [] branch = "crossed" -> Pop(Taken(n), n, p))
         /\ waiting' = IF branch \in {"offer", "collect"}
                       THEN [waiting EXCEPT ![n] = Head(mail[n])]
                       ELSE waiting
  /\ UNCHANGED <<agentVars, data, book, num_apps_terminated>>

\* Defects for the mutation runs: the search starts one or two cores early.
CandidatesWorker(n) ==
  IF n \in Controller
  THEN {x \in DOMAIN book[n].offered_to : book[n].offered_to[x] = NotOffered}
  ELSE IF /\ my_cores_count[n] > 2 /\ app_state[n] # "APP_TERMINATED"
          /\ Cardinality(Offered(n)) # Len(my_cores[n]) - 2
       THEN {my_cores[n][i].core : i \in 2..Len(my_cores[n])} \
              {my_cores[n][i].core : i \in Offered(n)}
       ELSE {}
CandidatesAll(n) ==
  IF n \in Controller
  THEN {x \in DOMAIN book[n].offered_to : book[n].offered_to[x] = NotOffered}
  ELSE IF /\ my_cores_count[n] > 2 /\ app_state[n] # "APP_TERMINATED"
          /\ Cardinality(Offered(n)) # Len(my_cores[n]) - 2
       THEN {my_cores[n][i].core : i \in 1..Len(my_cores[n])} \
              {my_cores[n][i].core : i \in Offered(n)}
       ELSE {}

\* The cores n may put on offer.  A controller gives any core of its own; a
\* manager never its own core and its first working core, nor its last one
\* not on offer.
Candidates(n) ==
  IF n \in Controller
  THEN {x \in DOMAIN book[n].offered_to : book[n].offered_to[x] = NotOffered}
  ELSE IF /\ my_cores_count[n] > 2 /\ app_state[n] # "APP_TERMINATED"
          /\ Cardinality(Offered(n)) # Len(my_cores[n]) - 2
       THEN {my_cores[n][i].core : i \in 3..Len(my_cores[n])} \
              {my_cores[n][i].core : i \in Offered(n)}
       ELSE {}

\* offered_to of the cores in "cores" becomes m where the old mark is in "old".
Mark(list, cores, old, m) ==
  [i \in DOMAIN list |->
     IF list[i].core \in cores /\ list[i].offered_to \in old
     THEN [list[i] EXCEPT !.offered_to = m] ELSE list[i]]

AnyMark == Node \cup {NotOffered}

\* The region of the request is there: offer_cores chooses, and the offer is
\* sent as SIG_REQ_CORES too, empty or not.
OfferCores(n) ==
  /\ waiting[n] # NoSignal /\ data[n] # <<>>
  /\ LET p == waiting[n].from
     IN  /\ HeadType(n, p) = "none"
         /\ \E cores \in SUBSET Candidates(n) :
              /\ Becomes(Post(Net, n, p, [type |-> "REP_AGENT_REQ_CORES",
                                          cores |-> cores]))
              /\ IF n \in Controller
                 THEN /\ book' = [book EXCEPT ![n] = B!OfferTo(@, cores, p)]
                      /\ UNCHANGED my_cores
                 ELSE /\ my_cores' = [my_cores EXCEPT ![n] =
                                        Mark(@, cores, AnyMark, p)]
                      /\ UNCHANGED book
  /\ waiting' = [waiting EXCEPT ![n] = NoSignal]
  /\ data' = [data EXCEPT ![n] = Tail(@)]
  /\ UNCHANGED <<state, pending_state, app_state, my_cores_count,
                 selfopt_offers, timer, asking, leaving, rounds,
                 num_apps_terminated>>

\* selfopt_man_offers is kept by falling number of cores, older ones first.
InsertOffer(offers, offer) ==
  LET bigger == {i \in DOMAIN offers :
                   Cardinality(offers[i].cores) >= Cardinality(offer.cores)}
  IN  InsertAt(offers, Cardinality(bigger) + 1, offer)

\* The cores of an offer are there: the offer waits for AGENT_SELF_CHK_OFFERS.
CollectOffer(n) ==
  /\ waiting[n] # NoSignal /\ data[n] # <<>>
  /\ LET p == waiting[n].from
     IN  /\ HeadType(n, p) = "SELFOPT_REQ_CORES"
         /\ selfopt_offers' = [selfopt_offers EXCEPT ![n] =
              InsertOffer(@, [sender |-> p, cores |-> Head(data[n]).cores])]
         /\ Becomes(Rehead(Net, n, p, [type |-> "REP_AGENT_OFFER_PENDING"]))
  /\ waiting' = [waiting EXCEPT ![n] = NoSignal]
  /\ data' = [data EXCEPT ![n] = Tail(@)]
  /\ UNCHANGED <<state, pending_state, app_state, my_cores, my_cores_count,
                 timer, asking, leaving, rounds, book, num_apps_terminated>>

\* A defect for the mutation runs: data are sent with empty offers too.
PeerWaitsAlways(n, p) ==
  HeadType(n, p) \in {"SELFOPT_REQ_CORES_PENDING", "REP_AGENT_REQ_CORES"}

\* sig_ACK: does the peer that sent it wait for data now?
PeerWaits(n, p) ==
  \/ HeadType(n, p) = "SELFOPT_REQ_CORES_PENDING"
  \/ HeadType(n, p) = "REP_AGENT_REQ_CORES" /\ Head(inter[n][p]).cores # {}

\* The data are written to the peer's data area, its semaphore is posted, and
\* the interaction goes on.
AckData(n) ==
  /\ Receives(n, "ACK") /\ PeerWaits(n, Peer(n))
  /\ LET p == Peer(n)
         offer == HeadType(n, p) = "REP_AGENT_REQ_CORES"
         cores == IF offer THEN Head(inter[n][p]).cores ELSE {}
     IN  /\ Becomes(Rehead(Taken(n), n, p,
              IF offer THEN [type |-> "AGENT_OFFER_SENT", cores |-> cores]
              ELSE [type |-> "SELFOPT_REQ_CORES"]))
         /\ data' = [data EXCEPT ![p] =
                       Append(@, [from |-> n, cores |-> cores])]
  /\ UNCHANGED <<agentVars, waiting, book, num_apps_terminated>>

\* Otherwise the interaction is over.
AckClear(n) ==
  /\ Receives(n, "ACK") /\ ~ PeerWaits(n, Peer(n))
  /\ Becomes(IF HeadType(n, Peer(n)) = "none" THEN Taken(n)
             ELSE Pop(Taken(n), n, Peer(n)))
  /\ UNCHANGED <<agentVars, waiting, data, book, num_apps_terminated>>

\* A defect for the mutation runs: the zombie is never woken.
AfterAnswerZombie(a, cores) == state[a]

\* A zombie whose last offer is answered may end.
AfterAnswer(a, cores) ==
  IF /\ state[a] = "AGENT_ZOMBIE" /\ app_state[a] = "APP_TERMINATED"
     /\ \A i \in 2..Len(cores) : cores[i].offered_to = NotOffered
  THEN "AGENT_ENDING" ELSE state[a]

\* sig_REP_OFFERS with answer 0: the cores are kept.
RepOffersNo(n) ==
  /\ Receives(n, "REP_OFFERS") /\ Head(mail[n]).msg.answer = 0
  /\ HeadType(n, Peer(n)) = "AGENT_OFFER_SENT"
  /\ LET p == Peer(n)
         cores == Head(inter[n][p]).cores
     IN  /\ Becomes(Pop(Send(Taken(n), n, p, Ack), n, p))
         /\ IF n \in Controller
            THEN /\ book' = [book EXCEPT ![n] = B!OfferRefused(@, cores, p)]
                 /\ UNCHANGED <<my_cores, state>>
            ELSE LET kept == Mark(my_cores[n], cores, {p}, NotOffered)
                 IN  /\ my_cores' = [my_cores EXCEPT ![n] = kept]
                     /\ state' = [state EXCEPT ![n] = AfterAnswer(n, kept)]
                     /\ UNCHANGED book
  /\ UNCHANGED <<pending_state, app_state, my_cores_count, selfopt_offers,
                 timer, asking, leaving, rounds, waiting, data,
                 num_apps_terminated>>

\* sig_REP_OFFERS with answer 1: the cores are given away.  A manager tells
\* its controller who has them now.
RepOffersYes(n) ==
  /\ Receives(n, "REP_OFFERS") /\ Head(mail[n]).msg.answer = 1
  /\ HeadType(n, Peer(n)) = "AGENT_OFFER_SENT"
  /\ LET p == Peer(n)
         cores == Head(inter[n][p]).cores
         acked == Send(Taken(n), n, p, Ack)
     IN  IF n \in Controller
         THEN /\ book' = [book EXCEPT ![n] = B!OfferAccepted(@, cores)]
              /\ Becomes(Pop(acked, n, p))
              /\ UNCHANGED <<my_cores, my_cores_count, state>>
         ELSE LET left == Without(my_cores[n], cores)
              IN  /\ my_cores' = [my_cores EXCEPT ![n] = left]
                  /\ my_cores_count' =
                       [my_cores_count EXCEPT ![n] = @ - Cardinality(cores)]
                  /\ state' = [state EXCEPT ![n] = AfterAnswer(n, left)]
                  /\ Becomes(Pop(Post(acked, n, idag_mask[n],
                       [type |-> "IDAG_REM_CORES_DDS", cores |-> cores,
                        old |-> n, new |-> p]), n, p))
                  /\ UNCHANGED book
  /\ UNCHANGED <<pending_state, app_state, selfopt_offers, timer, asking,
                 leaving, rounds, waiting, data, num_apps_terminated>>

\* sig_REJECT of a request: the target has no application any more.  Without
\* a request or an offer there is nothing to reject.
RejectRequest(n) ==
  /\ Receives(n, "REJECT")
  /\ HeadType(n, Peer(n)) # "REP_AGENT_REQ_CORES"
  /\ Becomes(IF HeadType(n, Peer(n)) = "SELFOPT_REQ_CORES_PENDING"
             THEN Pop(Taken(n), n, Peer(n)) ELSE Taken(n))
  /\ UNCHANGED <<agentVars, waiting, data, book, num_apps_terminated>>

\* sig_REJECT of an offer that came too late: the cores are kept.
RejectOffer(n) ==
  /\ Receives(n, "REJECT")
  /\ HeadType(n, Peer(n)) = "REP_AGENT_REQ_CORES"
  /\ LET p == Peer(n)
         cores == Head(inter[n][p]).cores
     IN  /\ Becomes(Pop(Taken(n), n, p))
         /\ IF n \in Controller
            THEN /\ book' = [book EXCEPT ![n] = B!OfferRejected(@, cores)]
                 /\ UNCHANGED <<my_cores, state, pending_state>>
            ELSE LET kept == Mark(my_cores[n], cores, AnyMark, NotOffered)
                     idle == \A i \in 2..Len(kept) :
                               kept[i].offered_to = NotOffered
                 IN  /\ my_cores' = [my_cores EXCEPT ![n] = kept]
                     /\ state' = [state EXCEPT ![n] = AfterAnswer(n, kept)]
                     /\ pending_state' = [pending_state EXCEPT ![n] =
                          IF /\ app_state[n] = "APP_TERMINATED" /\ idle
                             /\ state[n] # "AGENT_ZOMBIE"
                             /\ @ = "AGENT_ZOMBIE"
                          THEN "AGENT_ENDING" ELSE @]
                     /\ UNCHANGED book
  /\ UNCHANGED <<app_state, my_cores_count, selfopt_offers, timer, asking,
                 leaving, rounds, waiting, data, num_apps_terminated>>
-----------------------------------------------------------------------------
\* Handlers of a controller.
InCluster(c, cores) == {x \in cores : idag_mask[x] = c}

\* What a manager reports of cores of other clusters goes to their
\* controllers.
Forward(net, c, x) ==
  LET others == {d \in Controller \ {c} : InCluster(d, x.cores) # {}}
  IN  PostAll(net, c, [d \in others |-> [x EXCEPT !.cores = InCluster(d, @)]])

\* By how much the entry of a manager grows that reports "all" cores, of
\* which "own" are of this cluster.
AddCount(own, all) == Cardinality(all)

AddCoresDDS(c) ==
  /\ Receives(c, "ADD_CORES_DDS")
  /\ LET p == Peer(c)
         s == Head(mail[c]).msg
         own == InCluster(c, s.cores)
         acked == Send(Taken(c), c, p, Ack)
     IN  IF p \in Controller
         THEN /\ Becomes(acked)
              /\ book' = [book EXCEPT ![c] =
                   B!AddCores(@, s.cores, s.agent, Cardinality(s.cores))]
         ELSE /\ Becomes(Forward(acked, c, [type |-> "IDAG_ADD_CORES_DDS",
                                          cores |-> s.cores, agent |-> p]))
              /\ book' = [book EXCEPT ![c] =
                   IF own = {} THEN @
                   ELSE B!AddCores(@, own, p, AddCount(own, s.cores))]
  /\ UNCHANGED <<agentVars, waiting, data, num_apps_terminated>>

RemCoresDDS(c) ==
  /\ Receives(c, "REM_CORES_DDS")
  /\ LET p == Peer(c)
         s == Head(mail[c]).msg
         own == InCluster(c, s.cores)
         acked == Send(Taken(c), c, p, Ack)
     IN  IF p \in Controller
         THEN /\ Becomes(acked)
              /\ book' = [book EXCEPT ![c] = B!RemCores(@, s.cores, s.old, s.new,
                                                      Cardinality(s.cores))]
         ELSE /\ Becomes(Forward(acked, c, [type |-> "IDAG_REM_CORES_DDS",
                              cores |-> s.cores, old |-> p, new |-> s.new]))
              /\ book' = [book EXCEPT ![c] = IF own = {} THEN @ ELSE
                   B!RemCores(@, own, p, s.new, Cardinality(own))]
  /\ UNCHANGED <<agentVars, waiting, data, num_apps_terminated>>

\* sig_FINISH of a manager, or of a controller that forwards it.  What the
\* controller still had to do with the manager is dropped.
Finish(c) ==
  /\ Receives(c, "FINISH")
  /\ LET p == Peer(c)
         s == Head(mail[c]).msg
         fromAgent == p \notin Controller
         acked == Send(IF fromAgent
                       THEN [Taken(c) EXCEPT !.inter[c][p] = <<>>]
                       ELSE Taken(c), c, p, Ack)
     IN  /\ Becomes(IF fromAgent
                    THEN Forward(acked, c, [type |-> "REMOVE_APP",
                                            cores |-> s.cores, agent |-> p])
                    ELSE acked)
         /\ book' = [book EXCEPT ![c] =
              B!RemoveApp(@, InCluster(c, s.cores), s.agent)]
         /\ num_apps_terminated' =
              num_apps_terminated + (IF c = Zero /\ fromAgent THEN 1 ELSE 0)
  /\ UNCHANGED <<agentVars, waiting, data>>

AppTerminated(c) ==
  /\ c = Zero /\ Receives(c, "APP_TERMINATED")
  /\ Becomes(Taken(c))
  /\ num_apps_terminated' = num_apps_terminated + 1
  /\ UNCHANGED <<agentVars, waiting, data, book>>
-----------------------------------------------------------------------------
\* What the program of a manager does by itself.
Program(a) ==
  \/ SelfOptStart(a) \/ DiscoveryDone(a) \/ Timer(a) \/ SelfChkOffers(a)
  \/ LeaveAtTop(a) \/ Leave(a) \/ AgentZombie(a) \/ AgentEnds(a)
  \/ InitManChkOffers(a)

Handler(n) ==
  \/ ReqCores(n) \/ OfferCores(n) \/ CollectOffer(n)
  \/ AckData(n) \/ AckClear(n) \/ RepOffersNo(n) \/ RepOffersYes(n)
  \/ RejectRequest(n) \/ RejectOffer(n)

BookHandler(c) ==
  AddCoresDDS(c) \/ RemCoresDDS(c) \/ Finish(c) \/ AppTerminated(c)

Next ==
  \/ \E a \in Agent : Program(a) \/ AppFinishes(a)
  \/ \E n \in Node : Handler(n)
  \/ \E c \in Controller : BookHandler(c)

Spec == Init /\ [][Next]_vars

\* Every node keeps polling and its handlers run to their end, an armed timer
\* goes off, controllers answer the discovery.  That not all nodes stand still
\* together is enough, as their rounds are bounded.
Progress ==
  \/ \E a \in Agent : Program(a)
  \/ \E n \in Node : Handler(n)
  \/ \E c \in Controller : BookHandler(c)
Fairness == WF_vars(Progress)

FairSpec == Spec /\ Fairness
-----------------------------------------------------------------------------
AgentState ==
  {"AGENT_SELF_OPT", "IDLE_AGENT_WAITING_OFF", "AGENT_SELF_CHK_OFFERS",
   "IDLE_AGENT", "AGENT_ENDING", "AGENT_ZOMBIE", "IDLE_CORE"} \cup
  InitCoreStates

\* TypeOK: every variable has its type; a manager's list starts with its own
\* core and my_cores_count is the length of the list while it has one.
TypeOK ==
  /\ state \in [Agent -> AgentState]
  /\ pending_state \in [Agent -> AgentState \cup {"NO_PENDING_STATE"}]
  /\ app_state \in [Agent -> {"RUNNING", "APP_TERMINATED", "NO_APP"}]
  /\ \A a \in Agent : \A i \in DOMAIN my_cores[a] :
       my_cores[a][i] \in [core : Core, offered_to : Node \cup {NotOffered}]
  /\ \A a \in Agent : my_cores[a] # <<>> =>
       my_cores[a][1].core = a /\ my_cores_count[a] = Len(my_cores[a])
  /\ \A c \in Controller :
       /\ Range(book[c].offered_to) \subseteq
            Agent \cup {NotOffered, Elsewhere}
       /\ DOMAIN book[c].dds \subseteq Agent
       /\ book[c].free \in Nat
  /\ timer \in [Agent -> BOOLEAN] /\ asking \in [Agent -> BOOLEAN]
  /\ leaving \in [Agent -> BOOLEAN]
  /\ \A a \in Agent : rounds[a] \in 0..(MaxRounds[a] + 1)
  /\ num_apps_terminated \in Nat

\* OneOwner: however offers, answers and ends of applications interleave, a
\* core that is on offer to nobody is in the hands of one node only: it is
\* never used by two applications, nor free in a controller's book while an
\* application has it (offer_cores, sig_REP_OFFERS, sig_FINISH).
Owners(x) ==
  {a \in Agent : \E i \in DOMAIN my_cores[a] :
     my_cores[a][i] = [core |-> x, offered_to |-> NotOffered]} \cup
  {c \in Controller : /\ x \in DOMAIN book[c].offered_to
                      /\ book[c].offered_to[x] = NotOffered}
OneOwner == \A x \in Core : Cardinality(Owners(x)) <= 1

\* KeepsWorker: however many requests are pending, a running application keeps
\* a worker: the manager's core and its first working core are never on offer
\* or given away ("that way i avoid giving up my only working core",
\* resource_negotiation.c 132).
KeepsWorker ==
  \A a \in Agent : app_state[a] # "NO_APP" =>
    /\ Len(my_cores[a]) >= IF Len(FirstCores[a]) > 1 THEN 2 ELSE 1
    /\ \A i \in Offered(a) : i > 2

\* MessagesUnderstood: the receiver of a signal interprets it by the
\* interaction at the head of its own queue only; when a signal is handled,
\* that interaction is one the sender meant: an offer is never read as a
\* request or a request as an offer, an answer never meets a missing offer
\* (sig_REP_OFFERS would follow a null pointer), an ACK never hits the branch
\* "Unreachable point inside ACK".
Understood(n, p, s) ==
  LET head == HeadType(n, p)
  IN  CASE s.sig = "REQ_CORES" /\ s.body = "offers" ->
             head = "SELFOPT_REQ_CORES"
        [] s.sig = "REQ_CORES" /\ s.body = "request" ->
             head # "SELFOPT_REQ_CORES"
        [] s.sig = "REP_OFFERS" -> head = "AGENT_OFFER_SENT"
        [] s.sig = "ACK" ->
             head \in {"SELFOPT_REQ_CORES_PENDING", "REP_AGENT_REQ_CORES",
                       "REP_AGENT_OFFER_SENT", "IDAG_ADD_CORES_DDS",
                       "IDAG_REM_CORES_DDS", "REMOVE_APP"}
        [] s.sig = "REJECT" ->
             head \in {"SELFOPT_REQ_CORES_PENDING", "REP_AGENT_REQ_CORES"}
        [] OTHER -> TRUE
MessagesUnderstood ==
  \A n \in Node : waiting[n] = NoSignal /\ mail[n] # <<>> =>
    Understood(n, Peer(n), Head(mail[n]).msg)

\* HandshakeMatches: data are only written into the area of a node whose
\* handler waits for them, by the peer it waits for, and they are what it
\* waits for (sig_ACK writes data_array and posts flag_data_written, both
\* shared by all peers of the node).
HandshakeMatches ==
  \A n \in Node :
    /\ Len(data[n]) <= 1
    /\ data[n] # <<>> =>
         /\ waiting[n] # NoSignal
         /\ waiting[n].from = Head(data[n]).from
         /\ waiting[n].msg.body = "offers" <=> Head(data[n]).cores # {}

\* Nothing is under way.
Quiet ==
  /\ \A n \in Node : mail[n] = <<>> /\ waiting[n] = NoSignal
  /\ \A n, p \in Node : inter[n][p] = <<>>
  /\ \A a \in Agent : ~ asking[a]

Entry(c, a) == IF a \in DOMAIN book[c].dds THEN book[c].dds[a] ELSE 0

\* LedgerCatchesUp: although controllers hear of every transfer twice, in any
\* order, from giver and taker, their books are right again when nothing is
\* under way: the entry of each manager counts its cores of the cluster.
LedgerCatchesUp ==
  Quiet => \A c \in Controller, a \in Agent :
    Entry(c, a) = Cardinality(InCluster(c, Cores(a)))

\* Astray: the timer of a manager went off between the two lines of
\* IDLE_AGENT that end it, so it goes on with the states of an initial core.
Astray(a) ==
  state[a] \in InitCoreStates \/ pending_state[a] \in InitCoreStates

\* OnlyInitialCoresNegotiate: the "Initial core States" (structs.h 20) are not
\* for managers that started no application for a controller.
OnlyInitialCoresNegotiate == \A a \in Agent : ~ Astray(a)

\* EndsCountedOnce: core 0 stops the system when it has counted as many ends
\* as applications; although some are counted by SIG_FINISH and others by
\* SIG_APP_TERMINATED, it never counts an end early or twice and misses none,
\* unless a manager goes astray.
Ended == {a \in Agent : app_state[a] = "NO_APP"}
EndsCountedOnce ==
  OnlyInitialCoresNegotiate =>
    /\ num_apps_terminated <= Cardinality(Ended)
    /\ Quiet => num_apps_terminated = Cardinality(Ended)

\* n is blocked in a handler until m has handled its ACK and written the data.
WaitsFor(n, m) == waiting[n] # NoSignal /\ waiting[n].from = m

\* NoRing: handlers of three nodes never wait for each other's data in a ring,
\* where no ACK would ever be handled again; the code refuses requests
\* elsewhere "to prevent deadlock" (sig_INIT_APP, signal_handlers.c 410).
NoRing ==
  \A n, m, l \in Node :
    ~ (WaitsFor(n, m) /\ WaitsFor(m, l) /\ WaitsFor(l, n))

\* NoTwoWait: two nodes never wait for data of each other, although both may
\* ask at the same time; three may (NoRing).
NoTwoWait ==
  \A n, m \in Node : ~ (WaitsFor(n, m) /\ WaitsFor(m, n))

\* NegotiationsEnd: every request, offer and report is answered in the end,
\* every blocked handler gets its data, and the nodes come to rest; where the
\* targets leave no ring of three nodes that ask each other (NoRing).
NegotiationsEnd == <>[]Quiet

\* EndedAppsLeave: an application that is over gives its cores back, also when
\* some were on offer; unless the manager went astray to the states of an
\* initial core.
EndedAppsLeave ==
  \A a \in Agent : app_state[a] = "APP_TERMINATED" ~>
    app_state[a] = "NO_APP" \/ Astray(a)
=============================================================================
