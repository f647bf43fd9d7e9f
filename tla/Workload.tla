------------------------------ MODULE Workload ------------------------------
(***************************************************************************)
(* How the manager of an application spreads the repetitions of its work   *)
(* over its worker cores while cores change hands: AGENT_INIT_STATE,       *)
(* WORKING_NODE and AGENT_ENDING of the loop of a core, the handlers of    *)
(* APPOINT_WORK, ACK, REJECT, FINISH, REP_OFFERS and INIT_AGENT, and what  *)
(* taking an offer does to the work.  Every core has both parts, that of a *)
(* worker and that of a manager: a worker may be made the manager of a new *)
(* application, and a manager whose application is over is a core as any   *)
(* other.                                                                  *)
(*                                                                         *)
(* The negotiation is SelfOpt's: here a core is offered to somebody, who   *)
(* takes or refuses it, and the giver hears of that later.  The cores of   *)
(* an ended application are free at once; the controllers' part and the    *)
(* timers are left out.  AGENT stands for AGENT_SELF_OPT,                  *)
(* IDLE_AGENT_WAITING_OFF, AGENT_SELF_CHK_OFFERS and IDLE_AGENT.  Rows of  *)
(* a matrix are numbered portions.  The cores put on offer or granted and  *)
(* the new applications are bounded by Starts.                             *)
(***************************************************************************)
EXTENDS Integers, Sequences, FiniteSets, SequencesExt

CONSTANTS
  Core,        \* cores that are no controllers
  Starts,      \* situations to begin with, see StartAssumption
  Founders,    \* cores that may be made managers of new applications
  workldOf,    \* repetitions of an application
  Nobody,      \* -1 for a core
  Starter      \* the initial core of a new application, not in Core

\* A situation: the workers of the managers at the start, the free cores, and
\* how many cores are put on offer and applications begun from then on.
ASSUME CoreAssumption == Nobody \notin Core /\ Starter \notin Core
ASSUME StartAssumption ==
  \A s \in Starts :
    /\ DOMAIN s.first \subseteq Core /\ s.free \subseteq Core
    /\ \A m \in DOMAIN s.first : s.first[m] \in Seq(Core \ DOMAIN s.first)
    /\ s.offers \in Nat /\ s.apps \in Nat
ASSUME WorkloadAssumption == Founders \subseteq Core /\ workldOf \in Nat \ {0}

VARIABLES
  state, pending_state,  \* [Core -> names of structs.h]
  cur_agent,      \* [Core -> [my_agent, portion]]
  pending_agent,  \* [Core -> [my_agent, portion]]
  executing,      \* [Core -> portion], the call of execute_workload
  app_state,      \* [Core -> names of structs.h]
  my_cores,       \* [Core -> Seq(Core)], the workers: my_cores->next
  offered_to,     \* [Core -> [Core -> who], marks of cores in my_cores
  workload,       \* [Core -> [Core -> portion]]
  workld, active_working_cores, nodes_ended_cnt, old_cores_cnt,  \* [Core->Nat]
  pending_workload,  \* [Core -> portion]
  inter,          \* [Core -> [Core -> Seq(interaction)]], core_inter_head
  mail,           \* [Core -> Seq(signal)]
  offers,         \* offers not answered: set of [from, to, core]
  free,           \* cores without an application
  moves, new_apps, \* Nat, offers and applications still to come (bounds)
  undone          \* [Core -> set of portions], of this repetition; a history

workVars == <<state, pending_state, cur_agent, pending_agent, executing>>
ownVars == <<my_cores, offered_to, old_cores_cnt>>
countVars == <<app_state, workload, workld, active_working_cores,
               nodes_ended_cnt, pending_workload, undone>>
netVars == <<inter, mail>>
dealVars == <<offers, free, moves, new_apps>>
vars == <<workVars, ownVars, countVars, netVars, dealVars>>

NoPortion == [left |-> 0, part |-> 0]
None == [my_agent |-> Nobody, portion |-> NoPortion]
\* Mutant of Rejecting: idle cores reject too.
RejectingIdle == {"IDLE_CORE", "AGENT", "AGENT_ENDING", "AGENT_ZOMBIE"}
Rejecting == {"AGENT", "AGENT_ENDING", "AGENT_ZOMBIE"}

\* The portions of the repetition that begins, one for each of count workers.
Parts(m, count) == {[left |-> workld[m], part |-> i] : i \in 1..count}

Init == \E s \in Starts : LET Agent == DOMAIN s.first IN
  /\ state = [c \in Core |-> IF c \in Agent THEN "AGENT_INIT_STATE"
                             ELSE "IDLE_CORE"]
  /\ pending_state = [c \in Core |-> "NO_PENDING_STATE"]
  /\ cur_agent = [c \in Core |-> None]
  /\ pending_agent = [c \in Core |-> None]
  /\ executing = [c \in Core |-> NoPortion]
  /\ app_state = [c \in Core |-> "NO_APP"]
  /\ my_cores = [c \in Core |-> IF c \in Agent THEN s.first[c] ELSE <<>>]
  /\ offered_to = [c \in Core |-> [x \in Core |-> Nobody]]
  /\ old_cores_cnt = [c \in Core |-> 0]
  /\ workload = [c \in Core |-> [x \in Core |-> NoPortion]]
  /\ workld = [c \in Core |-> IF c \in Agent THEN workldOf ELSE 0]
  /\ active_working_cores = [c \in Core |-> 0]
  /\ nodes_ended_cnt = [c \in Core |-> 0]
  /\ pending_workload = [c \in Core |-> NoPortion]
  /\ inter = [c \in Core |-> [x \in Core |-> <<>>]]
  /\ mail = [c \in Core |-> <<>>]
  /\ offers = {} /\ free = s.free
  /\ moves = s.offers /\ new_apps = s.apps
  /\ undone = [c \in Core |-> {}]
-----------------------------------------------------------------------------
\* The network part of a step: queues of interactions and signals.
Net == [inter |-> inter, mail |-> mail]
Becomes(net) == inter' = net.inter /\ mail' = net.mail

Send(net, n, t, s) ==
  [net EXCEPT !.mail[t] = Append(@, s @@ [from |-> n])]

Appoints == {"INIT_WORK_NODE", "APPOINT_WORK_NODE"}
Appoint(net, m, x) ==
  Send(net, m, x, [sig |-> "APPOINT_WORK", portion |->
                     Head(net.inter[m][x]).portion])

\* A portion is queued for x, and its signal sent if it is alone there.
Post(net, m, x, item) ==
  LET queued == [net EXCEPT !.inter[m][x] = Append(@, item)]
  IN  IF Len(queued.inter[m][x]) = 1 THEN Appoint(queued, m, x) ELSE queued

Pop(net, m, x) ==
  LET rest == Tail(net.inter[m][x])
      popped == [net EXCEPT !.inter[m][x] = rest]
  IN  IF rest # <<>> /\ Head(rest).type \in Appoints
      THEN Appoint(popped, m, x) ELSE popped

\* The signal at the head of c's list, and the list without it.
Got(c, sig) == mail[c] # <<>> /\ Head(mail[c]).sig = sig
Taken(c) == [Net EXCEPT !.mail[c] = Tail(@)]

Workers(m) == Range(my_cores[m])
Offered(m) == {x \in Workers(m) : offered_to[m][x] # Nobody}
-----------------------------------------------------------------------------
\* AGENT_INIT_STATE: the first repetition is given to the workers.
AgentInit(m) ==
  /\ state[m] = "AGENT_INIT_STATE"
  /\ LET cores == my_cores[m]
         portion(i) == [left |-> workld[m], part |-> i]
         index(x) == CHOOSE i \in DOMAIN cores : cores[i] = x
     IN  /\ Becomes(FoldLeftDomain(LAMBDA net, i :
                      Post(net, m, cores[i], [type |-> "INIT_WORK_NODE",
                                              portion |-> portion(i)]),
                    Net, cores))
         /\ workload' = [workload EXCEPT ![m] = [x \in Core |->
              IF x \in Range(cores) THEN portion(index(x)) ELSE @[x]]]
         /\ active_working_cores' =
              [active_working_cores EXCEPT ![m] = Len(cores)]
         /\ undone' = [undone EXCEPT ![m] = Parts(m, Len(cores))]
  /\ nodes_ended_cnt' = [nodes_ended_cnt EXCEPT ![m] = 0]
  /\ app_state' = [app_state EXCEPT ![m] = "RUNNING"]
  /\ state' = [state EXCEPT ![m] = "AGENT"]
  /\ UNCHANGED <<pending_state, cur_agent, pending_agent, executing, ownVars,
                 workld, pending_workload, dealVars>>

Busy(c, m) ==
  cur_agent[c].my_agent \notin {Nobody, m} /\ state[c] # "IDLE_CORE"

\* A worker accepts or rejects a portion.
AppointWork(c) ==
  /\ Got(c, "APPOINT_WORK")
  /\ LET m == Head(mail[c]).from
         given == [my_agent |-> m, portion |-> Head(mail[c]).portion]
     IN  IF state[c] \in Rejecting
         THEN /\ Becomes(Send(Taken(c), c, m, [sig |-> "REJECT"]))
              /\ UNCHANGED workVars
         ELSE /\ Becomes(Send(Taken(c), c, m, [sig |-> "ACK"]))
              /\ pending_agent' = IF Busy(c, m)
                   THEN [pending_agent EXCEPT ![c] = given] ELSE pending_agent
              /\ cur_agent' = IF Busy(c, m) THEN cur_agent
                              ELSE [cur_agent EXCEPT ![c] = given]
              /\ state' = [state EXCEPT ![c] = "WORKING_NODE"]
              /\ pending_state' = [pending_state EXCEPT ![c] =
                   IF state[c] = "AGENT_INIT_STATE" THEN state[c] ELSE @]
              /\ UNCHANGED executing
  /\ UNCHANGED <<ownVars, countVars, dealVars>>

\* WORKING_NODE: execute_workload is called with the current bounds.
ExecuteStart(c) ==
  /\ state[c] = "WORKING_NODE" /\ executing[c] = NoPortion
  /\ executing' = [executing EXCEPT ![c] = cur_agent[c].portion]
  /\ UNCHANGED <<state, pending_state, cur_agent, pending_agent, ownVars,
                 countVars, netVars, dealVars>>

Emptied(c) == None

\* It returns: the manager is told, and the work that waited is next.
ExecuteEnd(c) ==
  /\ state[c] = "WORKING_NODE" /\ executing[c] # NoPortion
  /\ LET m == cur_agent[c].my_agent
     IN  /\ m # Nobody
         /\ Becomes(Send(Net, c, m, [sig |-> "FINISH"]))
         /\ undone' = [undone EXCEPT ![m] = @ \ {executing[c]}]
  /\ executing' = [executing EXCEPT ![c] = NoPortion]
  /\ IF pending_agent[c] = None
     THEN /\ state' = [state EXCEPT ![c] =
               IF pending_state[c] = "AGENT_INIT_STATE"
               THEN "AGENT_INIT_STATE" ELSE "IDLE_CORE"]
          /\ pending_state' = [pending_state EXCEPT ![c] = "NO_PENDING_STATE"]
          /\ UNCHANGED <<cur_agent, pending_agent>>
     ELSE /\ cur_agent' = [cur_agent EXCEPT ![c] = pending_agent[c]]
          /\ pending_agent' = [pending_agent EXCEPT ![c] = Emptied(c)]
          /\ UNCHANGED <<state, pending_state>>
  /\ UNCHANGED <<app_state, workload, workld, active_working_cores,
                 nodes_ended_cnt, pending_workload, ownVars, dealVars>>

\* The manager's side of an appointment.
AckHandler(m) ==
  /\ Got(m, "ACK")
  /\ LET w == Head(mail[m]).from
     IN  Becomes(IF inter[m][w] = <<>> THEN Taken(m) ELSE Pop(Taken(m), m, w))
  /\ UNCHANGED <<workVars, ownVars, countVars, dealVars>>

RejectHandler(m) ==
  /\ Got(m, "REJECT")
  /\ LET w == Head(mail[m]).from
     IN  pending_workload' =
           IF inter[m][w] # <<>> /\ w \in Workers(m)
           THEN [pending_workload EXCEPT ![m] = workload[m][w]]
           ELSE pending_workload
  /\ Becomes(Taken(m))
  /\ UNCHANGED <<workVars, ownVars, app_state, workload, workld,
                 active_working_cores, nodes_ended_cnt, undone, dealVars>>
-----------------------------------------------------------------------------
\* SIG_FINISH.  From the own manager: its application is over.
FinishOfAgent(c) ==
  /\ Got(c, "FINISH") /\ cur_agent[c].my_agent = Head(mail[c]).from
  /\ cur_agent' = [cur_agent EXCEPT ![c] = None]
  /\ Becomes(Taken(c))
  /\ UNCHANGED <<state, pending_state, pending_agent, executing, ownVars,
                 countVars, dealVars>>

\* The portion that was rejected goes to the worker that finished.  If that
\* one is no longer in my_cores, one_core is read uninitialised.
GivePending(net, m, x) ==
  IF pending_workload[m] = NoPortion THEN net
  ELSE Post(net, m, x, [type |-> "APPOINT_WORK_NODE",
                        portion |-> pending_workload[m]])
Receivers(m, x) ==
  IF x \in Workers(m) \/ pending_workload[m] = NoPortion THEN {x} ELSE Core

Ready(net, m, x) ==
  net.inter[m][x] = <<>>
    \/ Head(net.inter[m][x]).type = "INIT_WORK_NODE_PENDING"

\* One worker of the loop that starts a repetition: d.next is row_reached.
Distribute(d, m, x) ==
  LET queue == d.net.inter[m][x]
      item == [type |-> "APPOINT_WORK_NODE", portion |-> NoPortion]
      typed == IF queue = <<>> THEN <<item>>
               ELSE IF Head(queue).type = "INIT_WORK_NODE_PENDING"
                    THEN [queue EXCEPT ![Len(queue)].type = "INIT_WORK_NODE"]
                    ELSE queue
      portion == [left |-> d.left, part |-> d.next]
      filled == [typed EXCEPT ![Len(typed)].portion = portion]
      queued == [d.net EXCEPT !.inter[m][x] = filled]
  IN  IF Last(typed).type \in Appoints
      THEN [d EXCEPT !.next = @ + 1, !.workload[x] = portion, !.net =
              IF Len(filled) = 1 THEN Appoint(queued, m, x) ELSE queued]
      ELSE [d EXCEPT !.net.inter[m][x] = typed]

\* From a worker: its portion is done.  The last one of a repetition starts
\* the next repetition.
NextRepetition(net, m, noted) ==
  LET ready == Cardinality({x \in Workers(m) : Ready(net, m, x)})
      lone == ready = 0 /\ Len(my_cores[m]) = 1
      start == IF ~ lone THEN net
               ELSE [net EXCEPT !.inter[m][my_cores[m][1]] =
                       Append(@, [type |-> "APPOINT_WORK_NODE",
                                  portion |-> NoPortion])]
      active == IF lone THEN 1 ELSE ready
      done == FoldLeft(LAMBDA d, x : Distribute(d, m, x),
                [net |-> start, next |-> 1, left |-> workld[m] - 1,
                 workload |-> noted], my_cores[m])
  IN  /\ Becomes(done.net)
      /\ workload' = [workload EXCEPT ![m] = done.workload]
      /\ active_working_cores' = [active_working_cores EXCEPT ![m] = active]
      /\ nodes_ended_cnt' = [nodes_ended_cnt EXCEPT ![m] = 0]
      /\ old_cores_cnt' = [old_cores_cnt EXCEPT ![m] = 0]
      /\ app_state' = [app_state EXCEPT ![m] = "RUNNING"]
      /\ undone' = [undone EXCEPT ![m] =
                      {[left |-> workld[m] - 1, part |-> i] : i \in 1..active}]

Plain(net, m, noted) ==
  /\ Becomes(net)
  /\ workload' = [workload EXCEPT ![m] = noted]
  /\ nodes_ended_cnt' = [nodes_ended_cnt EXCEPT ![m] =
                           IF workld[m] = 0 THEN @ ELSE @ + 1]
  /\ UNCHANGED <<active_working_cores, old_cores_cnt, undone>>

Remaining(m) == workld[m] - 1

\* Its three ends: another repetition, the application is over, or neither.
FinishOfWorker(m) ==
  /\ Got(m, "FINISH") /\ cur_agent[m].my_agent # Head(mail[m]).from
  /\ LET w == Head(mail[m]).from
         noted == IF w \in Workers(m)
                  THEN [workload[m] EXCEPT ![w] = NoPortion] ELSE workload[m]
         last == nodes_ended_cnt[m] + 1 = active_working_cores[m]
         counts == workld[m] > 0 /\ last
     IN  \E y \in Receivers(m, w) :
           LET net == GivePending(Taken(m), m, y)
           IN  \/ /\ counts /\ Remaining(m) # 0
                  /\ NextRepetition(net, m, noted)
                  /\ workld' = [workld EXCEPT ![m] = @ - 1]
               \/ /\ counts /\ Remaining(m) = 0
                  /\ Plain(net, m, noted)
                  /\ workld' = [workld EXCEPT ![m] = @ - 1]
                  /\ app_state' = [app_state EXCEPT ![m] = "APP_TERMINATED"]
               \/ /\ ~ counts
                  /\ Plain(net, m, noted)
                  /\ UNCHANGED <<workld, app_state>>
  /\ pending_workload' = [pending_workload EXCEPT ![m] = NoPortion]
  /\ UNCHANGED <<workVars, my_cores, offered_to, dealVars>>
-----------------------------------------------------------------------------
\* Cores change hands.  A manager never offers its first worker, nor one that
\* is about to start, nor the last one that is not on offer.
AboutToStart(m, x) ==
  inter[m][x] # <<>> /\ Head(inter[m][x]).type \in
                           {"INIT_WORK_NODE", "INIT_WORK_NODE_PENDING"}
MayOffer(m, x) ==
  /\ x \in Range(Tail(my_cores[m])) /\ offered_to[m][x] = Nobody
  /\ ~ AboutToStart(m, x)
  /\ Cardinality(Offered(m)) # Len(my_cores[m]) - 1

\* An offer is a signal to a manager; the initial core has it at once.
Reaches(o) ==
  IF o.to = Starter THEN offers' = offers \cup {o} /\ UNCHANGED netVars
  ELSE /\ Becomes(Send(Net, o.from, o.to, [sig |-> "REQ_CORES", offer |-> o]))
       /\ UNCHANGED offers

Offer(m, to, x) ==
  /\ my_cores[m] # <<>> /\ app_state[m] # "APP_TERMINATED"
  /\ moves > 0 /\ m # to
  /\ IF to = Starter THEN new_apps > 0 ELSE state[to] = "AGENT"
  /\ MayOffer(m, x)
  /\ offered_to' = [offered_to EXCEPT ![m][x] = to]
  /\ Reaches([from |-> m, to |-> to, core |-> x])
  /\ moves' = moves - 1
  /\ UNCHANGED <<workVars, countVars, my_cores, old_cores_cnt, free, new_apps>>

\* A controller offers a free core to a manager.
OfferFree(to, x) ==
  /\ x \in free /\ state[to] = "AGENT" /\ moves > 0
  /\ free' = free \ {x}
  /\ Reaches([from |-> Nobody, to |-> to, core |-> x])
  /\ moves' = moves - 1
  /\ UNCHANGED <<workVars, ownVars, countVars, new_apps>>

OfferHandler(c) ==
  /\ Got(c, "REQ_CORES")
  /\ offers' = offers \cup {Head(mail[c]).offer}
  /\ Becomes(Taken(c))
  /\ UNCHANGED <<workVars, ownVars, countVars, free, moves, new_apps>>

Answered(net, o, answer) ==
  IF o.from = Nobody THEN net
  ELSE Send(net, o.to, o.from, [sig |-> "REP_OFFERS", core |-> o.core,
                                answer |-> answer])

\* AGENT_SELF_CHK_OFFERS takes a core.  With the manager as the only core the
\* work starts at once, otherwise the new core waits for the next repetition.
TakeCore(m, o) ==
  LET fresh == app_state[m] # "RESIZING"
      before == IF fresh THEN Len(my_cores[m]) + 1 ELSE old_cores_cnt[m]
      cores == Append(my_cores[m], o.core)
      item(t, p) == [type |-> t, portion |-> p]
      first == [left |-> workld[m], part |-> 1]
      queued == [Net EXCEPT !.inter[m][o.core] =
                   Append(@, IF before = 1 THEN item("INIT_WORK_NODE", first)
                             ELSE item("INIT_WORK_NODE_PENDING", NoPortion))]
      started == IF before = 1 /\ Len(queued.inter[m][o.core]) = 1
                 THEN Appoint(queued, m, o.core) ELSE queued
  IN  /\ state[m] = "AGENT" /\ app_state[m] # "APP_TERMINATED"
      /\ Becomes(Answered(started, o, 1))
      /\ my_cores' = [my_cores EXCEPT ![m] = cores]
      /\ offered_to' = [offered_to EXCEPT ![m][o.core] = Nobody]
      /\ old_cores_cnt' = [old_cores_cnt EXCEPT ![m] = before]
      /\ cur_agent' = IF cur_agent[m].my_agent = o.core
                      THEN [cur_agent EXCEPT ![m] = None] ELSE cur_agent
      /\ IF before = 1
         THEN /\ app_state' = [app_state EXCEPT ![m] = "RUNNING"]
              /\ workload' = [workload EXCEPT ![m][o.core] = first]
              /\ active_working_cores' =
                   [active_working_cores EXCEPT ![m] = Len(cores)]
              /\ undone' = [undone EXCEPT ![m] = Parts(m, Len(cores))]
         ELSE /\ app_state' = [app_state EXCEPT ![m] = "RESIZING"]
              /\ workload' = [workload EXCEPT ![m][o.core] = NoPortion]
              /\ UNCHANGED <<active_working_cores, undone>>
      /\ UNCHANGED <<state, pending_state, pending_agent, executing, workld,
                     nodes_ended_cnt, pending_workload, new_apps>>

TakeOffer(m) ==
  \E o \in offers : /\ o.to = m /\ TakeCore(m, o)
                    /\ offers' = offers \ {o} /\ UNCHANGED <<free, moves>>

\* An offer is turned down: another one was better, or it came too late.
Refuse ==
  /\ \E o \in offers : /\ Becomes(Answered(Net, o, 0))
                       /\ offers' = offers \ {o}
                       /\ free' = IF o.from = Nobody THEN free \cup {o.core}
                                  ELSE free
  /\ UNCHANGED <<workVars, ownVars, countVars, moves, new_apps>>

\* The initial core of a new application takes an offer and makes one of its
\* cores the manager.
MakeAgent(net, x, cores) ==
  Send(net, Starter, x, [sig |-> "INIT_AGENT", cores |-> cores])

Found ==
  /\ new_apps > 0 /\ new_apps' = new_apps - 1
  /\ \/ \E o \in offers :
          /\ o.to = Starter /\ o.core \in Founders
          /\ Becomes(Answered(MakeAgent(Net, o.core, <<>>), o, 1))
          /\ offers' = offers \ {o} /\ UNCHANGED free
     \/ \E cores \in (SUBSET free) \ {{}} : \E x \in cores \cap Founders :
          /\ Becomes(MakeAgent(Net, x, SetToSeq(cores \ {x})))
          /\ free' = free \ cores /\ UNCHANGED offers
  /\ UNCHANGED <<workVars, ownVars, countVars, moves>>

Unfinished(c) == state[c] = "WORKING_NODE"

\* A core learns that it manages an application.
InitAgent(c) ==
  /\ Got(c, "INIT_AGENT")
  /\ my_cores' = [my_cores EXCEPT ![c] = Head(mail[c]).cores]
  /\ offered_to' = [offered_to EXCEPT ![c] = [x \in Core |-> Nobody]]
  /\ workld' = [workld EXCEPT ![c] = workldOf]
  /\ IF Unfinished(c)
     THEN /\ pending_state' = [pending_state EXCEPT ![c] = "AGENT_INIT_STATE"]
          /\ UNCHANGED state
     ELSE /\ state' = [state EXCEPT ![c] = "AGENT_INIT_STATE"]
          /\ UNCHANGED pending_state
  /\ Becomes(Taken(c))
  /\ UNCHANGED <<cur_agent, pending_agent, executing, old_cores_cnt,
                 app_state, workload, active_working_cores, nodes_ended_cnt,
                 pending_workload, undone, dealVars>>

\* The giver hears the answer; a zombie with nothing on offer ends.
RepOffers(m) ==
  /\ Got(m, "REP_OFFERS")
  /\ LET w == Head(mail[m]).core
         gone == Head(mail[m]).answer = 1
         still == Offered(m) \ {w}
     IN  /\ my_cores' = [my_cores EXCEPT ![m] =
                           IF gone THEN SelectSeq(@, LAMBDA y : y # w) ELSE @]
         /\ offered_to' = [offered_to EXCEPT ![m][w] = Nobody]
         /\ old_cores_cnt' = [old_cores_cnt EXCEPT ![m] =
              IF gone /\ app_state[m] \notin {"APP_TERMINATED", "RESIZING"}
              THEN Len(my_cores[m]) + 1 ELSE @]
         /\ state' = [state EXCEPT ![m] =
              IF app_state[m] = "APP_TERMINATED" /\ @ = "AGENT_ZOMBIE"
                   /\ still = {}
              THEN "AGENT_ENDING" ELSE @]
  /\ Becomes(Taken(m))
  /\ UNCHANGED <<pending_state, cur_agent, pending_agent, executing,
                 countVars, dealVars>>

\* AGENT_ENDING: interactions about work are dropped; the manager waits for
\* answers, or tells its workers and frees them.
Clear(net, m) ==
  [net EXCEPT !.inter[m] = [x \in Core |->
     IF x \in Workers(m) THEN <<>> ELSE @[x]]]

Ends(m) ==
  \/ state[m] = "AGENT_ENDING"
  \/ state[m] = "AGENT" /\ app_state[m] = "APP_TERMINATED"

Zombie(m) ==
  /\ Ends(m) /\ Offered(m) # {}
  /\ state' = [state EXCEPT ![m] = "AGENT_ZOMBIE"]
  /\ Becomes(Clear(Net, m))
  /\ UNCHANGED <<pending_state, cur_agent, pending_agent, executing, ownVars,
                 countVars, dealVars>>

End(m) ==
  /\ Ends(m) /\ Offered(m) = {}
  /\ Becomes(FoldLeft(LAMBDA net, x : Send(net, m, x, [sig |-> "FINISH"]),
                      Clear(Net, m), my_cores[m]))
  /\ free' = free \cup Workers(m) \cup {m}
  /\ my_cores' = [my_cores EXCEPT ![m] = <<>>]
  /\ app_state' = [app_state EXCEPT ![m] = "NO_APP"]
  /\ state' = [state EXCEPT ![m] = "IDLE_CORE"]
  /\ cur_agent' = [cur_agent EXCEPT ![m] = None]
  /\ UNCHANGED <<pending_state, pending_agent, executing, offered_to,
                 old_cores_cnt, workload, workld, active_working_cores,
                 nodes_ended_cnt, pending_workload, undone, offers, moves,
                 new_apps>>
-----------------------------------------------------------------------------
Handle(c) ==
  \/ AppointWork(c) \/ AckHandler(c) \/ RejectHandler(c)
  \/ FinishOfAgent(c) \/ FinishOfWorker(c) \/ InitAgent(c) \/ RepOffers(c)
  \/ OfferHandler(c)

Run(c) ==
  \/ AgentInit(c) \/ ExecuteStart(c) \/ ExecuteEnd(c) \/ Zombie(c) \/ End(c)

Trade ==
  \/ \E m \in Core : TakeOffer(m) \/ \E x \in Core : OfferFree(m, x)
  \/ \E m, x \in Core, to \in Core \cup {Starter} : Offer(m, to, x)
  \/ Refuse \/ Found

Next == Trade \/ \E c \in Core : Handle(c) \/ Run(c)

Spec == Init /\ [][Next]_vars

Progress == Refuse \/ \E c \in Core : Handle(c) \/ Run(c)
FairSpec == Spec /\ WF_vars(Progress)
-----------------------------------------------------------------------------
Portions == {NoPortion} \cup [left : 1..workldOf, part : 1..Cardinality(Core)]
Work == [my_agent : Core \cup {Nobody}, portion : Portions]
Interactions == [type : Appoints \cup {"INIT_WORK_NODE_PENDING"},
                 portion : Portions]
OffersOf == [from : Core \cup {Nobody}, to : Core \cup {Starter}, core : Core]

\* The types of the variables: no portion is of a repetition too many, and no
\* more ends are counted in a repetition than there are workers in it (the
\* test at 3176 is for equality: beyond it no repetition would ever end).
TypeOK ==
  /\ state \in [Core -> {"IDLE_CORE", "WORKING_NODE", "AGENT_INIT_STATE"}
                          \cup Rejecting]
  /\ pending_state \in [Core -> {"NO_PENDING_STATE", "AGENT_INIT_STATE"}]
  /\ cur_agent \in [Core -> Work] /\ pending_agent \in [Core -> Work]
  /\ executing \in [Core -> Portions]
  /\ app_state \in [Core -> {"NO_APP", "RUNNING", "RESIZING",
                             "APP_TERMINATED"}]
  /\ my_cores \in [Core -> Seq(Core)]
  /\ offered_to \in [Core -> [Core -> Core \cup {Starter, Nobody}]]
  /\ workload \in [Core -> [Core -> Portions]]
  /\ pending_workload \in [Core -> Portions]
  /\ \A count \in {workld, active_working_cores, nodes_ended_cnt,
                   old_cores_cnt} : count \in [Core -> Nat]
  /\ \A c \in Core : nodes_ended_cnt[c] <= active_working_cores[c]
  /\ inter \in [Core -> [Core -> Seq(Interactions)]]
  /\ \A c \in Core : \A i \in DOMAIN mail[c] :
       mail[c][i].from \in Core \cup {Starter, Nobody}
  /\ offers \subseteq OffersOf /\ free \subseteq Core
  /\ moves \in Nat /\ new_apps \in Nat
  /\ undone \in [Core -> SUBSET (Portions \ {NoPortion})]


\* No portion of a repetition is lost while cores change hands: until it is
\* done, it is queued at the manager, or on its way, or with a worker.
UnderWay(m, p) ==
  \/ pending_workload[m] = p
  \/ \E c \in Core :
       \/ \E i \in DOMAIN inter[m][c] : inter[m][c][i].portion = p
       \/ cur_agent[c] = [my_agent |-> m, portion |-> p]
            /\ state[c] = "WORKING_NODE"
       \/ pending_agent[c] = [my_agent |-> m, portion |-> p]
NothingLost ==
  \A m \in Core : app_state[m] \in {"RUNNING", "RESIZING"} =>
    \A p \in undone[m] : UnderWay(m, p)

\* pending_workload is never needed: a core that rejects work has been given
\* away, and the manager has heard of that before the rejection comes, so
\* the rejected portion is never copied there nor given to the next core
\* that finishes.
NeverPending == \A m \in Core : pending_workload[m] = NoPortion


\* A repetition is counted when all its portions are done and not before, and
\* the next one is cut then: the counting of SIG_FINISH implements
\* Repetitions, although cores join and leave in between.
Abstract == INSTANCE Repetitions WITH
              App <- Core, Length <- workldOf, Cut <- 0..Cardinality(Core),
              left <- workld, todo <- undone

\* A manager with work and a worker gets the work done, unless a core that
\* it has given away rejected a portion: that one is lost.
HasWork(m) == /\ app_state[m] \in {"RUNNING", "RESIZING"}
              /\ workld[m] > 0 /\ my_cores[m] # <<>>
Over(m) == app_state[m] \in {"APP_TERMINATED", "NO_APP"}
Stranded(m) == \E c \in Core \ Workers(m) :
  /\ inter[m][c] # <<>>
  /\ \A i \in DOMAIN mail[m] : mail[m][i].from # c
  /\ \A i \in DOMAIN mail[c] : mail[c][i].from # m

\* A portion that is rejected is given to another core, so the work of a
\* manager with workers always ends (signal_handlers.c:2903 takes it to be in
\* pending_workload).
WorkEnds == \A m \in Core : HasWork(m) ~> Over(m)

\* The signal of a worker that has finished counts as that, although the core
\* that receives it may have been the worker of its worker before.
FinishCounted ==
  \A m \in Core : Got(m, "FINISH") /\ Head(mail[m]).from \in Workers(m) =>
    cur_agent[m].my_agent # Head(mail[m]).from
=============================================================================
