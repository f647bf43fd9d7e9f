----------------------------- MODULE AppStart ------------------------------
(***************************************************************************)
(* How an application starts: controller 0 reads it from the scenario and  *)
(* gives it to an initial core (SIG_INIT_APP), the initial core asks its   *)
(* controller for the controllers of the region (SIG_IDAG_FIND_IDAGS) and  *)
(* each of these for managers (SIG_REQ_DDS), waits for offers, and makes   *)
(* one of the offered cores the manager (SIG_INIT_AGENT), which appoints   *)
(* work to the other cores and in the end gives them back (SIG_FINISH).    *)
(* An initial core may at the same time work or manage an application:     *)
(* its second task is remembered in pending_state.  INIT_APPs it cannot    *)
(* take go to a list at controller 0 (init_pending) and are sent again.    *)
(*                                                                         *)
(* Signals, interaction queues and blocking handlers are as in SelfOpt.    *)
(* Left out: the negotiation itself (SelfOpt): an initial core finds       *)
(* cores nobody has, at least two, or nothing, and managers find nothing;  *)
(* the distribution of the work (Workload): a manager appoints its workers *)
(* once, and the application is over when the last has finished; zombies.  *)
(* Bounds: the scenario of a start, and the rounds of self-optimisation    *)
(* that a start allows.                                                    *)
(***************************************************************************)
EXTENDS Integers, Sequences, FiniteSets, SequencesExt

CONSTANTS
  Controller, Core,  \* nodes with my_idag = -1, and the others
  Zero,       \* controller 0, which starts the applications
  my_idag,    \* [Core -> Controller]
  Region,     \* [Core -> the controllers of the region around it]
  App,        \* the applications, numbers from 1 on
  Starts      \* the situations to start from, see Init

Node == Controller \cup Core

ASSUME StartAssumption ==
  /\ Zero \in Controller /\ my_idag \in [Core -> Controller]
  /\ Region \in [Core -> (SUBSET Controller) \ {{}}]
  /\ App \subseteq Nat \ {0}

VARIABLES
  node,          \* [Core -> the variables of its program, see IdleCore]
  owing,         \* [Core -> workers of its application still to finish],
                 \* itself for work that nobody has yet
  inter, mail, waiting, data,  \* as in SelfOpt
  scenario,      \* Seq([app, core]), the applications still to be read
  init_pending,  \* Seq([app, core]) of controller 0
  free,          \* cores that no application has, in the controllers' books
  ended,         \* history: applications that ended
  ghosts         \* history: what was started for no SIG_INIT_APP, see Timer

netVars == <<inter, mail, waiting, data>>
history == <<ended, ghosts>>
vars == <<node, owing, netVars, scenario, init_pending, free, history>>

\* The variables of a core that has nothing to do; app 0 is no application,
\* or one that was passed on to its manager already.
\* agents: whom work is to be done for, cur_agent and then pending_agent.
\* rem: selfopt_time_rem is not -1.  inside: in IDLE_AGENT, past the first
\* line.  rounds: the rounds of self-optimisation still allowed.
IdleCore ==
  [state |-> "IDLE_CORE", pending_state |-> "NO_PENDING_STATE",
   app_state |-> "NO_APP", my_app |-> 0, my_cores |-> {}, init_app |-> 0,
   agents |-> <<>>,
   timer |-> FALSE, rem |-> FALSE, inside |-> FALSE, rounds |-> 0,
   idags |-> [init |-> 0, selfopt |-> 0],     \* init_DDS_idags, ...
   replies |-> [init |-> 0, selfopt |-> 0]]   \* init_DDS_replies, ...

NoSignal == [sig |-> "none"]

Init ==
  \E start \in Starts :
    /\ node = start.node /\ owing = start.owing
    /\ inter = start.inter /\ mail = start.mail
    /\ waiting = [n \in Node |-> NoSignal]
    /\ data = [n \in Node |-> <<>>]
    /\ scenario = start.scenario
    /\ init_pending = <<>>
    /\ free = start.free
    /\ ended = start.ended /\ ghosts = {}
-----------------------------------------------------------------------------
Ack == [sig |-> "ACK"]
Reject == [sig |-> "REJECT"]

Send(net, n, t, s) ==
  [net EXCEPT !.mail[t] = Append(@, s @@ [from |-> n])]

\* The signal scc_kill builds from an interaction.
SignalOf(x) ==
  CASE x.type = "INIT_APP" -> [sig |-> "INIT_APP", app |-> x.app]
    [] x.type \in {"IDAG_FIND_IDAGS_PENDING", "IDAG_FIND_IDAGS",
                   "REP_IDAG_FIND_IDAGS"} -> [sig |-> "FIND_IDAGS"]
    [] x.type \in {"IDAG_REQ_DDS_PENDING", "IDAG_REQ_DDS",
                   "REP_IDAG_REQ_DDS"} -> [sig |-> "REQ_DDS"]
    [] x.type = "INIT_AGENT" -> [sig |-> "INIT_AGENT", app |-> x.app]
    [] x.type = "IDAG_ADD_CORES_DDS" -> [sig |-> "ADD_CORES_DDS"]
    [] x.type = "REMOVE_APP" -> [sig |-> "FINISH", cores |-> x.cores]

\* A core tells controller 0 that it can take an application.
Available == [sig |-> "INIT_APP", app |-> 0]

Post(net, n, p, x) ==
  LET queued == [net EXCEPT !.inter[n][p] = Append(@, x)]
  IN  IF net.inter[n][p] = <<>> THEN Send(queued, n, p, SignalOf(x))
      ELSE queued

\* The number of DECLARE_INIT_AVAILABILITY at the head of queue q.
Declares(q) ==
  Cardinality({i \in DOMAIN q :
                 \A j \in 1..i : q[j].type = "DECLARE_INIT_AVAILABILITY"})

\* The interaction at the head is over and the next one is sent
\* (send_next_signal); DECLARE_INIT_AVAILABILITY is over once it is sent.
Pop(net, n, p) ==
  LET rest == Tail(net.inter[n][p])
      d == Declares(rest)
      left == SubSeq(rest, d + 1, Len(rest))
      told == [net EXCEPT !.inter[n][p] = left,
                          !.mail[p] = @ \o [i \in 1..d |->
                                              Available @@ [from |-> n]]]
  IN  IF left = <<>> \/ Head(left).type = "REP_IDAG_REQ_DDS" THEN told
      ELSE Send(told, n, p, SignalOf(Head(left)))

Rehead(net, n, p, type) ==
  [net EXCEPT !.inter[n][p][1].type = type]

HeadType(n, p) == IF inter[n][p] = <<>> THEN "none" ELSE inter[n][p][1].type

\* Discovery of a kind ("init" or "selfopt") asks p for something.
Asks(type, kind) == [type |-> type, kind |-> kind]

\* Node n takes signal sig from its list.
Takes(n, sig) ==
  /\ waiting[n] = NoSignal
  /\ mail[n] # <<>> /\ Head(mail[n]).sig = sig

\* The network without that signal.
Rest(n) == [inter |-> inter, mail |-> [mail EXCEPT ![n] = Tail(@)]]
Net == [inter |-> inter, mail |-> mail]

Becomes(net) == inter' = net.inter /\ mail' = net.mail

\* An INIT_APP for core n is on its way or queued.
InitAppQueued(net, n) ==
  \E i \in DOMAIN net.inter[Zero][n] : net.inter[Zero][n][i].type = "INIT_APP"

InitApp(app) == [type |-> "INIT_APP", app |-> app]
-----------------------------------------------------------------------------
\* Controller 0 reads an application from the scenario (CHK_APP_FILE): it is
\* sent to its initial core, or put on the list if one is sent there already.
Submit ==
  /\ scenario # <<>>
  /\ scenario' = Tail(scenario)
  /\ LET new == Head(scenario)
     IN  IF InitAppQueued(Net, new.core)
         THEN /\ init_pending' = Append(init_pending, new)
              /\ UNCHANGED <<inter, mail>>
         ELSE /\ Becomes(Post(Net, Zero, new.core, InitApp(new.app)))
              /\ UNCHANGED init_pending
  /\ UNCHANGED <<node, owing, waiting, data, free, history>>

\* Once the scenario is read, the list is sent again every ten seconds
\* (IDLE_IDAG_INIT_SEND), to the cores that are not sent one already.
SendAborted ==
  LET resend(sofar, x) ==
        IF InitAppQueued(sofar.net, x.core)
        THEN [sofar EXCEPT !.left = Append(@, x)]
        ELSE [sofar EXCEPT !.net = Post(@, Zero, x.core, InitApp(x.app))]
      after == FoldLeft(resend, [net |-> Net, left |-> <<>>], init_pending)
  IN  /\ scenario = <<>> /\ waiting[Zero] = NoSignal
      /\ after.left # init_pending
      /\ Becomes(after.net)
      /\ init_pending' = after.left
      /\ UNCHANGED <<node, owing, waiting, data, scenario, free, history>>

\* SIG_INIT_APP at controller 0: a core can take an application; the first on
\* the list for that core is sent.
OfferAborted ==
  /\ Takes(Zero, "INIT_APP")
  /\ LET p == Head(mail[Zero]).from
         mine == {i \in DOMAIN init_pending : init_pending[i].core = p}
         i == CHOOSE k \in mine : \A j \in mine : k <= j
     IN  IF mine = {} THEN Becomes(Rest(Zero)) /\ UNCHANGED init_pending
         ELSE /\ Becomes(Post(Rest(Zero), Zero, p,
                              InitApp(init_pending[i].app)))
              /\ init_pending' = RemoveAt(init_pending, i)
  /\ UNCHANGED <<node, owing, waiting, data, scenario, free, history>>
-----------------------------------------------------------------------------
InitStates ==
  {"INIT_MANAGER", "INIT_MANAGER_SEND_OFFERS", "IDLE_INIT_MAN",
   "INIT_MAN_CHK_OFFERS"}
\* The pending states that hold an application to be started, and the two of
\* them that sig_INIT_APP_handler does not look for.
InitPending ==
  InitStates \cup {"AGENT_INIT_CHK_OFFERS", "IDLE_INIT_IDLE_AGENT",
    "IDLE_INIT_AGENT_SELFOPT", "INIT_CHK_OFFERS_IDLE_AGENT",
    "INIT_CHK_OFFERS_SELFOPT"}
Overlooked == {"AGENT_INIT_IDLE_INIT", "AGENT_INIT_APP_INIT"}

\* An initial core waits for the answers of discovery, or for offers.
WaitsInit(c) ==
  \/ c.state = "IDLE_INIT_MAN"
  \/ c.pending_state \in {"IDLE_INIT_MAN", "AGENT_INIT_IDLE_INIT",
                          "IDLE_INIT_IDLE_AGENT", "IDLE_INIT_AGENT_SELFOPT"}

Expects(c, kind) ==
  IF kind = "init" THEN WaitsInit(c) ELSE c.state = "IDLE_AGENT_WAITING_OFF"

\* What an accepted SIG_INIT_APP does to the states of core c.
AcceptsInitApp(c) ==
  IF c.state \in {"IDLE_AGENT_WAITING_OFF", "AGENT_SELF_CHK_OFFERS",
                  "AGENT_ENDING", "AGENT_INIT_STATE"}
  THEN [c EXCEPT !.pending_state = "INIT_MANAGER"]
  ELSE IF c.state = "IDLE_AGENT"
  THEN [c EXCEPT !.pending_state = "IDLE_AGENT", !.state = "INIT_MANAGER",
                 !.timer = @ /\ ~ c.rem]
  ELSE IF c.pending_state = "AGENT_INIT_STATE"
  THEN [c EXCEPT !.pending_state = "AGENT_INIT_APP_INIT"]
  ELSE IF c.state \in {"WORKING_NODE", "AGENT_SELF_OPT"}
  THEN [c EXCEPT !.pending_state = c.state, !.state = "INIT_MANAGER"]
  ELSE [c EXCEPT !.state = "INIT_MANAGER"]

\* SIG_INIT_APP at a core.  It is rejected if another application is being
\* started here, or to prevent a deadlock with the own controller.
HandleInitApp(n) ==
  /\ Takes(n, "INIT_APP")
  /\ LET s == Head(mail[n])
         p == s.from
         busy == node[n].state \in InitStates
                   \/ node[n].pending_state \in InitPending
         head == HeadType(n, p)
     IN  IF busy
         THEN Becomes(Send(Rest(n), n, p, Reject)) /\ UNCHANGED node
         ELSE IF p = my_idag[n] /\ head \in {"IDAG_ADD_CORES_DDS",
                                              "REMOVE_APP"}
         THEN /\ LET declared ==
                       IF head = "REMOVE_APP"
                       THEN [Rest(n) EXCEPT !.inter[n][p] =
                               Append(@, [type |->
                                            "DECLARE_INIT_AVAILABILITY"])]
                       ELSE Rest(n)
                 IN  Becomes(Send(declared, n, p, Reject))
              /\ UNCHANGED node
         ELSE /\ Becomes(Send(Rest(n), n, p, Ack))
              /\ node' = [node EXCEPT ![n] =
                            AcceptsInitApp([@ EXCEPT !.init_app = s.app])]
  /\ UNCHANGED <<owing, waiting, data, scenario, init_pending, free, history>>
-----------------------------------------------------------------------------
\* A reply of discovery comes too late for the state of the core.
Stray(n, p, type) ==
  /\ n \in Core /\ HeadType(n, p) = type
  /\ ~ Expects(node[n], inter[n][p][1].kind)

\* SIG_IDAG_FIND_IDAGS: a controller finds out the controllers of the region;
\* the core that asked asks each of them for managers (SIG_REQ_DDS).
FindIdags(n) ==
  /\ Takes(n, "FIND_IDAGS")
  /\ LET p == Head(mail[n]).from
         head == HeadType(n, p)
     IN  IF head \in {"none", "REP_IDAG_FIND_IDAGS", "INIT_APP"}
         THEN /\ Becomes(Post(Send(Rest(n), n, p, Ack), n, p,
                              [type |-> "REP_IDAG_FIND_IDAGS"]))
              /\ UNCHANGED node
         ELSE IF Stray(n, p, "IDAG_FIND_IDAGS")
         THEN /\ Becomes(Pop(Send(Rest(n), n, p, Reject), n, p))
              /\ UNCHANGED node
         ELSE IF head = "IDAG_FIND_IDAGS"
         THEN LET kind == inter[n][p][1].kind
                  ask(c, net) ==
                    Post(net, n, c, Asks("IDAG_REQ_DDS_PENDING", kind))
              IN  /\ Becomes(Pop(FoldSet(ask, Send(Rest(n), n, p, Ack),
                                         Region[n]), n, p))
                  /\ node' = [node EXCEPT ![n].idags[kind] =
                                @ + Cardinality(Region[n])]
         ELSE IF head = "IDAG_FIND_IDAGS_PENDING"
         THEN Becomes(Pop(Rest(n), n, p)) /\ UNCHANGED node
         ELSE Becomes(Send(Rest(n), n, p, Reject)) /\ UNCHANGED node
  /\ UNCHANGED <<owing, waiting, data, scenario, init_pending, free, history>>

\* SIG_REQ_DDS: a controller reports its managers; the core that asked counts
\* the reply, acknowledges it and waits for the data.
ReqDds(n) ==
  /\ Takes(n, "REQ_DDS")
  /\ LET s == Head(mail[n])
         p == s.from
         head == HeadType(n, p)
         reply == [type |-> "REP_IDAG_REQ_DDS"]
     IN  IF head = "none"
         THEN /\ Becomes(Post(Send(Rest(n), n, p, Ack), n, p, reply))
              /\ UNCHANGED <<node, waiting>>
         ELSE IF Stray(n, p, "IDAG_REQ_DDS")
         THEN /\ Becomes(Pop(Send(Rest(n), n, p, Reject), n, p))
              /\ UNCHANGED <<node, waiting>>
         ELSE IF head = "IDAG_REQ_DDS"
         THEN /\ Becomes(Send(Rest(n), n, p, Ack))
              /\ node' = [node EXCEPT
                            ![n].replies[inter[n][p][1].kind] = @ + 1]
              /\ waiting' = [waiting EXCEPT ![n] = s]
         ELSE IF head = "IDAG_REQ_DDS_PENDING"
         THEN Becomes(Pop(Rest(n), n, p)) /\ UNCHANGED <<node, waiting>>
         ELSE /\ Becomes(Send(Rest(n), n, p, Reject))
              /\ UNCHANGED <<node, waiting>>
  /\ UNCHANGED <<owing, data, scenario, init_pending, free, history>>

\* With the last reply the targets are asked for cores (left out) and the
\* timer for their offers is set.
Counted(c, kind) ==
  IF c.replies[kind] # c.idags[kind] THEN c
  ELSE IF kind = "init" THEN [c EXCEPT !.timer = TRUE]
  ELSE [c EXCEPT !.timer = TRUE, !.state = "IDLE_AGENT_WAITING_OFF"]

\* The data of a reply have come.
ReqDdsData(n) ==
  /\ waiting[n].sig = "REQ_DDS" /\ data[n] # <<>>
  /\ LET p == waiting[n].from
     IN  /\ node' = [node EXCEPT ![n] = Counted(@, inter[n][p][1].kind)]
         /\ Becomes(Pop(Net, n, p))
  /\ waiting' = [waiting EXCEPT ![n] = NoSignal]
  /\ data' = [data EXCEPT ![n] = Tail(@)]
  /\ UNCHANGED <<owing, scenario, init_pending, free, history>>

\* SIG_INIT_AGENT: the core is made the manager of an application; it
\* acknowledges and waits for the list of its cores.
InitAgent(n) ==
  /\ Takes(n, "INIT_AGENT")
  /\ LET s == Head(mail[n])
     IN  /\ Becomes(Send(Rest(n), n, s.from, Ack))
         /\ waiting' = [waiting EXCEPT ![n] = s]
  /\ UNCHANGED <<node, owing, data, scenario, init_pending, free, history>>

\* Mutant: what the core is starting is forgotten.
AppointsManagerOnly(c) == [c EXCEPT !.state = "AGENT_INIT_STATE"]

\* What the new manager does to the states of core c: it may be starting
\* another application, or still be at work for its last manager.
AppointsManager(c) ==
  IF c.state \in InitStates
  THEN [c EXCEPT !.pending_state = c.state, !.state = "AGENT_INIT_STATE"]
  ELSE IF c.state = "WORKING_NODE"
  THEN [c EXCEPT !.pending_state =
          CASE c.pending_state = "INIT_MAN_CHK_OFFERS" ->
                 "AGENT_INIT_CHK_OFFERS"
            [] c.pending_state = "IDLE_INIT_MAN" -> "AGENT_INIT_IDLE_INIT"
            [] OTHER -> "AGENT_INIT_STATE"]
  ELSE [c EXCEPT !.state = "AGENT_INIT_STATE"]

\* The cores have come; the controller is told about them.
InitAgentData(n) ==
  /\ waiting[n].sig = "INIT_AGENT" /\ data[n] # <<>>
  /\ node' = [node EXCEPT ![n] =
                AppointsManager([@ EXCEPT !.my_app = waiting[n].app,
                                          !.my_cores = Head(data[n])])]
  /\ Becomes(Post(Net, n, my_idag[n], [type |-> "IDAG_ADD_CORES_DDS"]))
  /\ waiting' = [waiting EXCEPT ![n] = NoSignal]
  /\ data' = [data EXCEPT ![n] = Tail(@)]
  /\ UNCHANGED <<owing, scenario, init_pending, free, history>>

\* SIG_ACK: a question is now asked, everything else is over; the peer of a
\* blocking handler gets its data, and controller 0 hears of a new manager.
HandleAck(n) ==
  /\ Takes(n, "ACK")
  /\ LET p == Head(mail[n]).from
         head == HeadType(n, p)
         top == inter[n][p][1]
     IN  /\ Becomes(CASE head = "none" -> Rest(n)
                      [] head = "IDAG_FIND_IDAGS_PENDING" ->
                           Rehead(Rest(n), n, p, "IDAG_FIND_IDAGS")
                      [] head = "IDAG_REQ_DDS_PENDING" ->
                           Rehead(Rest(n), n, p, "IDAG_REQ_DDS")
                      [] head = "INIT_AGENT" ->
                           Pop(Send(Rest(n), n, Zero, Available), n, p)
                      [] OTHER -> Pop(Rest(n), n, p))
         /\ data' = IF head = "INIT_AGENT"
                    THEN [data EXCEPT ![p] = Append(@, top.cores)]
                    ELSE IF head = "REP_IDAG_REQ_DDS"
                    THEN [data EXCEPT ![p] = Append(@, {})]
                    ELSE data
         /\ node' = IF head = "INIT_AGENT" /\ node[n].init_app = top.app
                    THEN [node EXCEPT ![n].init_app = 0] ELSE node
  /\ UNCHANGED <<owing, waiting, scenario, init_pending, free, history>>

\* Mutant: a rejected question does not count as answered.
RejectedUncounted(c, x) ==
  IF x.type \in {"IDAG_REQ_DDS", "IDAG_REQ_DDS_PENDING"}
  THEN [c EXCEPT !.timer = TRUE] ELSE c

\* What a rejected question for discovery does to core c.
Rejected(c, x) ==
  CASE x.type \in {"IDAG_REQ_DDS", "IDAG_REQ_DDS_PENDING"} ->
         LET d == [c EXCEPT !.replies[x.kind] = @ + 1]
         IN  [d EXCEPT !.timer =
                @ \/ d.replies[x.kind] = d.idags[x.kind]]
    [] x.type = "IDAG_FIND_IDAGS_PENDING" ->
         IF x.kind = "init"
         THEN [c EXCEPT !.state = "INIT_MANAGER_SEND_OFFERS"]
         ELSE IF c.pending_state = "INIT_MANAGER"
         THEN [c EXCEPT !.state = "INIT_MANAGER",
                        !.pending_state = "IDLE_AGENT"]
         ELSE [c EXCEPT !.state = "AGENT_SELF_OPT"]
    [] OTHER -> c

\* SIG_REJECT: a rejected INIT_APP goes to the list, with its core; a
\* rejected question counts as answered.
HandleReject(n) ==
  /\ Takes(n, "REJECT")
  /\ LET p == Head(mail[n]).from
         over == {"IDAG_REQ_DDS", "IDAG_REQ_DDS_PENDING",
                  "IDAG_FIND_IDAGS_PENDING", "REP_IDAG_FIND_IDAGS",
                  "REP_IDAG_REQ_DDS", "INIT_APP"}
         head == HeadType(n, p)
     IN  /\ Becomes(IF head \in over THEN Pop(Rest(n), n, p) ELSE Rest(n))
         /\ init_pending' =
              IF head # "INIT_APP" THEN init_pending
              ELSE Append(init_pending,
                          [app |-> inter[n][p][1].app, core |-> p])
         /\ node' = IF n \in Core /\ head # "none"
                    THEN [node EXCEPT ![n] = Rejected(@, inter[n][p][1])]
                    ELSE node
  /\ UNCHANGED <<owing, waiting, data, scenario, free, history>>

\* SIG_ADD_CORES_DDS at a controller (its book is SelfOpt's).
HandleAddCores(n) ==
  /\ Takes(n, "ADD_CORES_DDS")
  /\ Becomes(Send(Rest(n), n, Head(mail[n]).from, Ack))
  /\ UNCHANGED <<node, owing, waiting, data, scenario, init_pending, free,
                 history>>

\* SIG_FINISH at a controller: an application is over.  What the controller
\* still had to do with its manager is dropped, but an INIT_APP is put on the
\* list - without its core, the field that names it is still 0.
HandleFinish(n) ==
  /\ n \in Controller /\ Takes(n, "FINISH")
  /\ LET s == Head(mail[n])
         dropped == SelectSeq(inter[n][s.from],
                              LAMBDA x : x.type = "INIT_APP")
         again == [i \in DOMAIN dropped |->
                     [app |-> dropped[i].app, core |-> Zero]]
     IN  /\ Becomes(Send([Rest(n) EXCEPT !.inter[n][s.from] = <<>>],
                         n, s.from, Ack))
         /\ init_pending' = init_pending \o again
         /\ free' = free \cup s.cores
  /\ UNCHANGED <<node, owing, waiting, data, scenario, history>>

\* SIG_FINISH at a manager: a worker is done.
WorkerDone(n) ==
  /\ n \in Core /\ Takes(n, "FINISH")
  /\ LET left == owing[n] \ {Head(mail[n]).from}
     IN  /\ owing' = [owing EXCEPT ![n] = left]
         /\ node' = [node EXCEPT ![n].app_state =
                       IF left = {} THEN "APP_TERMINATED" ELSE @]
  /\ Becomes(Rest(n))
  /\ UNCHANGED <<waiting, data, scenario, init_pending, free, history>>

\* What work does to the states of core c.
AppointsWork(c) ==
  CASE c.state = "IDLE_INIT_MAN" ->
         [c EXCEPT !.state = "WORKING_NODE", !.pending_state =
            CASE @ = "AGENT_SELF_OPT" -> "IDLE_INIT_AGENT_SELFOPT"
              [] @ = "IDLE_AGENT" -> "IDLE_INIT_IDLE_AGENT"
              [] @ = "NO_PENDING_STATE" -> "IDLE_INIT_MAN"
              [] OTHER -> @]
    [] c.state = "AGENT_INIT_STATE" ->
         [c EXCEPT !.state = "WORKING_NODE", !.pending_state =
            IF @ = "IDLE_INIT_MAN" THEN "AGENT_INIT_IDLE_INIT"
            ELSE "AGENT_INIT_STATE"]
    [] c.state \in InitStates \ {"IDLE_INIT_MAN"} ->
         [c EXCEPT !.pending_state = "WORKING_NODE"]
    [] OTHER -> [c EXCEPT !.state = "WORKING_NODE"]

\* SIG_APPOINT_WORK at a worker (Workload has the rejections by managers and
\* what an agent that is not forgotten after its work does).
HandleAppoint(n) ==
  /\ Takes(n, "APPOINT_WORK")
  /\ node' = [node EXCEPT ![n] = AppointsWork([@ EXCEPT !.agents =
                Append(@, Head(mail[n]).from)])]
  /\ Becomes(Rest(n))
  /\ UNCHANGED <<owing, waiting, data, scenario, init_pending, free, history>>
-----------------------------------------------------------------------------
\* The program of a core between signals: the states of common_core.c.
Idle(n, s) == waiting[n] = NoSignal /\ ~ node[n].inside /\ node[n].state = s

\* Core n becomes c, and nothing else in the program changes.
Sets(n, c) ==
  /\ node' = [node EXCEPT ![n] = c]
  /\ UNCHANGED <<owing, netVars, scenario, init_pending, free, ended>>
Only(n, c) == Sets(n, c) /\ UNCHANGED ghosts

InitManager(n) ==
  /\ Idle(n, "INIT_MANAGER")
  /\ Only(n, [node[n] EXCEPT !.state = "INIT_MANAGER_SEND_OFFERS"])

\* Discovery starts for the application to be started; a timer that runs for
\* self-optimisation is stopped, and work goes on in between.
SendOffers(n) ==
  /\ Idle(n, "INIT_MANAGER_SEND_OFFERS")
  /\ LET c == node[n]
         asks == [c EXCEPT !.idags.init = 0, !.replies.init = 0,
                           !.timer = @ /\ ~ c.rem]
     IN  node' = [node EXCEPT ![n] =
           IF c.pending_state = "WORKING_NODE"
           THEN [asks EXCEPT !.state = "WORKING_NODE",
                             !.pending_state = "IDLE_INIT_MAN"]
           ELSE [asks EXCEPT !.state = "IDLE_INIT_MAN"]]
  /\ Becomes(Post(Net, n, my_idag[n],
                  Asks("IDAG_FIND_IDAGS_PENDING", "init")))
  /\ UNCHANGED <<owing, waiting, data, scenario, init_pending, free, history>>

\* IDLE_INIT_MAN with the own application over.  The timer may go off between
\* the test and the assignment, which then undoes what it did.
EndFirst(n) ==
  /\ Idle(n, "IDLE_INIT_MAN") /\ node[n].app_state = "APP_TERMINATED"
  /\ \E timer \in {node[n].timer, FALSE} :
       Only(n, [node[n] EXCEPT !.state = "AGENT_ENDING",
                               !.pending_state = "IDLE_INIT_MAN",
                               !.timer = timer])

\* No offer has come: discovery starts again, after the end of the own
\* application if that is over.
NoOffers(n) ==
  /\ Idle(n, "INIT_MAN_CHK_OFFERS")
  /\ Only(n, IF node[n].app_state = "APP_TERMINATED"
             THEN [node[n] EXCEPT !.state = "AGENT_ENDING",
                     !.pending_state = "INIT_MANAGER_SEND_OFFERS"]
             ELSE [node[n] EXCEPT !.state = "INIT_MANAGER_SEND_OFFERS"])

\* Mutant: the core looks for offers again.
PassedAgain(c, left) == [c EXCEPT !.state = "INIT_MANAGER_SEND_OFFERS"]

\* What core c does once another core is to manage the application; IDLE_CORE
\* forgets the pending state.  left: time is left on the timer of
\* self-optimisation.
Passed(c, left) ==
  IF c.app_state = "APP_TERMINATED"
  THEN [c EXCEPT !.rem = FALSE, !.state = "AGENT_ENDING"]
  ELSE IF c.rem /\ left THEN [c EXCEPT !.timer = TRUE, !.state = "IDLE_AGENT"]
  ELSE IF c.rem THEN [c EXCEPT !.rem = FALSE, !.state = "AGENT_SELF_OPT"]
  ELSE IF c.pending_state \in {"IDLE_AGENT", "AGENT_SELF_OPT", "WORKING_NODE"}
  THEN [c EXCEPT !.state = c.pending_state,
                 !.pending_state = "NO_PENDING_STATE"]
  ELSE [c EXCEPT !.state = "IDLE_CORE", !.pending_state = "NO_PENDING_STATE"]

\* Mutant: one core more.
EnoughMore(cores) == Cardinality(cores) > 2

\* A manager and a worker: a controller adds a second core to its offer
\* whenever it has one (a manager without worker is SelfOpt's subject).
Enough(cores) == Cardinality(cores) > 1

\* An offer of at least two cores is accepted and one of them becomes the
\* manager.  If that is the core itself it tells controller 0 and its own;
\* otherwise it sends SIG_INIT_AGENT.
TakeOffer(n) ==
  /\ Idle(n, "INIT_MAN_CHK_OFFERS")
  /\ \E cores \in SUBSET free : \E agent \in cores :
       /\ Enough(cores)
       /\ free' = free \ cores
       /\ IF agent = n
          THEN /\ node' = [node EXCEPT ![n].my_app = node[n].init_app,
                                       ![n].my_cores = cores,
                                       ![n].state = "AGENT_INIT_STATE"]
               /\ Becomes(Post(Send(Net, n, Zero, Available), n, my_idag[n],
                               [type |-> "IDAG_ADD_CORES_DDS"]))
          ELSE /\ \E left \in BOOLEAN :
                    node' = [node EXCEPT ![n] = Passed(@, left)]
               /\ Becomes(Post(Net, n, agent,
                               [type |-> "INIT_AGENT", cores |-> cores,
                                app |-> node[n].init_app]))
  /\ UNCHANGED <<owing, waiting, data, scenario, init_pending, history>>

\* AGENT_INIT_STATE: the workers get their work.  No self-optimisation with
\* all the cores the application can use or little time left (a choice).
AgentInit(n) ==
  /\ Idle(n, "AGENT_INIT_STATE")
  /\ LET workers == node[n].my_cores \ {n}
         runs == [node[n] EXCEPT !.app_state = "RUNNING"]
     IN  /\ owing' = [owing EXCEPT ![n] = workers]
         /\ mail' = [m \in Node |->
                       IF m \in workers
                       THEN Append(mail[m], [sig |-> "APPOINT_WORK",
                                             from |-> n])
                       ELSE mail[m]]
         /\ \E optimise \in BOOLEAN :
              LET next == IF optimise THEN "AGENT_SELF_OPT" ELSE "IDLE_AGENT"
                  goes == [runs EXCEPT !.rem = @ /\ optimise]
              IN  node' = [node EXCEPT ![n] =
                    IF goes.pending_state \in InitStates \cup {"WORKING_NODE"}
                    THEN [goes EXCEPT !.state = goes.pending_state,
                                      !.pending_state = next]
                    ELSE [goes EXCEPT !.state = next]]
  /\ UNCHANGED <<inter, waiting, data, scenario, init_pending, free, history>>

\* AGENT_SELF_OPT: discovery for the running application starts.
SelfOptStart(n) ==
  /\ Idle(n, "AGENT_SELF_OPT")
  /\ IF node[n].app_state = "APP_TERMINATED"
     THEN /\ node' = [node EXCEPT ![n].state = "AGENT_ENDING"]
          /\ UNCHANGED <<inter, mail>>
     ELSE /\ node' = [node EXCEPT
                        ![n].idags.selfopt = 0, ![n].replies.selfopt = 0,
                        ![n].rounds = IF @ > 0 THEN @ - 1 ELSE 0,
                        ![n].state = "IDLE_AGENT_WAITING_OFF"]
          /\ Becomes(Post(Net, n, my_idag[n],
                          Asks("IDAG_FIND_IDAGS_PENDING", "selfopt")))
  /\ UNCHANGED <<owing, waiting, data, scenario, init_pending, free, history>>

\* AGENT_SELF_CHK_OFFERS, with no offer: the timer is set for the next round
\* or not, and an application to be started comes first.
SelfChkOffers(n) ==
  /\ Idle(n, "AGENT_SELF_CHK_OFFERS")
  /\ LET c == node[n]
     IN  IF c.app_state = "APP_TERMINATED"
         THEN Only(n, [c EXCEPT !.state = "AGENT_ENDING", !.pending_state =
                         IF @ = "IDLE_AGENT" THEN "NO_PENDING_STATE" ELSE @])
         ELSE \E next \in {FALSE} \cup {c.rounds > 0} :
                LET set == [c EXCEPT !.rem = next, !.timer = @ \/ next]
                IN  Only(n, IF c.pending_state = "INIT_MANAGER"
                            THEN [set EXCEPT !.state = "INIT_MANAGER",
                                             !.pending_state = "IDLE_AGENT"]
                            ELSE [set EXCEPT !.state = "IDLE_AGENT"])

\* IDLE_AGENT: the first line looks at the application, signals are handled,
\* and the state is AGENT_ENDING if the application is over by then, whatever
\* the signals made of it.
IdleEnter(n) ==
  /\ Idle(n, "IDLE_AGENT")
  /\ node[n].app_state # "APP_TERMINATED" => mail[n] # <<>>
  /\ Only(n, [node[n] EXCEPT !.inside = TRUE,
                !.state = IF node[n].app_state = "APP_TERMINATED"
                          THEN "AGENT_ENDING" ELSE @])

IdleExit(n) ==
  /\ waiting[n] = NoSignal /\ node[n].inside
  /\ Only(n, IF node[n].app_state = "APP_TERMINATED"
             THEN [node[n] EXCEPT !.inside = FALSE, !.state = "AGENT_ENDING",
                                  !.timer = FALSE, !.rem = FALSE]
             ELSE [node[n] EXCEPT !.inside = FALSE])

\* Mutant: the pending state is taken as it is.
WorkedAsPending(c) ==
  [c EXCEPT !.state = c.pending_state, !.pending_state = "NO_PENDING_STATE"]

\* The states of core c after work, when nobody else has appointed it.
Worked(c) ==
  LET to(state, pending) ==
        [c EXCEPT !.state = state, !.pending_state = pending]
      none == "NO_PENDING_STATE"
      p == c.pending_state
  IN  CASE p = "WORKING_NODE" -> to(c.state, none)
        [] p \in {"IDLE_AGENT", "AGENT_SELF_OPT", "INIT_MAN_CHK_OFFERS",
                  "IDLE_INIT_MAN"} -> to(p, none)
        [] p = "AGENT_INIT_STATE" -> to(p, none)
        [] p = "AGENT_INIT_APP_INIT" -> to("AGENT_INIT_STATE", "INIT_MANAGER")
        [] p = "AGENT_INIT_CHK_OFFERS" ->
             to("AGENT_INIT_STATE", "INIT_MAN_CHK_OFFERS")
        [] p = "AGENT_INIT_IDLE_INIT" ->
             to("AGENT_INIT_STATE", "IDLE_INIT_MAN")
        [] p = "IDLE_INIT_AGENT_SELFOPT" ->
             to("IDLE_INIT_MAN", "AGENT_SELF_OPT")
        [] p = "IDLE_INIT_IDLE_AGENT" -> to("IDLE_INIT_MAN", "IDLE_AGENT")
        [] p = "INIT_CHK_OFFERS_SELFOPT" ->
             to("INIT_MAN_CHK_OFFERS", "AGENT_SELF_OPT")
        [] p = "INIT_CHK_OFFERS_IDLE_AGENT" ->
             to("INIT_MAN_CHK_OFFERS", "IDLE_AGENT")
        [] OTHER -> to("IDLE_CORE", none)

\* WORKING_NODE: the work is done, the manager told, and the work of the
\* next one comes.
Work(n) ==
  /\ Idle(n, "WORKING_NODE")
  /\ LET agents == node[n].agents
         done == [node[n] EXCEPT !.agents = Tail(@)]
     IN  /\ Becomes(Send(Net, n, Head(agents), [sig |-> "FINISH"]))
         /\ node' = [node EXCEPT ![n] =
                       IF Len(agents) = 1 THEN Worked(done) ELSE done]
  /\ UNCHANGED <<owing, waiting, data, scenario, init_pending, free, history>>

\* AGENT_ENDING: the cores are given back, and what is pending comes next.
Ending(n) ==
  /\ Idle(n, "AGENT_ENDING")
  /\ LET c == node[n]
         over == [c EXCEPT !.my_app = 0, !.my_cores = {}, !.rem = FALSE,
                           !.app_state = "NO_APP",
                           !.pending_state = "NO_PENDING_STATE"]
     IN  /\ node' = [node EXCEPT ![n] = [over EXCEPT !.state =
                       IF c.pending_state \in InitStates THEN c.pending_state
                       ELSE "IDLE_CORE"]]
         /\ Becomes(Post(Net, n, my_idag[n],
                         [type |-> "REMOVE_APP", cores |-> c.my_cores]))
         /\ ended' = ended \cup {c.my_app}
  /\ UNCHANGED <<owing, waiting, data, scenario, init_pending, free, ghosts>>

\* The timer goes off, also while a handler waits.  In AGENT_ENDING, where
\* it may still be the timer of self-optimisation (IdleEnter), the core goes
\* on to offers for init_app, whether that is to be started or not.
Timer(n) ==
  /\ node[n].timer
  /\ ghosts' = IF node[n].state = "AGENT_ENDING"
                  /\ node[n].pending_state \notin InitStates
               THEN ghosts \cup {node[n].init_app} ELSE ghosts
  /\ LET c == [node[n] EXCEPT !.timer = FALSE]
         pending(s) == [c EXCEPT !.pending_state = s]
         s == c.state
         p == c.pending_state
     IN  Sets(n,
           CASE s = "IDLE_INIT_MAN" ->
                  [c EXCEPT !.state = "INIT_MAN_CHK_OFFERS"]
             [] s = "IDLE_AGENT_WAITING_OFF" ->
                  [c EXCEPT !.state = "AGENT_SELF_CHK_OFFERS"]
             [] s = "IDLE_AGENT" -> [c EXCEPT !.state = "AGENT_SELF_OPT"]
             [] s = "AGENT_ENDING" -> pending("INIT_MAN_CHK_OFFERS")
             [] s \in {"AGENT_INIT_STATE", "WORKING_NODE"}
                  /\ p = "IDLE_INIT_MAN" -> pending("INIT_MAN_CHK_OFFERS")
             [] s # "AGENT_INIT_STATE" /\ p = "AGENT_INIT_IDLE_INIT" ->
                  pending("AGENT_INIT_CHK_OFFERS")
             [] s = "WORKING_NODE" /\ p = "IDLE_INIT_AGENT_SELFOPT" ->
                  pending("INIT_CHK_OFFERS_SELFOPT")
             [] s = "WORKING_NODE" /\ p = "IDLE_INIT_IDLE_AGENT" ->
                  pending("INIT_CHK_OFFERS_IDLE_AGENT")
             [] OTHER -> c)
-----------------------------------------------------------------------------
Handle(n) ==
  \/ FindIdags(n) \/ ReqDds(n) \/ HandleAck(n) \/ HandleReject(n)
  \/ HandleAddCores(n) \/ HandleFinish(n)
  \/ /\ n \in Core
     /\ \/ HandleInitApp(n) \/ ReqDdsData(n) \/ InitAgent(n)
        \/ InitAgentData(n) \/ WorkerDone(n) \/ HandleAppoint(n)

Program(n) ==
  \/ InitManager(n) \/ SendOffers(n) \/ EndFirst(n) \/ NoOffers(n)
  \/ TakeOffer(n) \/ AgentInit(n) \/ SelfOptStart(n) \/ SelfChkOffers(n)
  \/ IdleEnter(n) \/ IdleExit(n) \/ Work(n) \/ Ending(n)

Next ==
  \/ Submit \/ SendAborted \/ OfferAborted
  \/ \E n \in Node : Handle(n)
  \/ \E n \in Core : Program(n) \/ Timer(n)

Spec == Init /\ [][Next]_vars

\* What a core does sooner or later between signals.
Goes(n) ==
  \/ Timer(n)
  \/ Program(n) /\ (IdleEnter(n) => node[n].app_state = "APP_TERMINATED")

\* Every node handles its signals and goes on, controller 0 reads its file;
\* and an initial core that looks for offers again and again, with cores to
\* be had, gets some.
FairSpec ==
  /\ Spec
  /\ WF_vars(Submit) /\ WF_vars(SendAborted) /\ WF_vars(OfferAborted)
  /\ \A n \in Node : WF_vars(Handle(n))
  /\ \A n \in Core : WF_vars(Goes(n)) /\ SF_vars(TakeOffer(n))
-----------------------------------------------------------------------------
States ==
  InitStates \cup {"IDLE_CORE", "AGENT_INIT_STATE", "AGENT_SELF_OPT",
    "IDLE_AGENT_WAITING_OFF", "AGENT_SELF_CHK_OFFERS", "IDLE_AGENT",
    "AGENT_ENDING", "WORKING_NODE"}
PendingStates ==
  InitPending \cup Overlooked \cup {"NO_PENDING_STATE", "IDLE_AGENT",
    "AGENT_SELF_OPT", "AGENT_INIT_STATE", "WORKING_NODE"}
Kinds == {"init", "selfopt"}
Apps == App \cup {0}

TypeOK ==
  /\ node \in [Core -> [state : States, pending_state : PendingStates,
        app_state : {"NO_APP", "RUNNING", "APP_TERMINATED"},
        my_app : Apps, my_cores : SUBSET Core, init_app : Apps,
        agents : UNION {[1..k -> Core] : k \in 0..2},
        timer : BOOLEAN, rem : BOOLEAN, inside : BOOLEAN, rounds : Nat,
        idags : [Kinds -> Nat], replies : [Kinds -> Nat]]]
  /\ owing \in [Core -> SUBSET Core]
  /\ DOMAIN inter = Node /\ \A n \in Node : DOMAIN inter[n] = Node
  /\ DOMAIN mail = Node /\ DOMAIN data = Node /\ DOMAIN waiting = Node
  /\ \A n \in Node : waiting[n].sig \in {"none", "REQ_DDS", "INIT_AGENT"}
  /\ \A i \in DOMAIN scenario : scenario[i] \in [app : App, core : Core]
  /\ \A i \in DOMAIN init_pending :
       init_pending[i] \in [app : App, core : Core \cup {Zero}]
  /\ free \subseteq Core /\ ended \subseteq Apps /\ ghosts \subseteq Apps

\* The interactions of core n that ask for a kind of discovery.
Open(n, kind, types) ==
  {<<p, i>> \in UNION {{p} \X DOMAIN inter[n][p] : p \in Controller} :
     inter[n][p][i].type \in types /\ inter[n][p][i].kind = kind}
Requests == {"IDAG_REQ_DDS_PENDING", "IDAG_REQ_DDS"}
Finds == {"IDAG_FIND_IDAGS_PENDING", "IDAG_FIND_IDAGS"}

\* The reply whose data core n waits for is already counted.
Replying(n, kind) ==
  IF waiting[n].sig = "REQ_DDS"
     /\ inter[n][waiting[n].from][1].kind = kind THEN 1 ELSE 0

\* RepliesAddUp: the replies a core has counted and the requests it still has
\* out are the controllers it is to ask: no reply of an earlier discovery, and
\* none that came after a rejection, is counted for the one under way, so the
\* timer for the offers is set when all have answered and not before.  The
\* counters are set to 0 in common_core.c (SendOffers, SelfOptStart), counted
\* up in sig_REQ_DDS_handler and sig_REJECT_handler and compared in both.
RepliesAddUp ==
  \A n \in Core, kind \in Kinds :
    node[n].replies[kind] + Cardinality(Open(n, kind, Requests))
      - Replying(n, kind) = node[n].idags[kind]

\* The applications the scenario had so far.
Submitted == App \ {scenario[k].app : k \in DOMAIN scenario}

\* Where an application can be before it has ended: on the list, for a core;
Listed(i) ==
  \E k \in DOMAIN init_pending :
    init_pending[k].app = i /\ init_pending[k].core # Zero
\* sent or to be sent to its initial core, with the answer still to come;
Sent(i) ==
  \E n \in Core : \E k \in DOMAIN inter[Zero][n] :
    /\ inter[Zero][n][k] = InitApp(i)
    /\ k = 1 => \/ Contains(mail[n],
                            SignalOf(InitApp(i)) @@ [from |-> Zero])
                \/ Contains(mail[Zero], Reject @@ [from |-> n])
\* at its initial core, unless that waits for a timer nobody sets any more;
Deaf(n) ==
  /\ WaitsInit(node[n]) /\ ~ node[n].timer
  /\ Open(n, "init", Requests \cup Finds) = {}
Held(i) ==
  \E n \in Core :
    /\ node[n].init_app = i /\ ~ Deaf(n)
    /\ \/ node[n].state \in InitStates
       \/ node[n].pending_state \in InitPending \cup Overlooked
\* on the way to its manager;
Handed(i) ==
  \E n, m \in Core :
    \/ waiting[n].sig = "INIT_AGENT" /\ waiting[n].app = i
    \/ \E k \in DOMAIN inter[n][m] :
         inter[n][m][k].type = "INIT_AGENT" /\ inter[n][m][k].app = i
\* or with its manager.
Managed(i) ==
  \E n \in Core :
    /\ node[n].my_app = i
    /\ \/ node[n].app_state # "NO_APP" \/ node[n].state = "AGENT_INIT_STATE"
       \/ node[n].pending_state \in Overlooked \cup {"AGENT_INIT_STATE",
                                                    "AGENT_INIT_CHK_OFFERS"}
Kept(i) == Listed(i) \/ Sent(i) \/ Held(i) \/ Handed(i) \/ Managed(i)
             \/ i \in ended

\* AppKept: an application of the scenario is never lost: controller 0, an
\* initial core or a manager has it until it ends.  Controller 0 waits for the
\* end of as many applications as it has read (num_apps_terminated ==
\* num_apps, my_rtrm.c 680).  The code does lose some (LostOnlyBy).
AppKept == \A i \in Submitted : Kept(i)

\* The ways an application gets lost: dropped with the interactions of a
\* manager whose application is over (sig_FINISH_handler),
DroppedAtFinish(i) ==
  \E k \in DOMAIN init_pending' :
    init_pending'[k] = [app |-> i, core |-> Zero]
\* overwritten by AGENT_ENDING when SIG_INIT_APP and the last SIG_FINISH are
\* handled in the same pass through IDLE_AGENT,
LeftAtExit(n) ==
  node[n].inside /\ ~ node'[n].inside /\ node'[n].state = "AGENT_ENDING"
    /\ node[n].state \in InitStates
\* overwritten by another one, in a pending state that sig_INIT_APP_handler
\* does not look for,
Overwritten(n) ==
  node[n].pending_state \in Overlooked
    /\ node'[n].init_app # node[n].init_app
\* or left without its timer, which went off inside IDLE_INIT_MAN.
TimerUndone(n) ==
  node[n].state = "IDLE_INIT_MAN" /\ node'[n].state = "AGENT_ENDING"
    /\ node[n].timer /\ ~ node'[n].timer

\* LostOnlyBy: in no other way does an application get lost, whatever the
\* interleaving of its signals with the end of another application of the
\* same core, with work, with rejections and with timers.  (sig_INIT_APP_,
\* REJECT_, FINISH_, INIT_AGENT_, APPOINT_WORK_, TIMER_handler and the states
\* of common_core.c, which all rewrite state and pending_state.)
LostOnlyBy ==
  [][\A i \in Submitted :
       Kept(i) /\ ~ Kept(i)' =>
         \/ DroppedAtFinish(i)
         \/ \E n \in Core : LeftAtExit(n) \/ Overwritten(n)
                              \/ TimerUndone(n)]_vars

\* StartedOnce: a manager runs an application that was submitted and has not
\* ended, and no other manager runs the same one, though INIT_APPs are sent
\* again after rejections, by two routes (SendAborted, OfferAborted).  What a
\* timer started for no SIG_INIT_APP is left out (ghosts, see Timer).
StartedOnce ==
  \A n \in Core :
    node[n].app_state # "NO_APP" /\ node[n].my_app \notin ghosts =>
      /\ node[n].my_app \in Submitted \ ended
      /\ \A m \in Core \ {n} :
           node[m].app_state # "NO_APP" => node[m].my_app # node[n].my_app

Started(i) ==
  i \in ended \/ \E n \in Core :
    node[n].my_app = i /\ node[n].app_state # "NO_APP"

\* AppsStart: unless one gets lost, every application of the scenario is
\* started in the end: rejected INIT_APPs are sent again until one is taken,
\* discovery is repeated until there are cores (IDLE_IDAG_INIT_SEND in
\* my_rtrm.c, INIT_MAN_CHK_OFFERS in common_core.c), and the ends of other
\* applications on the same cores do not get in the way for ever.
AppsStart == <>[](AppKept => \A i \in App : Started(i))
=============================================================================
