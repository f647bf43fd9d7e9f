-------------------------- MODULE FailureDetector ---------------------------
(***************************************************************************)
(* The failure detectors of the fault-tolerant builds                      *)
(* (paxos_signal_handlers.c 1429-1943): every core asks others for a sign  *)
(* of life, suspects those that give none, and acts on the suspicion.  A   *)
(* build has one of four detectors: PFD and EPFD believe in heartbeats     *)
(* only, tPFD and tEPFD in any signal (scc_signals.c 491-495) and ask only *)
(* those that were silent.  sig_PFD_TIMER_handler serves PFD and tPFD.     *)
(*                                                                         *)
(* A core that crashes does nothing any more; crashes come from outside.   *)
(* Time is left out but for one assumption, OnTime: a detector's timer     *)
(* goes off again only when cores that live have answered.  Perfect        *)
(* detection rests on it, as no detector can tell slow from dead.  The     *)
(* period of EPFD and tEPFD, which only grows, is left out with it.        *)
(*                                                                         *)
(* Abstracted: an election is only a flag here (Paxos has the rest), the   *)
(* order of my_cores is that of the numbers, APPOINT_WORK does not queue   *)
(* behind other interactions, and a manager's negotiations (SelfOpt) are   *)
(* left out.  Configurations are the builds and topologies looked at; one  *)
(* is chosen at the start and stays.                                       *)
(***************************************************************************)
EXTENDS Integers, FiniteSets, FiniteSetsExt

CONSTANTS
  Core,            \* numbers of cores
  Portion, NoWork, \* portions of the workload; NoWork is (-1, -1)
  Configurations,  \* [build, cores, idag_mask, manager, workload]
  MaxCrashes

NoCore == -1
Build == {"PFD", "tPFD", "EPFD", "tEPFD"}

ASSUME CoreAssumption == Core \subseteq Nat /\ IsFiniteSet(Core)
ASSUME ConfigurationAssumption ==
  /\ NoWork \notin Portion
  /\ \A cfg \in Configurations :
       /\ cfg.build \in Build /\ cfg.cores \subseteq Core
       /\ cfg.idag_mask \in [cfg.cores -> cfg.cores]
       /\ cfg.manager \in cfg.cores /\ DOMAIN cfg.workload \subseteq cfg.cores
       /\ \A w \in DOMAIN cfg.workload :
            cfg.workload[w] \in Portion \cup {NoWork}

VARIABLES
  conf,         \* the configuration
  crashed,      \* the cores that have crashed
  first_time,   \* [Core -> 0..1]
  alive,        \* [Core -> [Core -> 0..1]], -1 lasts only within a handler
  suspected,    \* [Core -> [Core -> -1..3]], counted up to 3: the code
                \* compares it with at most 2
  faulty_core,  \* [Core -> the last core suspected]
  paxos_active, \* [Core -> BOOLEAN]
  my_cores,     \* [Core -> cores of a controller, workers of a manager]
  DDS,          \* [Core -> managers a controller knows]
  mail,         \* signals not handled yet
  work,         \* [Core -> portions it was given]
  detected      \* [Core -> cores it ever suspected]: not in the code

detectorVars == <<alive, suspected, faulty_core, detected>>
bookVars == <<my_cores, DDS>>
vars == <<conf, crashed, first_time, detectorVars, paxos_active, bookVars,
          mail, work>>

ImController(n) == conf.idag_mask[n] = n
MyIdag(n) == IF ImController(n) THEN NoCore ELSE conf.idag_mask[n]
SameCluster(n, i) == i # n /\ conf.idag_mask[i] = conf.idag_mask[n]
Workers == DOMAIN conf.workload
Tweaked == conf.build \in {"tPFD", "tEPFD"}
Eventual == conf.build \in {"EPFD", "tEPFD"}

\* The first period is the last digit of the core's number; 0 disarms.
Armed(n) == (n % 10) # 0

SignalTo(sig, n, t, w) == [sig |-> sig, from |-> n, to |-> t, work |-> w]

Init ==
  /\ conf \in Configurations
  /\ crashed = {}
  /\ first_time = [n \in Core |-> 0]
  /\ alive = [n \in Core |-> [i \in Core |-> 1]]
  /\ suspected = [n \in Core |-> [i \in Core |-> 0]]
  /\ faulty_core = [n \in Core |-> NoCore]
  /\ paxos_active = [n \in Core |-> FALSE]
  /\ my_cores = [n \in Core |->
       IF n = conf.manager THEN Workers
       ELSE {i \in conf.cores : n \in conf.cores /\ ImController(n)
                                /\ SameCluster(n, i)}]
  /\ DDS = [n \in Core |->
       IF /\ n \in conf.cores /\ ImController(n)
          /\ \E i \in Workers \cup {conf.manager} : SameCluster(n, i)
       THEN {conf.manager} ELSE {}]
  /\ mail = {}
  /\ work = [n \in Core |->
       IF n \in Workers THEN {conf.workload[n]} \ {NoWork} ELSE {}]
  /\ detected = [n \in Core |-> {}]
-----------------------------------------------------------------------------
(* The timer's handler visits all cores in the order of their numbers.     *)

\* How often i has been silent, as n counts now.  EPFD does not count a core
\* once suspected until it is heard of; PFD counts it from -1 again.
CountedDown(n, i) ==  \* a defect: silence lowers the count
  IF alive[n][i] = 1 THEN 0 ELSE suspected[n][i] - 1
Counted(n, i) ==
  IF alive[n][i] = 1 THEN IF Eventual THEN 0 ELSE suspected[n][i]
  ELSE IF Eventual /\ suspected[n][i] = -1 THEN -1
  ELSE IF suspected[n][i] = 3 THEN 3 ELSE suspected[n][i] + 1

Silent(n) == {i \in conf.cores : alive[n][i] = 0}

\* Silent long enough to have had a period for an answer?
TooLongAtOnce(n, i) == TRUE  \* a defect: nobody is asked first
TooLong(n, i) ==
  CASE conf.build = "PFD" -> TRUE
    [] conf.build = "tPFD" -> Counted(n, i) = 2
    [] Eventual -> Counted(n, i) > 2

\* Is i suspected, given whom n suspected last?  PFD suspects one core for
\* good, the first; EPFD nobody twice in a row.
MayFollowNobody(n, i, late) == faulty_core[n] = NoCore  \* a defect
MayFollow(n, i, late) ==
  CASE conf.build = "PFD" -> faulty_core[n] = NoCore /\ i = Min(late)
    [] conf.build = "tPFD" -> TRUE
    [] Eventual -> i # faulty_core[n] \/ i # Min(late)

\* The cores n suspects now.
NowFaulty(n) ==
  LET late == {i \in Silent(n) :
                 (Eventual \/ SameCluster(n, i)) /\ TooLong(n, i)}
  IN  {i \in late : MayFollow(n, i, late)}

\* The cores n asks for a heartbeat, those it does not suspect.
Asked(n) ==
  CASE conf.build = "PFD" -> {i \in conf.cores : SameCluster(n, i)}
    [] conf.build = "tPFD" -> {i \in Silent(n) : SameCluster(n, i)}
    [] conf.build = "EPFD" -> {i \in Silent(n) : Counted(n, i) # -1}
    [] conf.build = "tEPFD" -> {i \in Silent(n) : Counted(n, i) = 2}

\* Those in clusters of controllers that failed, other than its own, are told.
ToldAll(n, failed) ==  \* a defect: all are told, not those clusters only
  {j \in conf.cores \ {n} :
     \E i \in failed \ {j} : ImController(i) /\ i # MyIdag(n)}
Told(n, failed) ==
  {j \in conf.cores :
     \E i \in failed : ImController(i) /\ i # MyIdag(n) /\ SameCluster(i, j)}

\* A manager gives the work of a worker that failed to the first one that has
\* none, and does not note down that this one has work now.
ReappointedNobody(n, failed) == {}  \* a defect: the worker is only removed
Reappointed(n, failed) ==
  LET spare(v) == {u \in my_cores[n] : conf.workload[u] = NoWork
                                       /\ (u \in failed => u > v)}
      dropped == {v \in failed \cap my_cores[n] : n = conf.manager}
  IN  {SignalTo("APPOINT_WORK", n, Min(spare(v)), conf.workload[v]) :
         v \in {d \in dropped : spare(d) # {}}}

\* n loses its controller or, as a worker, its manager.
LosesLeaderManager(n, failed) ==  \* a defect: the controller is forgotten
  n \in Workers /\ conf.manager \in failed
LosesLeader(n, failed) ==
  \/ MyIdag(n) \in failed
  \/ n \in Workers /\ conf.manager \in failed

\* Whom n strikes off: a controller those of its cluster, a manager workers.
Struck(n, failed) ==
  IF n = conf.manager THEN failed
  ELSE IF ImController(n) THEN {i \in failed : SameCluster(n, i)} ELSE {}

\* Nothing a living core has to answer to n, or has answered, is outstanding.
OnTime(n) ==
  \A m \in mail :
    /\ m.sig = "HEARTBEAT_REQ" => m.from # n
    /\ m.sig = "HEARTBEAT_REP" => m.to # n \/ m.from \in crashed

\* The first time, the PFD timer only sets the period.
FirstTimer(n) ==
  /\ n \in conf.cores \ crashed /\ Armed(n)
  /\ ~ Eventual /\ first_time[n] = 0
  /\ first_time' = [first_time EXCEPT ![n] = 1]
  /\ UNCHANGED <<conf, crashed, detectorVars, paxos_active, bookVars, mail,
                 work>>

TimerHandler(n) ==
  /\ n \in conf.cores \ crashed /\ Armed(n) /\ OnTime(n)
  /\ Eventual \/ first_time[n] = 1
  /\ LET failed == NowFaulty(n)
         sent ==
           {SignalTo("HEARTBEAT_REQ", n, i, NoWork) : i \in Asked(n) \ failed}
           \cup {SignalTo("CONTR_TO", n, j, NoWork) : j \in Told(n, failed)}
           \cup Reappointed(n, failed)
     IN  /\ suspected' = [suspected EXCEPT ![n] = [i \in Core |->
              IF i \notin conf.cores THEN @[i]
              ELSE IF i \in failed THEN -1 ELSE Counted(n, i)]]
         /\ faulty_core' = [faulty_core EXCEPT ![n] =
              IF failed = {} THEN @ ELSE Max(failed)]
         /\ detected' = [detected EXCEPT ![n] = @ \cup failed]
         /\ paxos_active' = [paxos_active EXCEPT ![n] =
              @ \/ LosesLeader(n, failed)]
         /\ my_cores' = [my_cores EXCEPT ![n] = @ \ Struck(n, failed)]
         /\ DDS' = [DDS EXCEPT ![n] = @ \ Struck(n, failed)]
         /\ mail' = mail \cup {m \in sent : m.to \notin crashed}
  /\ alive' = [alive EXCEPT ![n] = [i \in Core |-> 0]]
  /\ UNCHANGED <<conf, crashed, first_time, work>>
-----------------------------------------------------------------------------
(* Handlers of signals.                                                    *)

\* A sign of life of core i: every signal is one in the tweaked builds.
Hear(n, i) ==
  /\ alive' = [alive EXCEPT ![n][i] = 1]
  /\ suspected' = [suspected EXCEPT ![n][i] = 0]
HearIfTweaked(n, i) ==
  IF Tweaked THEN Hear(n, i) ELSE UNCHANGED <<alive, suspected>>

Receives(m, sig) == m \in mail /\ m.sig = sig /\ m.to \notin crashed

HeartbeatReq(m) ==
  /\ Receives(m, "HEARTBEAT_REQ")
  /\ HearIfTweaked(m.to, m.from)
  /\ mail' = (mail \ {m}) \cup
       {a \in {SignalTo("HEARTBEAT_REP", m.to, m.from, NoWork)} :
          a.to \notin crashed}
  /\ UNCHANGED <<conf, crashed, first_time, faulty_core, detected,
                 paxos_active, bookVars, work>>

HeartbeatRep(m) ==
  /\ Receives(m, "HEARTBEAT_REP")
  /\ Hear(m.to, m.from)
  /\ mail' = mail \ {m}
  /\ UNCHANGED <<conf, crashed, first_time, faulty_core, detected,
                 paxos_active, bookVars, work>>

\* Another cluster's core tells that my controller has failed.
ContrTo(m) ==
  /\ Receives(m, "CONTR_TO")
  /\ HearIfTweaked(m.to, m.from)
  /\ faulty_core' = [faulty_core EXCEPT ![m.to] = MyIdag(m.to)]
  /\ paxos_active' = [paxos_active EXCEPT ![m.to] = TRUE]
  /\ mail' = mail \ {m}
  /\ UNCHANGED <<conf, crashed, first_time, detected, bookVars, work>>

AppointWork(m) ==
  /\ Receives(m, "APPOINT_WORK")
  /\ HearIfTweaked(m.to, m.from)
  /\ work' = [work EXCEPT ![m.to] = @ \cup ({m.work} \ {NoWork})]
  /\ mail' = mail \ {m}
  /\ UNCHANGED <<conf, crashed, first_time, faulty_core, detected,
                 paxos_active, bookVars>>

\* From outside.  Signals to a core that has crashed are read by nobody.
Crash(i) ==
  /\ i \notin crashed /\ Cardinality(crashed) < MaxCrashes
  /\ crashed' = crashed \cup {i}
  /\ mail' = {m \in mail : m.to # i}
  /\ UNCHANGED <<conf, first_time, detectorVars, paxos_active, bookVars, work>>

Signals == {"HEARTBEAT_REQ", "HEARTBEAT_REP", "CONTR_TO", "APPOINT_WORK"}
Handle(n, p, sig) ==
  \E m \in mail :
    /\ m.to = n /\ m.from = p /\ m.sig = sig
    /\ HeartbeatReq(m) \/ HeartbeatRep(m) \/ ContrTo(m) \/ AppointWork(m)

Next ==
  \/ \E n \in conf.cores : FirstTimer(n) \/ TimerHandler(n)
  \/ \E n, p \in conf.cores, sig \in Signals : Handle(n, p, sig)
  \/ \E i \in conf.cores : Crash(i)

Spec == Init /\ [][Next]_vars

\* Timers re-arm themselves, every loop of a core checks its signals, and its
\* list is a queue, so that none waits for ever.
Fairness ==
  /\ \A n \in Core : WF_vars(FirstTimer(n)) /\ WF_vars(TimerHandler(n))
  /\ \A n, p \in Core, sig \in Signals : WF_vars(Handle(n, p, sig))
FairSpec == Spec /\ Fairness
-----------------------------------------------------------------------------
\* The variables have their types; what is not counted any more stays small.
TypeOK ==
  /\ conf \in Configurations /\ crashed \subseteq Core
  /\ first_time \in [Core -> 0..1]
  /\ alive \in [Core -> [Core -> 0..1]]
  /\ suspected \in [Core -> [Core -> -1..3]]
  /\ faulty_core \in [Core -> Core \cup {NoCore}]
  /\ paxos_active \in [Core -> BOOLEAN]
  /\ my_cores \in [Core -> SUBSET Core] /\ DDS \in [Core -> SUBSET Core]
  /\ mail \subseteq [sig : Signals, from : Core, to : Core,
                     work : Portion \cup {NoWork}]
  /\ work \in [Core -> SUBSET Portion]
  /\ detected \in [Core -> SUBSET Core]

\* Nobody suspects a core that lives, whatever the order of timers, answers
\* and crashes: each core suspected was asked first and given its period.
Accuracy == \A n \in Core : detected[n] \subseteq crashed

\* An election is started only by cores that lost their controller or, for
\* a worker, its manager, whether they found out or were told (CONTR_TO).
ElectionNeeded ==
  \A n \in conf.cores : paxos_active[n] =>
    \/ MyIdag(n) \in crashed
    \/ n \in Workers /\ conf.manager \in crashed

\* The cores whose crash the detector of n can see: PFD sees one only, the
\* first, and only EPFD and tEPFD look beyond the cluster.
Watches(n, i) ==
  /\ {n, i} \subseteq conf.cores /\ n \notin crashed /\ Armed(n) /\ i # n
  /\ Eventual \/ SameCluster(n, i)
  /\ conf.build = "PFD" => faulty_core[n] \in {NoCore, i}

\* In the end every crash is found out by every living core that watches,
\* also when another core crashes meanwhile or an answer of the dead core
\* arrives after the suspicion.
Completeness ==
  <>[] \A n \in conf.cores, i \in crashed :
         Watches(n, i) => i \in detected[n]

\* In the end every living core that watches a controller of its own that
\* crashed takes part in an election.
ElectionHeld ==
  <>[] \A n \in conf.cores, i \in crashed :
         Watches(n, i) /\ i = MyIdag(n) => paxos_active[n]

\* If just one worker crashes, its work gets to a living one in the end,
\* provided that the manager watches it and has a worker without work.
WorkSurvives ==
  <>[] \A w \in Workers :
         (/\ crashed = {w} /\ conf.workload[w] \in Portion
          /\ Watches(conf.manager, w)
          /\ \E x \in Workers : conf.workload[x] = NoWork)
         => \E x \in conf.cores \ crashed : conf.workload[w] \in work[x]
=============================================================================
