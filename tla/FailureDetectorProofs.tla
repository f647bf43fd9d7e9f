----------------------- MODULE FailureDetectorProofs ------------------------
(***************************************************************************)
(* Proofs about FailureDetector, for any set of cores, any builds and      *)
(* topologies and any number of crashes: type correctness, accuracy (no    *)
(* detector suspects a core that lives) and that elections are only held   *)
(* by cores that lost their leader.                                        *)
(*                                                                         *)
(* Accuracy is not inductive: it has to be known why a core that lives and *)
(* is silent is not suspected yet.  Asking says it: either its count is    *)
(* still too low for a suspicion, or it has been asked and the question or *)
(* its answer is still under way, so that the next timer has to wait.      *)
(***************************************************************************)
EXTENDS FailureDetector, FiniteSetTheorems, TLAPS

\* Those whose silence the detector of n counts.
Watched(n, i) == Eventual \/ SameCluster(n, i)

\* n asked i for a heartbeat and has not handled the answer.
Outstanding(n, i) ==
  \E m \in mail :
    \/ m.sig = "HEARTBEAT_REQ" /\ m.from = n /\ m.to = i
    \/ m.sig = "HEARTBEAT_REP" /\ m.from = i /\ m.to = n

\* One more period of silence does not make n suspect i.
Patient(n, i) ==
  CASE conf.build = "PFD" -> FALSE
    [] conf.build = "tPFD" -> suspected[n][i] <= 0
    [] conf.build = "EPFD" -> suspected[n][i] = 0
    [] conf.build = "tEPFD" -> suspected[n][i] \in {0, 1}

\* Every living core that is silent has time or has been asked.
Asking ==
  \A n, i \in conf.cores \ crashed :
    Watched(n, i) /\ alive[n][i] = 0 => Patient(n, i) \/ Outstanding(n, i)

\* Who was heard of is not counted as silent.
Heard ==
  \A n, i \in conf.cores : alive[n][i] = 1 => suspected[n][i] = 0

\* EPFD and tEPFD mark exactly cores they suspected.
Marked ==
  \A n, i \in conf.cores :
    Eventual /\ suspected[n][i] = -1 => i \in detected[n]

\* Who is told of a failed controller is in its cluster.
ToldTruth ==
  \A m \in mail : m.sig = "CONTR_TO" =>
    m.to \in conf.cores /\ MyIdag(m.to) \in crashed

\* A manager looks after workers only.
ManagersWorkers == my_cores[conf.manager] \subseteq Workers

IInv ==
  /\ TypeOK /\ ManagersWorkers
  /\ Asking /\ Heard /\ Marked /\ Accuracy
  /\ ToldTruth /\ ElectionNeeded
-----------------------------------------------------------------------------
\* A finite set of numbers that is not empty has a largest and a smallest
\* element: otherwise take a smallest set that has none and leave one out.
LEMMA HasExtremes ==
  ASSUME NEW S \in SUBSET Int, IsFiniteSet(S), S # {}
  PROVE  /\ \E x \in S : \A y \in S : x >= y
         /\ \E x \in S : \A y \in S : x <= y
<1> DEFINE Top(X) == \E x \in X : \A y \in X : x >= y
           Bottom(X) == \E x \in X : \A y \in X : x <= y
           Bad == {X \in SUBSET S : X # {} /\ ~ (Top(X) /\ Bottom(X))}
<1>1. Bad \subseteq FiniteSubsetsOf(S)
  BY FS_Subset DEF FiniteSubsetsOf
<1>2. SUFFICES ASSUME Bad # {} PROVE FALSE
  OBVIOUS
<1>3. PICK X \in Bad : \A Y \in Bad : <<Y, X>> \notin StrictSubsetOrdering(S)
  <2> HIDE DEF Bad
  <2> QED
    BY <1>1, <1>2, WFMin, FS_StrictSubsetOrderingWellFounded
<1>4. PICK x \in X : TRUE
  OBVIOUS
<1> DEFINE Y == X \ {x}
<1>5. Y \notin Bad
  BY <1>3, <1>4 DEF StrictSubsetOrdering
<1>6. CASE Y = {}
  <2>1. X = {x}
    BY <1>4, <1>6
  <2> QED
    BY <2>1
<1>7. CASE Y # {}
  <2>1. PICK t \in Y, b \in Y : \A y \in Y : t >= y /\ b <= y
    BY <1>5, <1>7
  <2>2. Top(X)
    <3>1. CASE t >= x
      BY <2>1, <3>1
    <3>2. CASE x >= t
      BY <2>1, <3>2
    <3> QED
      BY <3>1, <3>2
  <2>3. Bottom(X)
    <3>1. CASE b <= x
      BY <2>1, <3>1
    <3>2. CASE x <= b
      BY <2>1, <3>2
    <3> QED
      BY <3>1, <3>2
  <2> QED
    BY <2>2, <2>3
<1> QED
  BY <1>6, <1>7

\* The operators Max and Min return an element of the set.
LEMMA MaxInSet ==
  ASSUME NEW S \in SUBSET Core, S # {}
  PROVE  Max(S) \in S
<1>1. S \in SUBSET Int
  BY CoreAssumption
<1>2. IsFiniteSet(S)
  BY CoreAssumption, FS_Subset
<1> QED
  BY <1>1, <1>2, HasExtremes DEF Max

LEMMA MinInSet ==
  ASSUME NEW S \in SUBSET Core, S # {}
  PROVE  Min(S) \in S
<1>1. S \in SUBSET Int
  BY CoreAssumption
<1>2. IsFiniteSet(S)
  BY CoreAssumption, FS_Subset
<1> QED
  BY <1>1, <1>2, HasExtremes DEF Min
-----------------------------------------------------------------------------
\* What the assumption on configurations says of the one that was chosen.
LEMMA ConfParts ==
  ASSUME conf \in Configurations
  PROVE  /\ conf.build \in Build /\ conf.cores \subseteq Core
         /\ conf.idag_mask \in [conf.cores -> conf.cores]
         /\ conf.manager \in conf.cores /\ Workers \subseteq conf.cores
         /\ \A w \in Workers : conf.workload[w] \in Portion \cup {NoWork}
BY ConfigurationAssumption DEF Workers

\* Initially nobody is silent, suspected or told anything.
LEMMA InitInv == Init => IInv
<1> SUFFICES ASSUME Init PROVE IInv
  OBVIOUS
<1>1. TypeOK
  <2>1. my_cores \in [Core -> SUBSET Core] /\ DDS \in [Core -> SUBSET Core]
    BY ConfParts DEF Init
  <2>2. work \in [Core -> SUBSET Portion]
    <3>1. \A n \in Workers : {conf.workload[n]} \ {NoWork} \subseteq Portion
      BY ConfParts DEF Init
    <3> QED
      BY <3>1 DEF Init
  <2> QED
    BY <2>1, <2>2 DEF Init, TypeOK, NoCore
<1>2. conf.cores \subseteq Core /\ conf.manager \in Core
  BY ConfParts DEF Init
<1>3. Asking /\ Heard /\ Marked
  BY <1>2 DEF Init, Asking, Heard, Marked
<1>4. Accuracy /\ ToldTruth /\ ElectionNeeded /\ ManagersWorkers
  BY <1>2 DEF Init, Accuracy, ToldTruth, ElectionNeeded, ManagersWorkers
<1> QED
  BY <1>1, <1>3, <1>4 DEF IInv

\* A timer on time suspects only cores that have crashed: one that lives and
\* is silent has time left, as what it was asked has been answered.
LEMMA OnlyTheDead ==
  ASSUME IInv, NEW n \in conf.cores \ crashed, OnTime(n)
  PROVE  NowFaulty(n) \subseteq conf.cores \cap crashed
<1> SUFFICES ASSUME NEW i \in NowFaulty(n), i \notin crashed
             PROVE  FALSE
  BY DEF NowFaulty, Silent
<1>1. i \in conf.cores /\ alive[n][i] = 0 /\ Watched(n, i) /\ TooLong(n, i)
  BY DEF NowFaulty, Silent, Watched
<1>2. ~ Outstanding(n, i)
  BY DEF OnTime, Outstanding
<1>3. Patient(n, i)
  BY <1>1, <1>2 DEF IInv, Asking
<1>4. conf.build \in Build /\ suspected[n][i] \in -1..3
  BY <1>1, ConfParts DEF IInv, TypeOK
<1>5. i \notin detected[n]
  BY <1>1, <1>4, ConfParts DEF IInv, Accuracy, TypeOK
<1>6. Eventual => suspected[n][i] # -1
  BY <1>1, <1>5 DEF IInv, Marked
<1>7. CASE conf.build = "PFD"
  BY <1>3, <1>7 DEF Patient
<1>8. CASE conf.build = "tPFD"
  BY <1>1, <1>3, <1>4, <1>8 DEF Patient, TooLong, Counted, Eventual
<1>9. CASE conf.build = "EPFD"
  BY <1>1, <1>3, <1>4, <1>6, <1>9 DEF Patient, TooLong, Counted, Eventual
<1>10. CASE conf.build = "tEPFD"
  BY <1>1, <1>3, <1>4, <1>6, <1>10 DEF Patient, TooLong, Counted, Eventual
<1> QED
  BY <1>4, <1>7, <1>8, <1>9, <1>10 DEF Build

\* The signals a timer sends are signals, and name a core of the cluster that
\* failed to those it tells of a controller.
LEMMA SentTypes ==
  ASSUME IInv, NEW n \in conf.cores, NEW F, F \subseteq conf.cores \cap crashed
  PROVE  LET sent ==
               {SignalTo("HEARTBEAT_REQ", n, i, NoWork) : i \in Asked(n) \ F}
               \cup {SignalTo("CONTR_TO", n, j, NoWork) : j \in Told(n, F)}
               \cup Reappointed(n, F)
         IN  /\ sent \subseteq [sig : Signals, from : Core, to : Core,
                                work : Portion \cup {NoWork}]
             /\ \A m \in sent : m.sig = "CONTR_TO" =>
                  m.to \in conf.cores /\ MyIdag(m.to) \in crashed
<1> DEFINE Message == [sig : Signals, from : Core, to : Core,
                       work : Portion \cup {NoWork}]
           Asks == {SignalTo("HEARTBEAT_REQ", n, i, NoWork) : i \in Asked(n) \ F}
           Tells == {SignalTo("CONTR_TO", n, j, NoWork) : j \in Told(n, F)}
           Good(m) == /\ m \in Message
                      /\ m.sig = "CONTR_TO" =>
                           m.to \in conf.cores /\ MyIdag(m.to) \in crashed
<1>1. conf.build \in Build /\ conf.cores \subseteq Core /\ n \in Core
  BY ConfParts DEF IInv, TypeOK
<1>2. ASSUME NEW m \in Asks PROVE Good(m)
  <2>1. PICK i \in Asked(n) : m = SignalTo("HEARTBEAT_REQ", n, i, NoWork)
    OBVIOUS
  <2>2. i \in conf.cores
    BY <2>1, <1>1 DEF Asked, Build, Silent
  <2> QED
    BY <2>1, <2>2, <1>1 DEF SignalTo, Signals
<1>3. ASSUME NEW m \in Tells PROVE Good(m)
  <2>1. PICK j \in Told(n, F) : m = SignalTo("CONTR_TO", n, j, NoWork)
    OBVIOUS
  <2>2. j \in conf.cores /\ MyIdag(j) \in crashed
    BY DEF Told, ImController, SameCluster, MyIdag
  <2> QED
    BY <2>1, <2>2, <1>1 DEF SignalTo, Signals
<1>4. ASSUME NEW m \in Reappointed(n, F) PROVE Good(m)
  <2> DEFINE spare(v) == {u \in my_cores[n] : conf.workload[u] = NoWork
                                              /\ (u \in F => u > v)}
             dropped == {v \in F \cap my_cores[n] : n = conf.manager}
  <2>1. PICK v \in dropped :
          /\ spare(v) # {}
          /\ m = SignalTo("APPOINT_WORK", n, Min(spare(v)), conf.workload[v])
    BY DEF Reappointed
  <2>2. Min(spare(v)) \in Core
    <3>1. spare(v) \in SUBSET Core
      BY <1>1 DEF IInv, TypeOK
    <3> HIDE DEF spare
    <3> QED
      BY <2>1, <3>1, MinInSet
  <2>3. v \in Workers
    BY <2>1 DEF IInv, ManagersWorkers
  <2>4. conf.workload[v] \in Portion \cup {NoWork}
    BY <2>3, ConfParts DEF IInv, TypeOK
  <2> QED
    BY <2>1, <2>2, <2>4, <1>1 DEF SignalTo, Signals
<1> QED
  BY <1>2, <1>3, <1>4

\* A period of a timer, which visits all cores at once.
LEMMA TimerStep ==
  ASSUME IInv, NEW n \in conf.cores, TimerHandler(n)
  PROVE  IInv'
<1> DEFINE F == NowFaulty(n)
           sent ==
             {SignalTo("HEARTBEAT_REQ", n, i, NoWork) : i \in Asked(n) \ F}
             \cup {SignalTo("CONTR_TO", n, j, NoWork) : j \in Told(n, F)}
             \cup Reappointed(n, F)
<1>1. F \subseteq conf.cores \cap crashed
  BY OnlyTheDead DEF TimerHandler
<1>2. /\ conf.build \in Build /\ conf.cores \subseteq Core /\ n \in Core
      /\ conf' = conf /\ crashed' = crashed /\ n \notin crashed
  BY ConfParts DEF IInv, TypeOK, TimerHandler
<1>3. /\ sent \subseteq [sig : Signals, from : Core, to : Core,
                         work : Portion \cup {NoWork}]
      /\ \A m \in sent : m.sig = "CONTR_TO" =>
           m.to \in conf.cores /\ MyIdag(m.to) \in crashed
  BY <1>1, SentTypes
<1>4. mail' = mail \cup {m \in sent : m.to \notin crashed}
  BY DEF TimerHandler
<1>5. TypeOK'
  <2>1. \A i \in Core : Counted(n, i) \in -1..3
    BY <1>2 DEF IInv, TypeOK, Counted
  <2>2. suspected' \in [Core -> [Core -> -1..3]]
    BY <1>2, <2>1 DEF IInv, TypeOK, TimerHandler
  <2>3. faulty_core' \in [Core -> Core \cup {NoCore}]
    <3>1. F = {} \/ Max(F) \in Core
      BY <1>1, <1>2, MaxInSet
    <3> QED
      BY <3>1 DEF IInv, TypeOK, TimerHandler
  <2>4. paxos_active' \in [Core -> BOOLEAN]
    <3>1. (paxos_active[n] \/ LosesLeader(n, F)) \in BOOLEAN
      OBVIOUS
    <3> QED
      BY <3>1 DEF IInv, TypeOK, TimerHandler
  <2>5. /\ my_cores' \in [Core -> SUBSET Core] /\ DDS' \in [Core -> SUBSET Core]
        /\ detected' \in [Core -> SUBSET Core]
        /\ alive' \in [Core -> [Core -> 0..1]]
    BY <1>1, <1>2 DEF IInv, TypeOK, TimerHandler
  <2>6. UNCHANGED <<conf, crashed, first_time, work>>
    BY DEF TimerHandler
  <2> QED
    BY <1>3, <1>4, <2>2, <2>3, <2>4, <2>5, <2>6 DEF IInv, TypeOK
<1>6. ManagersWorkers'
  <2>1. my_cores'[conf.manager] \subseteq my_cores[conf.manager]
    BY <1>2, ConfParts DEF IInv, TypeOK, TimerHandler
  <2> QED
    BY <1>2, <2>1 DEF IInv, ManagersWorkers, Workers
<1>7. Accuracy'
  BY <1>1, <1>2 DEF IInv, TypeOK, Accuracy, TimerHandler
<1>8. ToldTruth'
  BY <1>2, <1>3, <1>4 DEF IInv, ToldTruth, MyIdag, ImController
<1>9. ElectionNeeded'
  <2>1. ASSUME NEW p \in conf.cores, paxos_active'[p] \in BOOLEAN, paxos_active'[p]
        PROVE  paxos_active[p] \/ (p = n /\ LosesLeader(n, F))
    BY <1>2, <2>1 DEF IInv, TypeOK, TimerHandler
  <2> QED
    BY <1>1, <1>2, <1>5, <2>1
       DEF IInv, TypeOK, ElectionNeeded, LosesLeader, MyIdag, ImController, Workers
<1>10. Heard'
  BY <1>2 DEF IInv, TypeOK, Heard, TimerHandler
<1>11. Marked'
  <2> SUFFICES ASSUME NEW k \in conf.cores, NEW i \in conf.cores,
                      Eventual, suspected'[k][i] = -1
               PROVE  i \in detected'[k]
    BY <1>2 DEF Marked, Eventual
  <2>1. CASE k # n
    BY <1>2, <2>1 DEF IInv, TypeOK, Marked, TimerHandler
  <2>2. CASE k = n
    <3>1. i \in F \/ Counted(n, i) = -1
      BY <1>2, <2>2 DEF IInv, TypeOK, TimerHandler
    <3>2. Counted(n, i) = -1 => suspected[n][i] = -1
      BY <1>2 DEF IInv, TypeOK, Counted
    <3>3. detected'[n] = detected[n] \cup F
      BY <1>2 DEF IInv, TypeOK, TimerHandler
    <3> QED
      BY <2>2, <3>1, <3>2, <3>3 DEF IInv, Marked
  <2> QED
    BY <2>1, <2>2
<1>12. Asking'
  <2> SUFFICES ASSUME NEW k \in conf.cores \ crashed, NEW i \in conf.cores \ crashed,
                      Watched(k, i), alive'[k][i] = 0
               PROVE  Patient(k, i)' \/ Outstanding(k, i)'
    BY <1>2 DEF Asking, Watched, Eventual, SameCluster
  <2>1. CASE k # n
    <3>1. alive'[k] = alive[k] /\ suspected'[k] = suspected[k]
      BY <1>2, <2>1 DEF IInv, TypeOK, TimerHandler
    <3>2. Outstanding(k, i) => Outstanding(k, i)'
      BY <1>4 DEF Outstanding
    <3>3. Patient(k, i) => Patient(k, i)'
      BY <1>2, <3>1 DEF Patient
    <3> QED
      BY <3>1, <3>2, <3>3 DEF IInv, Asking
  <2>2. CASE k = n
    <3>1. i \notin F /\ suspected'[n][i] = Counted(n, i)
      BY <1>1, <1>2, <2>2 DEF IInv, TypeOK, TimerHandler
    <3>2. ASSUME i \in Asked(n) PROVE Outstanding(n, i)'
      <4> DEFINE m == SignalTo("HEARTBEAT_REQ", n, i, NoWork)
      <4>1. m \in sent /\ m.to = i /\ m.from = n /\ m.sig = "HEARTBEAT_REQ"
        BY <3>1, <3>2 DEF SignalTo
      <4>2. m \in mail'
        BY <1>4, <4>1
      <4> QED
        BY <4>1, <4>2 DEF Outstanding
    <3>3. i \notin detected[n] /\ (Eventual => suspected[n][i] # -1)
      BY <1>2 , <2>2 DEF IInv, Accuracy, Marked
    <3>4. alive[n][i] \in 0..1 /\ suspected[n][i] \in -1..3
      BY <1>2 DEF IInv, TypeOK
    <3>5. alive[n][i] = 1 => suspected[n][i] = 0
      BY DEF IInv, Heard
    <3>6. alive[n][i] = 0 => Patient(n, i)
      BY <2>2 DEF IInv, Asking, TimerHandler, OnTime, Outstanding
    <3>7. CASE conf.build = "PFD"
      BY <2>2, <3>2, <3>7 DEF Asked, Watched, Eventual
    <3>8. CASE conf.build = "tPFD"
      BY <1>2, <2>2, <3>1, <3>2, <3>4, <3>5, <3>8
         DEF Patient, Asked, Silent, Counted, Watched, Eventual
    <3>9. CASE conf.build = "EPFD"
      BY <1>2, <2>2, <3>1, <3>2, <3>3, <3>4, <3>5, <3>6, <3>9
         DEF Patient, Asked, Silent, Counted, Eventual
    <3>10. CASE conf.build = "tEPFD"
      BY <1>2, <2>2, <3>1, <3>2, <3>3, <3>4, <3>5, <3>6, <3>10
         DEF Patient, Asked, Silent, Counted, Eventual
    <3> QED
      BY <1>2, <3>7, <3>8, <3>9, <3>10 DEF Build
  <2> QED
    BY <2>1, <2>2
<1> QED
  BY <1>5, <1>6, <1>7, <1>8, <1>9, <1>10, <1>11, <1>12 DEF IInv

\* Handling a signal of p, with or without believing in it as a sign of life,
\* keeps what was heard, as long as p's answer is counted when it is taken.
LEMMA HearKeeps ==
  ASSUME IInv, NEW n \in conf.cores, NEW p \in conf.cores,
         Hear(n, p) \/ UNCHANGED <<alive, suspected>>,
         UNCHANGED <<conf, detected>>
  PROVE  /\ alive' \in [Core -> [Core -> 0..1]]
         /\ suspected' \in [Core -> [Core -> -1..3]]
         /\ Heard' /\ Marked'
         /\ Hear(n, p) => alive'[n][p] = 1
         /\ \A k, i \in conf.cores :
              \/ alive'[k][i] = 1
              \/ alive'[k][i] = alive[k][i] /\ suspected'[k][i] = suspected[k][i]
<1>1. conf.cores \subseteq Core
  BY ConfParts DEF IInv, TypeOK
<1>2. CASE UNCHANGED <<alive, suspected>> /\ ~ Hear(n, p)
  BY <1>1, <1>2 DEF IInv, TypeOK, Heard, Marked, Eventual
<1>3. CASE Hear(n, p)
  <2>1. /\ alive' \in [Core -> [Core -> 0..1]]
        /\ suspected' \in [Core -> [Core -> -1..3]]
    <3>1. /\ [alive[n] EXCEPT ![p] = 1] \in [Core -> 0..1]
          /\ [suspected[n] EXCEPT ![p] = 0] \in [Core -> -1..3]
      BY <1>1 DEF IInv, TypeOK
    <3>2. /\ alive' = [alive EXCEPT ![n] = [alive[n] EXCEPT ![p] = 1]]
          /\ suspected' = [suspected EXCEPT ![n] = [suspected[n] EXCEPT ![p] = 0]]
      BY <1>1, <1>3 DEF IInv, TypeOK, Hear
    <3> QED
      BY <3>1, <3>2 DEF IInv, TypeOK
  <2>2. \A k, i \in conf.cores :
          \/ k = n /\ i = p /\ alive'[k][i] = 1 /\ suspected'[k][i] = 0
          \/ alive'[k][i] = alive[k][i] /\ suspected'[k][i] = suspected[k][i]
    BY <1>1, <1>3 DEF IInv, TypeOK, Hear
  <2>3. alive'[n][p] = 1
    BY <1>1, <1>3 DEF IInv, TypeOK, Hear
  <2>4. Heard'
    BY <2>2 DEF IInv, Heard
  <2>5. Marked'
    BY <2>2 DEF IInv, Marked, Eventual
  <2>6. \A k, i \in conf.cores :
          \/ alive'[k][i] = 1
          \/ alive'[k][i] = alive[k][i] /\ suspected'[k][i] = suspected[k][i]
    BY <2>2
  <2> QED
    BY <2>1, <2>3, <2>4, <2>5, <2>6
<1> QED
  BY <1>2, <1>3

\* A signal that is handled keeps Asking, if it leaves what was asked under
\* way or is the answer, by which the core asked is heard of.
LEMMA AskingKept ==
  ASSUME IInv, NEW n \in conf.cores, NEW p \in conf.cores,
         Hear(n, p) \/ UNCHANGED <<alive, suspected>>,
         UNCHANGED <<conf, crashed, detected>>,
         \A k, i \in conf.cores \ crashed :
           Outstanding(k, i) =>
             Outstanding(k, i)' \/ (k = n /\ i = p /\ Hear(n, p))
  PROVE  Asking'
<1> SUFFICES ASSUME NEW k \in conf.cores \ crashed, NEW i \in conf.cores \ crashed,
                    Watched(k, i), alive'[k][i] = 0
             PROVE  Patient(k, i)' \/ Outstanding(k, i)'
  BY DEF Asking, Watched, Eventual, SameCluster
<1>1. alive'[k][i] = alive[k][i] /\ suspected'[k][i] = suspected[k][i]
  BY HearKeeps
<1>2. ~ (k = n /\ i = p /\ Hear(n, p))
  BY HearKeeps
<1>3. Patient(k, i) => Patient(k, i)'
  BY <1>1 DEF Patient
<1> QED
  BY <1>1, <1>2, <1>3 DEF IInv, Asking

\* A question is answered if who asked lives.
LEMMA HeartbeatReqStep ==
  ASSUME IInv, NEW m \in mail, m.to \in conf.cores, m.from \in conf.cores,
         HeartbeatReq(m)
  PROVE  IInv'
<1> DEFINE a == SignalTo("HEARTBEAT_REP", m.to, m.from, NoWork)
<1>1. /\ conf.cores \subseteq Core /\ conf' = conf /\ crashed' = crashed
      /\ Hear(m.to, m.from) \/ UNCHANGED <<alive, suspected>>
      /\ UNCHANGED <<first_time, faulty_core, detected, paxos_active, my_cores,
                     DDS, work>>
  BY ConfParts
     DEF IInv, TypeOK, HeartbeatReq, HearIfTweaked, bookVars
<1>2. mail' = (mail \ {m}) \cup (IF m.from \in crashed THEN {} ELSE {a})
  BY DEF HeartbeatReq, SignalTo
<1>3. a.sig = "HEARTBEAT_REP" /\ a.from = m.to /\ a.to = m.from
      /\ m.sig = "HEARTBEAT_REQ"
      /\ a \in [sig : Signals, from : Core, to : Core,
                work : Portion \cup {NoWork}]
  BY <1>1 DEF SignalTo, Signals, HeartbeatReq, Receives
<1> HIDE DEF a
<1>4. TypeOK'
  BY <1>1, <1>2, <1>3, HearKeeps DEF IInv, TypeOK
<1>5. ToldTruth'
  BY <1>1, <1>2, <1>3 DEF IInv, ToldTruth, MyIdag, ImController
<1>6. ManagersWorkers' /\ Accuracy' /\ ElectionNeeded'
  BY <1>1 DEF IInv, ManagersWorkers, Workers, Accuracy, ElectionNeeded, MyIdag,
              ImController
<1>7. ASSUME NEW k \in conf.cores \ crashed, NEW i \in conf.cores \ crashed,
             Outstanding(k, i)
      PROVE  Outstanding(k, i)'
  BY <1>2, <1>3, <1>7 DEF Outstanding
<1>8. Asking'
  BY <1>1, <1>7, AskingKept
<1> QED
  BY <1>1, <1>4, <1>5, <1>6, <1>8, HearKeeps DEF IInv

\* An answer is a sign of life.
LEMMA HeartbeatRepStep ==
  ASSUME IInv, NEW m \in mail, m.to \in conf.cores, m.from \in conf.cores,
         HeartbeatRep(m)
  PROVE  IInv'
<1>1. /\ conf.cores \subseteq Core /\ conf' = conf /\ crashed' = crashed
      /\ Hear(m.to, m.from) /\ mail' = mail \ {m} /\ m.sig = "HEARTBEAT_REP"
      /\ UNCHANGED <<first_time, faulty_core, detected, paxos_active, my_cores,
                     DDS, work>>
  BY ConfParts
     DEF IInv, TypeOK, HeartbeatRep, Receives, bookVars
<1>2. TypeOK'
  BY <1>1, HearKeeps DEF IInv, TypeOK
<1>3. ToldTruth' /\ ManagersWorkers' /\ Accuracy' /\ ElectionNeeded'
  BY <1>1 DEF IInv, ToldTruth, ManagersWorkers, Workers, Accuracy,
              ElectionNeeded, MyIdag, ImController
<1>4. ASSUME NEW k \in conf.cores \ crashed, NEW i \in conf.cores \ crashed,
             Outstanding(k, i)
      PROVE  Outstanding(k, i)' \/ (k = m.to /\ i = m.from)
  BY <1>1, <1>4 DEF Outstanding
<1>5. Asking'
  BY <1>1, <1>4, AskingKept
<1> QED
  BY <1>1, <1>2, <1>3, <1>5, HearKeeps DEF IInv

\* A core told of the failure of its controller joins the election.
LEMMA ContrToStep ==
  ASSUME IInv, NEW m \in mail, m.to \in conf.cores, m.from \in conf.cores,
         ContrTo(m)
  PROVE  IInv'
<1>1. /\ conf.cores \subseteq Core /\ conf' = conf /\ crashed' = crashed
      /\ Hear(m.to, m.from) \/ UNCHANGED <<alive, suspected>>
      /\ mail' = mail \ {m} /\ m.sig = "CONTR_TO"
      /\ faulty_core' = [faulty_core EXCEPT ![m.to] = MyIdag(m.to)]
      /\ paxos_active' = [paxos_active EXCEPT ![m.to] = TRUE]
      /\ UNCHANGED <<first_time, detected, my_cores, DDS, work>>
  BY ConfParts
     DEF IInv, TypeOK, ContrTo, Receives, HearIfTweaked, bookVars
<1>2. MyIdag(m.to) \in Core \cup {NoCore} /\ MyIdag(m.to) \in crashed
  BY <1>1, ConfParts DEF IInv, TypeOK, MyIdag, ToldTruth
<1>3. TypeOK'
  BY <1>1, <1>2, HearKeeps DEF IInv, TypeOK
<1>4. ToldTruth' /\ ManagersWorkers' /\ Accuracy'
  BY <1>1 DEF IInv, ToldTruth, ManagersWorkers, Workers, Accuracy, MyIdag,
              ImController
<1>5. ElectionNeeded'
  BY <1>1, <1>2 DEF IInv, TypeOK, ElectionNeeded, Workers, MyIdag, ImController
<1>6. ASSUME NEW k \in conf.cores \ crashed, NEW i \in conf.cores \ crashed,
             Outstanding(k, i)
      PROVE  Outstanding(k, i)'
  BY <1>1, <1>6 DEF Outstanding
<1>7. Asking'
  BY <1>1, <1>6, AskingKept
<1> QED
  BY <1>1, <1>3, <1>4, <1>5, <1>7, HearKeeps DEF IInv

\* A worker takes over a portion.
LEMMA AppointWorkStep ==
  ASSUME IInv, NEW m \in mail, m.to \in conf.cores, m.from \in conf.cores,
         AppointWork(m)
  PROVE  IInv'
<1>1. /\ conf.cores \subseteq Core /\ conf' = conf /\ crashed' = crashed
      /\ Hear(m.to, m.from) \/ UNCHANGED <<alive, suspected>>
      /\ mail' = mail \ {m} /\ m.sig = "APPOINT_WORK"
      /\ work' = [work EXCEPT ![m.to] = @ \cup ({m.work} \ {NoWork})]
      /\ UNCHANGED <<first_time, faulty_core, detected, paxos_active, my_cores,
                     DDS>>
  BY ConfParts
     DEF IInv, TypeOK, AppointWork, Receives, HearIfTweaked, bookVars
<1>2. work' \in [Core -> SUBSET Portion]
  BY <1>1 DEF IInv, TypeOK
<1>3. TypeOK'
  BY <1>1, <1>2, HearKeeps DEF IInv, TypeOK
<1>4. ToldTruth' /\ ManagersWorkers' /\ Accuracy' /\ ElectionNeeded'
  BY <1>1 DEF IInv, ToldTruth, ManagersWorkers, Workers, Accuracy,
              ElectionNeeded, MyIdag, ImController
<1>5. ASSUME NEW k \in conf.cores \ crashed, NEW i \in conf.cores \ crashed,
             Outstanding(k, i)
      PROVE  Outstanding(k, i)'
  BY <1>1, <1>5 DEF Outstanding
<1>6. Asking'
  BY <1>1, <1>5, AskingKept
<1> QED
  BY <1>1, <1>3, <1>4, <1>6, HearKeeps DEF IInv

\* A crash takes with it only the signals to the core that crashed.
LEMMA CrashStep ==
  ASSUME IInv, NEW c \in conf.cores, Crash(c)
  PROVE  IInv'
<1>1. /\ conf.cores \subseteq Core /\ conf' = conf
      /\ crashed' = crashed \cup {c} /\ mail' = {m \in mail : m.to # c}
      /\ UNCHANGED <<first_time, alive, suspected, faulty_core, detected,
                     paxos_active, my_cores, DDS, work>>
  BY ConfParts
     DEF IInv, TypeOK, Crash, detectorVars, bookVars
<1>2. TypeOK'
  BY <1>1 DEF IInv, TypeOK
<1>3. Heard' /\ Marked' /\ ManagersWorkers'
  BY <1>1 DEF IInv, Heard, Marked, ManagersWorkers, Workers, Eventual
<1>4. ToldTruth' /\ Accuracy' /\ ElectionNeeded'
  BY <1>1 DEF IInv, ToldTruth, Accuracy, ElectionNeeded, Workers, MyIdag,
              ImController
<1>5. Asking'
  <2> SUFFICES ASSUME NEW k \in conf.cores \ crashed', NEW i \in conf.cores \ crashed',
                      Watched(k, i), alive[k][i] = 0
               PROVE  Patient(k, i)' \/ Outstanding(k, i)'
    BY <1>1 DEF Asking, Watched, Eventual, SameCluster
  <2>1. Outstanding(k, i) => Outstanding(k, i)'
    BY <1>1 DEF Outstanding
  <2>2. Patient(k, i) => Patient(k, i)'
    BY <1>1 DEF Patient
  <2> QED
    BY <1>1, <2>1, <2>2 DEF IInv, Asking
<1> QED
  BY <1>2, <1>3, <1>4, <1>5 DEF IInv

\* The first call of a timer of PFD changes nothing the invariant is about.
LEMMA NothingNew ==
  ASSUME IInv, first_time' \in [Core -> 0..1],
         UNCHANGED <<conf, crashed, detectorVars, paxos_active, bookVars, mail,
                     work>>
  PROVE  IInv'
<1>1. UNCHANGED <<conf, crashed, alive, suspected, faulty_core, detected,
                  paxos_active, my_cores, DDS, mail, work>>
  BY DEF detectorVars, bookVars
<1>2. TypeOK'
  BY <1>1 DEF IInv, TypeOK
<1>3. ManagersWorkers' /\ Heard' /\ Marked' /\ Accuracy'
  BY <1>1 DEF IInv, ManagersWorkers, Workers, Heard, Marked, Eventual, Accuracy
<1>4. ToldTruth' /\ ElectionNeeded'
  BY <1>1 DEF IInv, ToldTruth, ElectionNeeded, Workers, MyIdag, ImController
<1>5. Asking'
  <2>1. \A n, i \in conf.cores :
          /\ Watched(n, i)' <=> Watched(n, i)
          /\ Patient(n, i) => Patient(n, i)'
          /\ Outstanding(n, i) => Outstanding(n, i)'
    BY <1>1 DEF Watched, Patient, Outstanding, Eventual, SameCluster
  <2> QED
    BY <1>1, <2>1 DEF IInv, Asking
<1> QED
  BY <1>2, <1>3, <1>4, <1>5 DEF IInv
-----------------------------------------------------------------------------
\* Every step keeps the invariant.
LEMMA StepInv == IInv /\ [Next]_vars => IInv'
<1> SUFFICES ASSUME IInv, [Next]_vars PROVE IInv'
  OBVIOUS
<1>1. ASSUME NEW n \in conf.cores, FirstTimer(n) PROVE IInv'
  <2>1. first_time' \in [Core -> 0..1]
    <3>1. n \in Core
      BY ConfParts DEF IInv, TypeOK
    <3> QED
      BY <1>1, <3>1 DEF IInv, TypeOK, FirstTimer
  <2> QED
    BY <1>1, <2>1, NothingNew DEF FirstTimer
<1>2. ASSUME NEW n \in conf.cores, TimerHandler(n) PROVE IInv'
  BY <1>2, TimerStep
<1>3. ASSUME NEW n \in conf.cores, NEW p \in conf.cores, NEW sig \in Signals,
             Handle(n, p, sig)
      PROVE  IInv'
  BY <1>3, HeartbeatReqStep, HeartbeatRepStep, ContrToStep, AppointWorkStep
     DEF Handle
<1>4. ASSUME NEW c \in conf.cores, Crash(c) PROVE IInv'
  BY <1>4, CrashStep
<1>5. CASE UNCHANGED vars
  <2>1. first_time' \in [Core -> 0..1]
    BY <1>5 DEF IInv, TypeOK, vars
  <2> QED
    BY <1>5, <2>1, NothingNew DEF vars
<1> QED
  BY <1>1, <1>2, <1>3, <1>4, <1>5 DEF Next

\* The invariant holds in every reachable state.
THEOREM Invariance == Spec => []IInv
BY InitInv, StepInv, PTL DEF Spec

\* The variables have their types in every reachable state.
THEOREM TypeCorrect == Spec => []TypeOK
<1>1. IInv => TypeOK
  BY DEF IInv
<1> QED
  BY Invariance, <1>1, PTL

\* No detector of any build ever suspects a core that lives, for any cluster,
\* order of timers and answers, and number of crashes, provided that a timer
\* goes off again only when the living have answered.
THEOREM NoFalseSuspicion == Spec => []Accuracy
<1>1. IInv => Accuracy
  BY DEF IInv
<1> QED
  BY Invariance, <1>1, PTL

\* Elections are held only by cores that lost their controller or manager.
THEOREM ElectionsNeeded == Spec => []ElectionNeeded
<1>1. IInv => ElectionNeeded
  BY DEF IInv
<1> QED
  BY Invariance, <1>1, PTL
=============================================================================
