------------------------- MODULE SelfOptCountProofs -------------------------
(***************************************************************************)
(* Proofs about SelfOpt, for any number of controllers, managers and       *)
(* cores: the end of every application is counted, and counted once.       *)
(*                                                                         *)
(* An end is told by FINISH or by APP_TERMINATED, whichever goes to core   *)
(* 0.  The proof follows this one signal, from the report that waits in    *)
(* the manager's queue to the list of core 0: while it is on its way the   *)
(* end is due, and the count is the number of the ends that are not.       *)
(***************************************************************************)
EXTENDS SelfOptOwnerProofs

\* A list has a signal of this kind from n; and it has one at most.
Came(l, n, sig) == \E i \in DOMAIN l : l[i].from = n /\ l[i].msg.sig = sig
CameOnce(l, n, sig) ==
  \A i, j \in DOMAIN l :
    /\ l[i].from = n /\ l[i].msg.sig = sig
    /\ l[j].from = n /\ l[j].msg.sig = sig
    => i = j

\* A queue has the report of an end, one at most, and one behind its head.
HasEnd(q) == \E i \in DOMAIN q : q[i].type = "REMOVE_APP"
EndsOnce(q) ==
  \A i, j \in DOMAIN q :
    q[i].type = "REMOVE_APP" /\ q[j].type = "REMOVE_APP" => i = j
Behind(q) == \E i \in DOMAIN q : i > 1 /\ q[i].type = "REMOVE_APP"

\* The end of a's application is told and not counted yet.
Due(a) ==
  IF idag_mask[a] = Zero
  THEN Came(mail[Zero], a, "FINISH") \/ Behind(inter[a][Zero])
  ELSE Came(mail[Zero], a, "APP_TERMINATED")

\* What the program of a manager is at when it searches or leaves.
Course(a) ==
  /\ asking[a] => state[a] = "IDLE_AGENT_WAITING_OFF" /\ ~ timer[a]
  /\ state[a] = "AGENT_SELF_OPT" => ~ timer[a]
  /\ leaving[a] => state[a] = "AGENT_ENDING"
Courses ==
  /\ DOMAIN state = Agent /\ DOMAIN pending_state = Agent
  /\ DOMAIN timer = Agent /\ DOMAIN asking = Agent /\ DOMAIN leaving = Agent
  /\ \A a \in Agent : Course(a)

\* Core 0 hears of the end of an application once, by the one signal or the
\* other, and the manager is at rest then.
EndsToHome(a) ==
  /\ EndsOnce(inter[a][Zero])
  /\ HasEnd(inter[a][Zero]) => idag_mask[a] = Zero
TellsOnce(a) ==
  /\ CameOnce(mail[Zero], a, "APP_TERMINATED")
  /\ Came(mail[Zero], a, "APP_TERMINATED") => idag_mask[a] # Zero
Unended(a) ==
  ~ HasEnd(inter[a][Zero]) /\ ~ Came(mail[Zero], a, "APP_TERMINATED")
Told(a) ==
  /\ EndsToHome(a) /\ TellsOnce(a)
  /\ app_state[a] # "NO_APP" => Unended(a)
  /\ app_state[a] = "NO_APP" => state[a] = "IDLE_CORE"

\* Controllers send no SIG_APP_TERMINATED, and the count is that of the ends
\* which are not due any more.
ManagersTell ==
  \A c \in Controller : ~ Came(mail[Zero], c, "APP_TERMINATED")
Heeded == {a \in Ended : ~ Due(a)}
Counted == num_apps_terminated = Cardinality(Heeded)
Counting == Counted /\ ManagersTell /\ \A a \in Agent : Told(a)
CInv == WInv /\ Courses /\ (OnlyInitialCoresNegotiate => Counting)
-----------------------------------------------------------------------------
(* Lists and queues.                                                         *)

LEMMA QueueAppended ==
  ASSUME NEW q, IsSeq(q), NEW x
  PROVE  LET r == Append(q, x)
         IN  /\ x.type # "REMOVE_APP" =>
                  /\ HasEnd(r) <=> HasEnd(q)
                  /\ Behind(r) <=> Behind(q)
                  /\ EndsOnce(q) => EndsOnce(r)
             /\ x.type = "REMOVE_APP" /\ ~ HasEnd(q) =>
                  EndsOnce(r) /\ (q # <<>> => Behind(r))
<1> DEFINE r == Append(q, x)
           e == Len(q) + 1
<1>1. /\ Len(q) \in Nat /\ DOMAIN q = 1..Len(q) /\ DOMAIN r = 1..e
      /\ r[e] = x /\ \A i \in 1..Len(q) : r[i] = q[i]
  BY Appending
<1>2. q # <<>> => Len(q) # 0
  BY DEF IsSeq
<1> HIDE DEF r
<1>3. /\ \A i \in DOMAIN q : i \in DOMAIN r /\ r[i] = q[i] /\ i # e
      /\ \A i \in DOMAIN r : i = e \/ i \in DOMAIN q
      /\ e \in DOMAIN r /\ (q # <<>> => e > 1)
  BY <1>1, <1>2
<1> HIDE DEF e
<1>4. x.type # "REMOVE_APP" =>
        /\ HasEnd(r) <=> HasEnd(q)
        /\ Behind(r) <=> Behind(q)
        /\ EndsOnce(q) => EndsOnce(r)
  BY <1>1, <1>3 DEF HasEnd, Behind, EndsOnce
<1>5. x.type = "REMOVE_APP" /\ ~ HasEnd(q) =>
        EndsOnce(r) /\ (q # <<>> => Behind(r))
  BY <1>1, <1>3 DEF HasEnd, Behind, EndsOnce
<1> QED
  BY <1>4, <1>5 DEF r

LEMMA QueueTailed ==
  ASSUME NEW q, IsSeq(q), q # <<>>, NEW r, r = Tail(q)
  PROVE  /\ HasEnd(r) <=> Behind(q)
         /\ HasEnd(r) => HasEnd(q)
         /\ EndsOnce(q) => EndsOnce(r)
         /\ HasEnd(r) <=> (r # <<>> /\ Head(r).type = "REMOVE_APP") \/ Behind(r)
         /\ EndsOnce(q) /\ Head(q).type = "REMOVE_APP" => ~ Behind(q)
<1>1. /\ IsSeq(r) /\ Len(q) \in Nat \ {0} /\ DOMAIN q = 1..Len(q)
      /\ Head(q) = q[1] /\ DOMAIN r = 1..(Len(q) - 1)
      /\ \A i \in 1..(Len(q) - 1) : r[i] = q[i + 1]
  BY Shortening
<1>2. r # <<>> => 1 \in DOMAIN r /\ Head(r) = r[1]
  BY <1>1, Shortening
<1>3. r = <<>> => DOMAIN r = {}
  OBVIOUS
<1>4. /\ \A i \in DOMAIN r : i + 1 \in DOMAIN q /\ i + 1 > 1 /\ r[i] = q[i + 1]
      /\ \A i \in DOMAIN q : i > 1 => i - 1 \in DOMAIN r /\ r[i - 1] = q[i]
      /\ DOMAIN r \subseteq Nat \ {0} /\ DOMAIN q \subseteq Nat \ {0}
      /\ 1 \in DOMAIN q
  BY <1>1
<1>5. HasEnd(r) <=> Behind(q)
  BY <1>4 DEF HasEnd, Behind
<1>6. HasEnd(r) => HasEnd(q)
  BY <1>4 DEF HasEnd
<1>7. ASSUME EndsOnce(q) PROVE EndsOnce(r)
  <2>1. ASSUME NEW i \in DOMAIN r, NEW j \in DOMAIN r,
               r[i].type = "REMOVE_APP", r[j].type = "REMOVE_APP"
        PROVE  i = j
    <3>1. i + 1 = j + 1
      BY <1>4, <1>7, <2>1 DEF EndsOnce
    <3> QED
      BY <1>4, <3>1
  <2> QED
    BY <2>1 DEF EndsOnce
<1>8. HasEnd(r) <=> (r # <<>> /\ Head(r).type = "REMOVE_APP") \/ Behind(r)
  <2>1. ASSUME NEW i \in DOMAIN r, r[i].type = "REMOVE_APP"
        PROVE  (r # <<>> /\ Head(r).type = "REMOVE_APP") \/ Behind(r)
    <3>1. r # <<>> /\ (i = 1 \/ i > 1)
      BY <1>3, <1>4, <2>1
    <3> QED
      BY <1>2, <2>1, <3>1 DEF Behind
  <2>2. ASSUME r # <<>>, Head(r).type = "REMOVE_APP" PROVE HasEnd(r)
    BY <1>2, <2>2 DEF HasEnd
  <2>3. Behind(r) => HasEnd(r)
    BY DEF Behind, HasEnd
  <2> QED
    BY <2>1, <2>2, <2>3 DEF HasEnd
<1>9. ASSUME EndsOnce(q), Head(q).type = "REMOVE_APP", Behind(q) PROVE FALSE
  <2>1. PICK i \in DOMAIN q : i > 1 /\ q[i].type = "REMOVE_APP"
    BY <1>9 DEF Behind
  <2>2. i = 1
    BY <1>1, <1>4, <1>9, <2>1 DEF EndsOnce
  <2> QED
    BY <2>1, <2>2
<1> QED
  BY <1>5, <1>6, <1>7, <1>8, <1>9

LEMMA QueueReheaded ==
  ASSUME NEW q, IsSeq(q), q # <<>>, NEW x, x.type # "REMOVE_APP",
         NEW r, r = <<x>> \o Tail(q)
  PROVE  /\ HasEnd(r) => HasEnd(q)
         /\ Behind(r) <=> Behind(q)
         /\ EndsOnce(q) => EndsOnce(r)
<1>1. PICK S : q \in Seq(S) /\ x \in S
  <2>1. PICK S : q \in Seq(S)
    BY DEF IsSeq
  <2>2. q \in Seq(S \cup {x})
    BY <2>1
  <2> QED
    BY <2>2
<1>2. Tail(q) \in Seq(S) /\ Len(Tail(q)) = Len(q) - 1 /\ Len(q) \in Nat \ {0}
  BY <1>1
<1>3. /\ DOMAIN q = 1..Len(q) /\ DOMAIN r = 1..Len(q) /\ r[1] = x
      /\ \A i \in 2..Len(q) : r[i] = q[i]
  BY <1>1, <1>2
<1>4. /\ \A i \in DOMAIN r : i \in DOMAIN q /\ (i = 1 \/ (i > 1 /\ r[i] = q[i]))
      /\ \A i \in DOMAIN q : i \in DOMAIN r
  BY <1>2, <1>3
<1>5. r[1].type # "REMOVE_APP"
  BY <1>3
<1> QED
  BY <1>4, <1>5 DEF HasEnd, Behind, EndsOnce

LEMMA ListAppended ==
  ASSUME NEW l, IsSeq(l), NEW s, NEW t, t = Append(l, s), NEW n, NEW sig
  PROVE  /\ Came(t, n, sig) <=> Came(l, n, sig) \/ (s.from = n /\ s.msg.sig = sig)
         /\ ~ (s.from = n /\ s.msg.sig = sig) /\ CameOnce(l, n, sig) =>
              CameOnce(t, n, sig)
         /\ ~ Came(l, n, sig) => CameOnce(t, n, sig)
<1> DEFINE e == Len(l) + 1
<1>1. /\ Len(l) \in Nat /\ DOMAIN l = 1..Len(l) /\ DOMAIN t = 1..e
      /\ t[e] = s /\ \A i \in 1..Len(l) : t[i] = l[i]
  BY Appending
<1>2. /\ \A i \in DOMAIN l : i \in DOMAIN t /\ t[i] = l[i] /\ i # e
      /\ \A i \in DOMAIN t : i = e \/ i \in DOMAIN l
      /\ e \in DOMAIN t /\ t[e] = s
  BY <1>1
<1> HIDE DEF e
<1> QED
  BY <1>2 DEF Came, CameOnce

LEMMA ListTailed ==
  ASSUME NEW l, IsSeq(l), l # <<>>, NEW t, t = Tail(l), NEW n, NEW sig
  PROVE  /\ ~ (Head(l).from = n /\ Head(l).msg.sig = sig) =>
              (Came(t, n, sig) <=> Came(l, n, sig))
         /\ Came(t, n, sig) => Came(l, n, sig)
         /\ CameOnce(l, n, sig) => CameOnce(t, n, sig)
         /\ Head(l).from = n /\ Head(l).msg.sig = sig =>
              /\ Came(l, n, sig)
              /\ CameOnce(l, n, sig) => ~ Came(t, n, sig)
<1>1. /\ Len(l) \in Nat \ {0} /\ DOMAIN l = 1..Len(l) /\ Head(l) = l[1]
      /\ DOMAIN t = 1..(Len(l) - 1)
      /\ \A i \in 1..(Len(l) - 1) : t[i] = l[i + 1]
  BY Shortening
<1>2. /\ \A i \in DOMAIN t : i + 1 \in DOMAIN l /\ i + 1 # 1 /\ t[i] = l[i + 1]
      /\ \A i \in DOMAIN l : i # 1 => i - 1 \in DOMAIN t /\ t[i - 1] = l[i]
      /\ DOMAIN t \subseteq Nat /\ DOMAIN l \subseteq Nat
      /\ 1 \in DOMAIN l /\ l[1] = Head(l)
  BY <1>1
<1>3. Came(t, n, sig) => Came(l, n, sig)
  BY <1>2 DEF Came
<1>4. ASSUME ~ (Head(l).from = n /\ Head(l).msg.sig = sig), Came(l, n, sig)
      PROVE  Came(t, n, sig)
  <2>1. PICK i \in DOMAIN l : l[i].from = n /\ l[i].msg.sig = sig
    BY <1>4 DEF Came
  <2>2. i # 1
    BY <1>2, <1>4, <2>1
  <2> QED
    BY <1>2, <2>1, <2>2 DEF Came
<1>5. ASSUME CameOnce(l, n, sig) PROVE CameOnce(t, n, sig)
  <2>1. ASSUME NEW i \in DOMAIN t, NEW j \in DOMAIN t,
               t[i].from = n, t[i].msg.sig = sig,
               t[j].from = n, t[j].msg.sig = sig
        PROVE  i = j
    <3>1. i + 1 = j + 1
      BY <1>2, <1>5, <2>1 DEF CameOnce
    <3> QED
      BY <1>2, <3>1
  <2> QED
    BY <2>1 DEF CameOnce
<1>6. Head(l).from = n /\ Head(l).msg.sig = sig =>
        /\ Came(l, n, sig)
        /\ CameOnce(l, n, sig) => ~ Came(t, n, sig)
  BY <1>2 DEF Came, CameOnce
<1> QED
  BY <1>3, <1>4, <1>5, <1>6
-----------------------------------------------------------------------------
(* Calls that tell no end and lose none.                                     *)

\* What n has for p in queue q and list l becomes r and t.
KeptQueue(q, l, r, t, n) ==
  /\ EndsOnce(q) => EndsOnce(r)
  /\ HasEnd(r) => HasEnd(q)
  /\ Came(t, n, "FINISH") \/ Behind(r) <=> Came(l, n, "FINISH") \/ Behind(q)
KeptList(l, t, n) ==
  /\ Came(t, n, "APP_TERMINATED") <=> Came(l, n, "APP_TERMINATED")
  /\ CameOnce(l, n, "APP_TERMINATED") => CameOnce(t, n, "APP_TERMINATED")
Kept(net, r) ==
  \A n \in Node :
    /\ KeptList(net.mail[Zero], r.mail[Zero], n)
    /\ n \in Agent => KeptQueue(net.inter[n][Zero], net.mail[Zero],
                                r.inter[n][Zero], r.mail[Zero], n)

LEMMA KeptNext ==
  ASSUME NEW net, NEW r, NEW t, Kept(net, r), Kept(r, t)
  PROVE  Kept(net, t)
BY DEF Kept, KeptList, KeptQueue

\* A list gets a signal that tells no end, or that of another node.
LEMMA KeptListed ==
  ASSUME NEW l, IsSeq(l), NEW t, NEW n,
         \/ t = l
         \/ \E s : /\ t = Append(l, s)
                   /\ s.from # n \/ s.msg.sig # "APP_TERMINATED"
  PROVE  KeptList(l, t, n)
<1>1. CASE t = l
  BY <1>1 DEF KeptList
<1>2. ASSUME NEW s, t = Append(l, s), s.from # n \/ s.msg.sig # "APP_TERMINATED"
      PROVE  KeptList(l, t, n)
  BY ZenonT(30), <1>2, ListAppended DEF KeptList
<1> QED
  BY <1>1, <1>2

LEMMA KeptBeside ==
  ASSUME NEW q, NEW l, IsSeq(l), NEW t, NEW n,
         \/ t = l
         \/ \E s : t = Append(l, s) /\ (s.from # n \/ s.msg.sig # "FINISH")
  PROVE  KeptQueue(q, l, q, t, n)
<1>1. CASE t = l
  BY <1>1 DEF KeptQueue
<1>2. ASSUME NEW s, t = Append(l, s), s.from # n \/ s.msg.sig # "FINISH"
      PROVE  KeptQueue(q, l, q, t, n)
  <2>1. Came(t, n, "FINISH") <=> Came(l, n, "FINISH")
    BY <1>2, ListAppended
  <2> QED
    BY <2>1 DEF KeptQueue
<1> QED
  BY <1>1, <1>2

\* Node n changes its queues and sends no APP_TERMINATED.
LEMMA KeptBy ==
  ASSUME NEW net, Sound(net), NEW r, NEW n \in Node,
         \A m \in Node : m # n => r.inter[m] = net.inter[m],
         \A p \in Node :
           \/ r.mail[p] = net.mail[p]
           \/ \E s : /\ r.mail[p] = Append(net.mail[p], s) /\ s.from = n
                     /\ s.msg.sig # "APP_TERMINATED",
         n \in Agent => \A p \in Node :
           KeptQueue(net.inter[n][p], net.mail[p], r.inter[n][p], r.mail[p], n)
  PROVE  Kept(net, r)
<1> SUFFICES ASSUME NEW m \in Node, NEW p \in Node, p = Zero
             PROVE  /\ KeptList(net.mail[p], r.mail[p], m)
                    /\ m \in Agent =>
                         KeptQueue(net.inter[m][p], net.mail[p], r.inter[m][p],
                                   r.mail[p], m)
  BY ClusterAssumption DEF Kept, Node
<1>1. IsSeq(net.mail[p])
  BY DEF Sound, SoundList
<1>2. KeptList(net.mail[p], r.mail[p], m)
  BY <1>1, KeptListed
<1>3. ASSUME m \in Agent, m # n
      PROVE  KeptQueue(net.inter[m][p], net.mail[p], r.inter[m][p], r.mail[p], m)
  <2>1. r.inter[m][p] = net.inter[m][p]
    BY <1>3
  <2>2. \/ r.mail[p] = net.mail[p]
        \/ \E s : r.mail[p] = Append(net.mail[p], s) /\ s.from # m
    BY <1>3
  <2> QED
    BY <1>1, <2>1, <2>2, KeptBeside
<1> QED
  BY <1>2, <1>3

\* The queue of n for p and the list of p change alone.
LEMMA KeptOne ==
  ASSUME NEW net, Sound(net), NEW r, NEW n \in Node, NEW p \in Node,
         OnlyWith(net, r, n, p),
         \/ r.mail[p] = net.mail[p]
         \/ \E s : /\ r.mail[p] = Append(net.mail[p], s) /\ s.from = n
                   /\ s.msg.sig # "APP_TERMINATED",
         n \in Agent =>
           KeptQueue(net.inter[n][p], net.mail[p], r.inter[n][p], r.mail[p], n)
  PROVE  Kept(net, r)
<1>1. /\ \A m \in Node : m # n => r.inter[m] = net.inter[m]
      /\ \A m \in Node : m # p =>
           r.inter[n][m] = net.inter[n][m] /\ r.mail[m] = net.mail[m]
  BY DEF OnlyWith
<1>2. \A m \in Node : m # p =>
        KeptQueue(net.inter[n][m], net.mail[m], r.inter[n][m], r.mail[m], n)
  BY <1>1 DEF KeptQueue
<1>3. \A m \in Node :
        \/ r.mail[m] = net.mail[m]
        \/ \E s : /\ r.mail[m] = Append(net.mail[m], s) /\ s.from = n
                  /\ s.msg.sig # "APP_TERMINATED"
  BY <1>1
<1> QED
  BY <1>1, <1>2, <1>3, KeptBy

LEMMA KeptSend ==
  ASSUME NEW net, Sound(net), NEW n \in Node, NEW p \in Node, NEW s,
         s.sig \notin {"FINISH", "APP_TERMINATED"}, NEW r, Sends(net, r, n, p, s)
  PROVE  Kept(net, r)
<1>1. PICK u : u = [from |-> n, msg |-> s]
  OBVIOUS
<1>2. /\ OnlyWith(net, r, n, p) /\ r.inter = net.inter
      /\ r.mail[p] = Append(net.mail[p], u)
  BY <1>1, SendIs DEF Sound
<1>3. u.from = n /\ u.msg.sig \notin {"FINISH", "APP_TERMINATED"}
  BY <1>1
<1>4. IsSeq(net.mail[p])
  BY DEF Sound, SoundList
<1>5. KeptQueue(net.inter[n][p], net.mail[p], r.inter[n][p], r.mail[p], n)
  BY <1>2, <1>3, <1>4, KeptBeside
<1> QED
  BY <1>2, <1>3, <1>5, KeptOne

\* What the signals of interactions tell.
LEMMA EndTold ==
  ASSUME NEW x, x.type \in Waiting \cup {"REP_AGENT_REQ_CORES", "REP_AGENT_OFFER_SENT"}
  PROVE  /\ SignalOf(x).sig = "FINISH" <=> x.type = "REMOVE_APP"
         /\ SignalOf(x).sig # "APP_TERMINATED"
<1>1. SignalOf(x).sig # "APP_TERMINATED"
  BY Signals
<1>2. SignalOf(x).sig = "FINISH" <=> x.type = "REMOVE_APP"
  BY DEF SignalOf, Waiting, Reports
<1> QED
  BY <1>1, <1>2

\* An interaction that is no end joins the queue.
LEMMA PairPosted ==
  ASSUME NEW q, IsSeq(q), NEW l, IsSeq(l), NEW n, NEW x, NEW s,
         x.type # "REMOVE_APP", s.msg.sig # "FINISH",
         NEW r, r = Append(q, x), NEW t, t = l \/ t = Append(l, s)
  PROVE  KeptQueue(q, l, r, t, n)
<1>1. /\ HasEnd(r) <=> HasEnd(q)
      /\ Behind(r) <=> Behind(q)
      /\ EndsOnce(q) => EndsOnce(r)
  BY QueueAppended
<1>2. Came(t, n, "FINISH") <=> Came(l, n, "FINISH")
  BY ListAppended
<1> QED
  BY <1>1, <1>2 DEF KeptQueue

LEMMA KeptPost ==
  ASSUME NEW net, Sound(net), NEW n \in Node, NEW p \in Node, NEW x,
         x.type \in Waiting \cup {"REP_AGENT_REQ_CORES"}, x.type # "REMOVE_APP",
         NEW r, Posts(net, r, n, p, x)
  PROVE  Kept(net, r)
<1>1. PICK s : s = [from |-> n, msg |-> SignalOf(x)]
  OBVIOUS
<1>2. /\ OnlyWith(net, r, n, p) /\ r.inter[n][p] = Append(net.inter[n][p], x)
      /\ r.mail[p] = IF net.inter[n][p] = <<>> THEN Append(net.mail[p], s)
                     ELSE net.mail[p]
  BY <1>1, PostIs DEF Sound
<1>3. s.from = n /\ s.msg.sig \notin {"FINISH", "APP_TERMINATED"}
  BY <1>1, EndTold
<1>4. IsSeq(net.mail[p]) /\ IsSeq(net.inter[n][p])
  BY DEF Sound, SoundList, SoundQueue
<1>5. KeptQueue(net.inter[n][p], net.mail[p], r.inter[n][p], r.mail[p], n)
  BY <1>2, <1>3, <1>4, PairPosted
<1> QED
  BY <1>2, <1>3, <1>5, KeptOne

\* The head is over and the next one is sent, which may be an end.
LEMMA PairPopped ==
  ASSUME NEW q, IsSeq(q), q # <<>>, NEW l, IsSeq(l), NEW n, NEW r, r = Tail(q),
         NEW s, s.from = n,
         r # <<>> => (s.msg.sig = "FINISH" <=> Head(r).type = "REMOVE_APP"),
         NEW t, t = IF r # <<>> THEN Append(l, s) ELSE l
  PROVE  KeptQueue(q, l, r, t, n)
<1>1. /\ HasEnd(r) <=> Behind(q)
      /\ HasEnd(r) => HasEnd(q)
      /\ EndsOnce(q) => EndsOnce(r)
      /\ HasEnd(r) <=> (r # <<>> /\ Head(r).type = "REMOVE_APP") \/ Behind(r)
  BY QueueTailed
<1>2. CASE r = <<>>
  BY <1>1, <1>2 DEF KeptQueue
<1>3. CASE r # <<>>
  <2>1. Came(t, n, "FINISH") <=> Came(l, n, "FINISH") \/ s.msg.sig = "FINISH"
    BY <1>3, ListAppended
  <2> QED
    BY <1>1, <1>3, <2>1 DEF KeptQueue
<1> QED
  BY <1>2, <1>3

LEMMA KeptPop ==
  ASSUME NEW net, Sound(net), NEW n \in Node, NEW p \in Node,
         net.inter[n][p] # <<>>, NEW r, Pops(net, r, n, p)
  PROVE  Kept(net, r)
<1>1. PICK q, l, rest : q = net.inter[n][p] /\ l = net.mail[p] /\ rest = Tail(q)
  OBVIOUS
<1>2. PICK s : s = [from |-> n, msg |-> SignalOf(Head(rest))]
  OBVIOUS
<1>3. Popped(net, r, n, p, rest)
  BY <1>1, PopParts
<1>4. /\ OnlyWith(net, r, n, p) /\ r.inter[n][p] = rest
      /\ r.mail[p] = IF rest # <<>> THEN Append(l, s) ELSE l
  BY <1>1, <1>2, <1>3 DEF Popped
<1>5. IsSeq(q) /\ IsSeq(l) /\ SoundQueue(q) /\ q # <<>>
  BY <1>1 DEF Sound, SoundList, SoundQueue
<1>6. /\ s.from = n
      /\ rest # <<>> => /\ s.msg.sig = "FINISH" <=> Head(rest).type = "REMOVE_APP"
                        /\ s.msg.sig # "APP_TERMINATED"
  <2>1. rest # <<>> => Head(rest).type \in Waiting
    BY <1>1, <1>5, NextWaits
  <2> QED
    BY <1>2, <2>1, EndTold
<1>7. KeptQueue(q, l, r.inter[n][p], r.mail[p], n)
  BY <1>1, <1>4, <1>5, <1>6, PairPopped
<1>8. \/ r.mail[p] = net.mail[p]
      \/ /\ r.mail[p] = Append(net.mail[p], s) /\ s.from = n
         /\ s.msg.sig # "APP_TERMINATED"
  BY <1>1, <1>4, <1>6
<1> QED
  BY <1>1, <1>4, <1>7, <1>8, KeptOne

\* The head becomes an interaction that is no end.
LEMMA PairReheaded ==
  ASSUME NEW q, IsSeq(q), q # <<>>, NEW l, IsSeq(l), NEW n, NEW x, NEW s,
         x.type # "REMOVE_APP", s.msg.sig # "FINISH",
         NEW r, r = <<x>> \o Tail(q), NEW t, t = l \/ t = Append(l, s)
  PROVE  KeptQueue(q, l, r, t, n)
<1>1. /\ HasEnd(r) => HasEnd(q)
      /\ Behind(r) <=> Behind(q)
      /\ EndsOnce(q) => EndsOnce(r)
  BY QueueReheaded
<1>2. Came(t, n, "FINISH") <=> Came(l, n, "FINISH")
  BY ListAppended
<1> QED
  BY <1>1, <1>2 DEF KeptQueue

LEMMA KeptRehead ==
  ASSUME NEW net, Sound(net), NEW n \in Node, NEW p \in Node,
         net.inter[n][p] # <<>>, NEW x, x.type # "REMOVE_APP",
         NEW r, Reheads(net, r, n, p, x)
  PROVE  Kept(net, r)
<1>1. PICK s : s.msg.sig # "FINISH"
  <2>1. [msg |-> [sig |-> "ACK"]].msg.sig # "FINISH"
    OBVIOUS
  <2> QED
    BY <2>1
<1>2. /\ OnlyWith(net, r, n, p) /\ r.mail = net.mail
      /\ r.inter[n][p] = <<x>> \o Tail(net.inter[n][p])
  BY SMTT(30), ReheadIs DEF Sound, Reheads
<1>3. IsSeq(net.mail[p]) /\ IsSeq(net.inter[n][p])
  BY DEF Sound, SoundList, SoundQueue
<1>4. KeptQueue(net.inter[n][p], net.mail[p], r.inter[n][p], r.mail[p], n)
  BY <1>1, <1>2, <1>3, PairReheaded
<1> QED
  BY <1>2, <1>4, KeptOne

\* A controller drops what it had to do with another node.
LEMMA KeptClear ==
  ASSUME NEW net, Sound(net), NEW c \in Controller, NEW p \in Node,
         NEW q, NEW r, Keeps(net, r, c, p, q)
  PROVE  Kept(net, r)
<1>1. c \in Node /\ c \notin Agent
  BY ClusterAssumption DEF Node
<1>2. OnlyWith(net, r, c, p) /\ r.mail = net.mail
  BY <1>1, SetIs DEF Sound
<1> QED
  BY <1>1, <1>2, KeptOne

\* Interactions with several nodes are begun; only a controller passes ends on.
LEMMA KeptSpread ==
  ASSUME NEW net, Sound(net), NEW n \in Node, NEW items,
         \A p \in DOMAIN items :
           /\ items[p].type \in Waiting
           /\ n \in Agent => items[p].type # "REMOVE_APP",
         NEW r, PostsAll(net, r, n, items)
  PROVE  Kept(net, r)
<1>1. /\ IsNet(r) /\ \A m \in Node : m # n => r.inter[m] = net.inter[m]
      /\ \A p \in Node : r.inter[n][p] =
           IF p \in DOMAIN items THEN Append(net.inter[n][p], items[p])
           ELSE net.inter[n][p]
      /\ \A p \in Node : r.mail[p] =
           IF p \in DOMAIN items /\ net.inter[n][p] = <<>>
           THEN Append(net.mail[p], [from |-> n, msg |-> SignalOf(items[p])])
           ELSE net.mail[p]
  BY PostAllParts DEF Sound, PostsAll
<1>2. ASSUME NEW p \in Node
      PROVE  /\ \/ r.mail[p] = net.mail[p]
                \/ \E s : /\ r.mail[p] = Append(net.mail[p], s) /\ s.from = n
                          /\ s.msg.sig # "APP_TERMINATED"
             /\ n \in Agent => KeptQueue(net.inter[n][p], net.mail[p],
                                         r.inter[n][p], r.mail[p], n)
  <2>1. IsSeq(net.mail[p]) /\ IsSeq(net.inter[n][p])
    BY DEF Sound, SoundList, SoundQueue
  <2>2. CASE p \notin DOMAIN items
    BY <1>1, <2>2 DEF KeptQueue
  <2>3. CASE p \in DOMAIN items
    <3>1. PICK x, s : x = items[p] /\ s = [from |-> n, msg |-> SignalOf(x)]
      OBVIOUS
    <3>2. /\ r.inter[n][p] = Append(net.inter[n][p], x)
          /\ r.mail[p] = net.mail[p] \/ r.mail[p] = Append(net.mail[p], s)
      BY <1>1, <2>3, <3>1
    <3>3. /\ s.from = n /\ s.msg.sig # "APP_TERMINATED"
          /\ n \in Agent => x.type # "REMOVE_APP" /\ s.msg.sig # "FINISH"
      <4>1. x.type \in Waiting /\ (n \in Agent => x.type # "REMOVE_APP")
        BY <2>3, <3>1
      <4> QED
        BY <3>1, <4>1, EndTold
    <3>4. n \in Agent => KeptQueue(net.inter[n][p], net.mail[p], r.inter[n][p],
                                   r.mail[p], n)
      BY <2>1, <3>2, <3>3, PairPosted
    <3> QED
      BY <3>2, <3>3, <3>4
  <2> QED
    BY <2>2, <2>3
<1>3. \A p \in Node :
        \/ r.mail[p] = net.mail[p]
        \/ \E s : /\ r.mail[p] = Append(net.mail[p], s) /\ s.from = n
                  /\ s.msg.sig # "APP_TERMINATED"
  BY <1>2
<1>4. n \in Agent => \A p \in Node :
        KeptQueue(net.inter[n][p], net.mail[p], r.inter[n][p], r.mail[p], n)
  BY <1>2
<1> QED
  BY <1>1, <1>3, <1>4, KeptBy

LEMMA KeptAnswers ==
  ASSUME NEW net, Sound(net), NEW n \in Node, NEW r, Replies(net, r, n),
         \A p \in Unanswered(n) : net.inter[n][p] # <<>>
  PROVE  Kept(net, r)
<1>1. /\ IsNet(r) /\ \A m \in Node : m # n => r.inter[m] = net.inter[m]
      /\ \A p \in Node : p \notin Unanswered(n) =>
           r.inter[n][p] = net.inter[n][p] /\ r.mail[p] = net.mail[p]
  BY DEF Replies
<1>2. ASSUME NEW p \in Node
      PROVE  /\ \/ r.mail[p] = net.mail[p]
                \/ \E s : /\ r.mail[p] = Append(net.mail[p], s) /\ s.from = n
                          /\ s.msg.sig # "APP_TERMINATED"
             /\ KeptQueue(net.inter[n][p], net.mail[p], r.inter[n][p],
                          r.mail[p], n)
  <2>1. IsSeq(net.mail[p]) /\ IsSeq(net.inter[n][p])
    BY DEF Sound, SoundList, SoundQueue
  <2>2. CASE p \notin Unanswered(n)
    BY <1>1, <2>2 DEF KeptQueue
  <2>3. CASE p \in Unanswered(n)
    <3>1. PICK x : /\ x.type = "REP_AGENT_OFFER_SENT"
                   /\ r.inter[n][p] = <<x>> \o Tail(net.inter[n][p])
                   /\ r.mail[p] = Append(net.mail[p],
                                         [from |-> n, msg |-> SignalOf(x)])
      BY <2>3 DEF Replies
    <3>2. PICK s : s = [from |-> n, msg |-> SignalOf(x)]
      OBVIOUS
    <3>3. /\ s.from = n /\ s.msg.sig \notin {"FINISH", "APP_TERMINATED"}
          /\ x.type # "REMOVE_APP" /\ net.inter[n][p] # <<>>
      BY <2>3, <3>1, <3>2, EndTold
    <3>4. KeptQueue(net.inter[n][p], net.mail[p], r.inter[n][p], r.mail[p], n)
      BY <2>1, <3>1, <3>2, <3>3, PairReheaded
    <3> QED
      BY <3>1, <3>2, <3>3, <3>4
  <2> QED
    BY <2>2, <2>3
<1>3. \A p \in Node :
        \/ r.mail[p] = net.mail[p]
        \/ \E s : /\ r.mail[p] = Append(net.mail[p], s) /\ s.from = n
                  /\ s.msg.sig # "APP_TERMINATED"
  BY <1>2
<1>4. \A p \in Node :
        KeptQueue(net.inter[n][p], net.mail[p], r.inter[n][p], r.mail[p], n)
  BY <1>2
<1> QED
  BY <1>1, <1>3, <1>4, KeptBy

\* A signal that tells core 0 of no end is taken from the list.
LEMMA KeptTaken ==
  ASSUME Shaped, Sound(Net), NEW n \in Node, mail[n] # <<>>,
         n = Zero =>
           /\ Head(mail[n]).msg.sig # "APP_TERMINATED"
           /\ Head(mail[n]).msg.sig = "FINISH" => Head(mail[n]).from \notin Agent
  PROVE  Kept(Net, Taken(n))
<1>1. /\ Taken(n).inter = inter /\ Taken(n).mail[n] = Tail(mail[n])
      /\ \A m \in Node : m # n => Taken(n).mail[m] = mail[m]
      /\ Net.inter = inter /\ Net.mail = mail
  BY TakenIs, NowIs
<1>2. PICK net, r : net = Net /\ r = Taken(n)
  OBVIOUS
<1>3. ASSUME NEW m \in Node, NEW p \in Node, p = Zero
      PROVE  /\ KeptList(net.mail[p], r.mail[p], m)
             /\ m \in Agent => KeptQueue(net.inter[m][p], net.mail[p],
                                         r.inter[m][p], r.mail[p], m)
  <2>1. CASE p # n
    BY <1>1, <1>2, <2>1 DEF KeptList, KeptQueue
  <2>2. CASE p = n
    <3>1. PICK l, t : /\ l = mail[n] /\ t = Tail(l) /\ IsSeq(l) /\ l # <<>>
                      /\ net.mail[p] = l /\ r.mail[p] = t
                      /\ r.inter[m][p] = net.inter[m][p]
      BY <1>1, <1>2, <2>2 DEF Sound, SoundList
    <3>2. KeptList(l, t, m)
      BY <1>3, <2>2, <3>1, ListTailed DEF KeptList
    <3>3. m \in Agent => (Came(t, m, "FINISH") <=> Came(l, m, "FINISH"))
      BY <1>3, <2>2, <3>1, ListTailed
    <3> QED
      BY <3>1, <3>2, <3>3 DEF KeptQueue
  <2> QED
    BY <2>1, <2>2
<1> QED
  BY <1>2, <1>3, ClusterAssumption DEF Kept, Node

\* A handler takes a signal, and answers or not.
LEMMA KeptAnswering ==
  ASSUME IInv, Sound(Net), NEW n \in Node, NEW p, NEW sig, Hears(n, p, sig),
         sig \notin {"FINISH", "APP_TERMINATED"}, NEW net, Answering(n, p, net)
  PROVE  /\ Kept(Net, net) /\ Sound(net) /\ net.inter[n][p] = inter[n][p]
<1>1. /\ Shaped /\ mail[n] # <<>> /\ p \in Node
      /\ Head(mail[n]).msg.sig \notin {"FINISH", "APP_TERMINATED"}
  BY DEF IInv, Hears
<1>2. Kept(Net, Taken(n)) /\ Sound(Taken(n))
  BY <1>1, KeptTaken, TakenSound
<1>3. Sound(net) /\ net.inter[n][p] = inter[n][p]
  BY AnswersMove
<1>4. ASSUME NEW k \in {"ACK", "REJECT"}, Sends(Taken(n), net, n, p, [sig |-> k])
      PROVE  Kept(Taken(n), net)
  <2>1. PICK s : s = [sig |-> k]
    OBVIOUS
  <2>2. s.sig \notin {"FINISH", "APP_TERMINATED"} /\ Sends(Taken(n), net, n, p, s)
    BY <1>4, <2>1
  <2>3. PICK taken : taken = Taken(n)
    OBVIOUS
  <2> QED
    BY <1>1, <1>2, <2>2, <2>3, KeptSend
<1>5. Kept(Net, net)
  BY <1>2, <1>4, KeptNext DEF Answering
<1> QED
  BY <1>3, <1>5

\* A handler takes a signal, answers or not, and ends the interaction.
LEMMA KeptEnding ==
  ASSUME IInv, Sound(Net), NEW n \in Node, NEW p, NEW sig, Hears(n, p, sig),
         sig \notin {"FINISH", "APP_TERMINATED"}, NEW net, Answering(n, p, net),
         inter[n][p] # <<>>, NEW r, Pops(net, r, n, p)
  PROVE  Kept(Net, r)
<1>1. Kept(Net, net) /\ Sound(net) /\ net.inter[n][p] # <<>> /\ p \in Node
  BY KeptAnswering DEF Hears
<1>2. Kept(net, r)
  BY <1>1, KeptPop
<1> QED
  BY <1>1, <1>2, KeptNext
-----------------------------------------------------------------------------
(* Steps that tell core 0 of no end.                                         *)

NetKept == Kept(Net, Net')

LEMMA KeptNow ==
  ASSUME NEW r, Kept(Net, r), Becomes(r)
  PROVE  NetKept
<1>1. /\ Net'.inter = r.inter /\ Net'.mail = r.mail
  BY DEF Becomes, Net
<1> QED
  BY <1>1 DEF NetKept, Kept

LEMMA KeptSame ==
  ASSUME inter' = inter, mail' = mail
  PROVE  NetKept
BY DEF NetKept, Kept, KeptList, KeptQueue, Net

LEMMA DiscoveryDoneKept ==
  ASSUME OInv, NEW a \in Agent, DiscoveryDone(a)
  PROVE  NetKept
<1>1. a \in Node /\ Sound(Net)
  BY DEF Node, OInv, Owned
<1>2. PICK targets :
        Becomes(PostAll(Net, a, [t \in targets |->
                          [type |-> "SELFOPT_REQ_CORES_PENDING"]]))
  BY DEF DiscoveryDone
<1>3. PICK items, r : /\ items = [t \in targets |->
                                    [type |-> "SELFOPT_REQ_CORES_PENDING"]]
                      /\ r = PostAll(Net, a, items)
  OBVIOUS
<1>4. \A p \in DOMAIN items :
        items[p].type \in Waiting /\ items[p].type # "REMOVE_APP"
  BY <1>3 DEF Waiting
<1>5. PostsAll(Net, r, a, items) /\ Becomes(r)
  BY <1>2, <1>3 DEF PostsAll
<1>6. PICK net : net = Net
  OBVIOUS
<1>7. Kept(net, r)
  BY <1>1, <1>4, <1>5, <1>6, KeptSpread
<1> QED
  BY <1>5, <1>6, <1>7, KeptNow

LEMMA SelfChkOffersKept ==
  ASSUME OInv, NEW a \in Agent, SelfChkOffers(a)
  PROVE  NetKept
<1>1. PICK taken :
        taken = IF Accepts(a) THEN Head(selfopt_offers[a]).cores ELSE {}
  OBVIOUS
<1>2. PICK told, r, c, x :
        /\ c = idag_mask[a]
        /\ x = [type |-> "IDAG_ADD_CORES_DDS", cores |-> taken, agent |-> a]
        /\ told = IF ~ Accepts(a) THEN Net ELSE Post(Net, a, c, x)
        /\ r = AnswerOffers(told, a)
  OBVIOUS
<1>3. Becomes(r)
  BY <1>1, <1>2 DEF SelfChkOffers
<1>4. PICK net : net = Net
  OBVIOUS
<1>5. /\ a \in Node /\ c \in Node /\ a # NotOffered /\ Sound(net)
      /\ net.inter = inter
  BY <1>2, <1>4, Controlled, ClusterAssumption DEF OInv, Owned, Net
<1>6. \A p \in Unanswered(a) : p \in Node /\ inter[a][p] # <<>>
  BY DEF Unanswered, HeadType
<1>7. /\ Kept(net, told) /\ Sound(told)
      /\ \A p \in Unanswered(a) : told.inter[a][p] # <<>>
  <2>1. CASE ~ Accepts(a)
    BY <1>2, <1>4, <1>5, <1>6, <2>1 DEF Kept, KeptList, KeptQueue
  <2>2. CASE Accepts(a)
    <3>1. Posts(net, told, a, c, x)
      BY <1>2, <1>4, <2>2 DEF Posts
    <3>2. /\ x.type \in Waiting /\ x.type \notin Offers \cup {"REMOVE_APP"}
          /\ Speaks(x)
      <4>1. x.type = "IDAG_ADD_CORES_DDS" /\ x.agent # NotOffered
        BY <1>2, <1>5
      <4> QED
        BY <4>1 DEF Waiting, Reports, Offers, Speaks
    <3>3. Kept(net, told)
      BY <1>5, <3>1, <3>2, KeptPost
    <3>4. PICK P : P = {}
      OBVIOUS
    <3>5. Sound(told) /\ Goes(net, told, a, P, 0, P)
      BY <1>5, <3>1, <3>2, GoesPost
    <3>6. ASSUME NEW p \in Unanswered(a) PROVE told.inter[a][p] # <<>>
      BY <1>5, <1>6, <3>4, <3>5, <3>6 DEF Goes, Carries
    <3> QED
      BY <3>3, <3>5, <3>6
  <2> QED
    BY <2>1, <2>2
<1>8. Replies(told, r, a)
  BY <1>2, <1>5, <1>7, AnswerOffersIs DEF Answers, Sound
<1>9. Kept(told, r)
  BY <1>5, <1>7, <1>8, KeptAnswers
<1>10. Kept(Net, r)
  BY <1>4, <1>7, <1>9, KeptNext
<1> QED
  BY <1>3, <1>10, KeptNow

LEMMA ReqCoresKept ==
  ASSUME OInv, NEW n \in Node, ReqCores(n)
  PROVE  NetKept
<1>1. Receives(n, "REQ_CORES") /\ IInv /\ Sound(Net)
  BY DEF ReqCores, OInv, Owned
<1>2. PICK p : Hears(n, p, "REQ_CORES")
  BY <1>1, Heard
<1>3. PICK branch : branch = ReqBranch(n, p, Brings(Head(mail[n]).msg))
  OBVIOUS
<1>4. PICK taken, ack, reject : /\ taken = Taken(n) /\ ack = Send(taken, n, p, Ack)
                                /\ reject = Send(taken, n, p, Reject)
  OBVIOUS
<1>5. Becomes(
        CASE branch \in {"offer", "collect"} -> ack
          [] branch = "reject" -> reject
          [] branch = "stray" -> Pop(reject, n, p)
          [] branch = "nothing offered" -> Pop(ack, n, p)
          [] branch = "crossed" -> Pop(taken, n, p))
  BY <1>2, <1>3, <1>4 DEF ReqCores, Hears
<1>6. /\ branch \in {"stray", "nothing offered", "crossed"} => inter[n][p] # <<>>
      /\ branch \in {"offer", "reject", "stray", "collect", "nothing offered",
                     "crossed"}
  BY <1>3 DEF ReqBranch, HeadType
<1>7. Answering(n, p, ack) /\ Answering(n, p, reject) /\ Answering(n, p, taken)
  BY <1>4 DEF Answering, Ack, Reject, Sends
<1>8. ASSUME NEW net, Answering(n, p, net), Becomes(net) PROVE NetKept
  BY <1>1, <1>2, <1>8, KeptAnswering, KeptNow
<1>9. ASSUME NEW net, Answering(n, p, net), Becomes(Pop(net, n, p)), inter[n][p] # <<>>
      PROVE  NetKept
  <2>1. PICK r : Pops(net, r, n, p) /\ Becomes(r)
    BY <1>9 DEF Pops
  <2> QED
    BY <1>1, <1>2, <1>9, <2>1, KeptEnding, KeptNow
<1>10. CASE branch \in {"offer", "collect", "reject"}
  <2>1. Becomes(ack) \/ Becomes(reject)
    BY <1>5, <1>10
  <2> QED
    BY <1>7, <1>8, <2>1
<1>11. CASE branch \in {"stray", "nothing offered", "crossed"}
  <2>1. \/ Becomes(Pop(reject, n, p)) \/ Becomes(Pop(ack, n, p))
        \/ Becomes(Pop(taken, n, p))
    BY <1>5, <1>11
  <2> QED
    BY <1>6, <1>7, <1>9, <1>11, <2>1
<1> QED
  BY <1>6, <1>10, <1>11

LEMMA AckClearKept ==
  ASSUME OInv, NEW n \in Node, AckClear(n) \/ RejectRequest(n)
  PROVE  NetKept
<1>1. IInv /\ Sound(Net)
  BY DEF OInv, Owned
<1>2. PICK sig \in {"ACK", "REJECT"} : Receives(n, sig)
  BY DEF AckClear, RejectRequest
<1>3. PICK p : Hears(n, p, sig)
  BY <1>1, <1>2, Heard
<1>4. PICK net : net = Taken(n) /\ Answering(n, p, net)
  BY DEF Answering
<1>5. \/ Becomes(net)
      \/ inter[n][p] # <<>> /\ \E r : Pops(net, r, n, p) /\ Becomes(r)
  <2>1. CASE AckClear(n)
    BY <1>3, <1>4, <2>1 DEF AckClear, Hears, HeadType, Pops
  <2>2. CASE RejectRequest(n)
    BY <1>3, <1>4, <2>2 DEF RejectRequest, Hears, HeadType, Pops
  <2> QED
    BY <2>1, <2>2
<1>6. CASE Becomes(net)
  BY <1>1, <1>3, <1>4, <1>6, KeptAnswering, KeptNow
<1>7. ASSUME inter[n][p] # <<>>, NEW r, Pops(net, r, n, p), Becomes(r)
      PROVE  NetKept
  BY <1>1, <1>3, <1>4, <1>7, KeptEnding, KeptNow
<1> QED
  BY <1>5, <1>6, <1>7

LEMMA AnswerKept ==
  ASSUME OInv, NEW n \in Node, RepOffersNo(n) \/ RejectOffer(n)
  PROVE  NetKept
<1>1. IInv /\ Sound(Net)
  BY DEF OInv, Owned
<1>2. PICK sig \in {"REP_OFFERS", "REJECT"} : Receives(n, sig)
  BY DEF RepOffersNo, RejectOffer
<1>3. PICK p : Hears(n, p, sig)
  BY <1>1, <1>2, Heard
<1>4. PICK net, r : /\ Answering(n, p, net) /\ Pops(net, r, n, p) /\ Becomes(r)
  <2>1. CASE RepOffersNo(n)
    BY <1>3, <2>1 DEF RepOffersNo, Hears, Answering, Pops, Sends, Ack
  <2>2. CASE RejectOffer(n)
    BY <1>3, <2>2 DEF RejectOffer, Hears, Answering, Pops
  <2> QED
    BY <2>1, <2>2
<1>5. inter[n][p] # <<>>
  BY <1>3 DEF RepOffersNo, RejectOffer, Hears, HeadType
<1> QED
  BY <1>1, <1>3, <1>4, <1>5, KeptEnding, KeptNow

LEMMA AckDataKept ==
  ASSUME OInv, NEW n \in Node, AckData(n)
  PROVE  NetKept
<1>1. Receives(n, "ACK") /\ IInv /\ Sound(Net)
  BY DEF AckData, OInv, Owned
<1>2. PICK p : Hears(n, p, "ACK")
  BY <1>1, Heard
<1>3. PICK offer, cores, x :
        /\ offer = (HeadType(n, p) = "REP_AGENT_REQ_CORES")
        /\ cores = IF offer THEN Head(inter[n][p]).cores ELSE {}
        /\ x = IF offer THEN [type |-> "AGENT_OFFER_SENT", cores |-> cores]
               ELSE [type |-> "SELFOPT_REQ_CORES"]
  OBVIOUS
<1>4. PICK taken, r : taken = Taken(n) /\ r = Rehead(taken, n, p, x)
  OBVIOUS
<1>5. Becomes(r) /\ PeerWaits(n, p)
  BY <1>2, <1>3, <1>4 DEF AckData, Hears
<1>6. x.type # "REMOVE_APP"
  BY <1>3
<1>7. Answering(n, p, taken)
  BY <1>4 DEF Answering
<1>8. Kept(Net, taken) /\ Sound(taken) /\ taken.inter[n][p] = inter[n][p]
  BY <1>1, <1>2, <1>7, KeptAnswering
<1>9. inter[n][p] # <<>> /\ p \in Node
  BY <1>2, <1>5 DEF PeerWaits, HeadType, Hears
<1>10. Kept(taken, r)
  BY <1>4, <1>6, <1>8, <1>9, KeptRehead DEF Reheads
<1> QED
  BY <1>5, <1>8, <1>10, KeptNext, KeptNow

LEMMA OfferCoresKept ==
  ASSUME OInv, NEW n \in Node, OfferCores(n)
  PROVE  NetKept
<1>1. Sound(Net) /\ IInv /\ waiting[n] # NoSignal /\ data[n] # <<>>
      /\ waiting' = [waiting EXCEPT ![n] = NoSignal]
      /\ data' = [data EXCEPT ![n] = Tail(@)]
  BY DEF OfferCores, OInv, Owned
<1>2. PICK p \in Node : p = waiting[n].from /\ p # n
  BY <1>1, DataCome
<1>3. PICK cores : Becomes(Post(Net, n, p, [type |-> "REP_AGENT_REQ_CORES",
                                            cores |-> cores]))
  BY <1>2 DEF OfferCores
<1>4. PICK x, net, r : /\ x = [type |-> "REP_AGENT_REQ_CORES", cores |-> cores]
                       /\ net = Net /\ r = Post(net, n, p, x)
  OBVIOUS
<1>5. Kept(net, r)
  BY <1>1, <1>4, KeptPost DEF Posts
<1> QED
  BY <1>3, <1>4, <1>5, KeptNow

LEMMA CollectOfferKept ==
  ASSUME OInv, NEW n \in Node, CollectOffer(n)
  PROVE  NetKept
<1>1. Sound(Net) /\ IInv /\ waiting[n] # NoSignal /\ data[n] # <<>>
      /\ waiting' = [waiting EXCEPT ![n] = NoSignal]
      /\ data' = [data EXCEPT ![n] = Tail(@)]
  BY DEF CollectOffer, OInv, Owned
<1>2. PICK p \in Node : p = waiting[n].from /\ p # n
  BY <1>1, DataCome
<1>3. PICK x, net, r : /\ x = [type |-> "REP_AGENT_OFFER_PENDING"]
                       /\ net = Net /\ r = Rehead(net, n, p, x)
  OBVIOUS
<1>4. HeadType(n, p) = "SELFOPT_REQ_CORES" /\ Becomes(r)
  BY <1>2, <1>3 DEF CollectOffer
<1>5. net.inter[n][p] # <<>> /\ x.type # "REMOVE_APP" /\ Sound(net)
  BY <1>1, <1>3, <1>4 DEF HeadType, Net
<1>6. Kept(net, r)
  BY <1>3, <1>5, KeptRehead DEF Reheads
<1> QED
  BY <1>3, <1>4, <1>6, KeptNow

LEMMA RepOffersYesKept ==
  ASSUME OInv, NEW n \in Node, RepOffersYes(n)
  PROVE  NetKept
<1>1. Receives(n, "REP_OFFERS") /\ IInv /\ Sound(Net)
  BY DEF RepOffersYes, OInv, Owned
<1>2. PICK p : Hears(n, p, "REP_OFFERS")
  BY <1>1, Heard
<1>3. /\ HeadType(n, p) = "AGENT_OFFER_SENT" /\ p \in Node /\ p = Peer(n)
      /\ inter[n][p] # <<>>
  BY <1>2 DEF RepOffersYes, Hears, HeadType
<1>4. PICK taken, acked, cores : /\ taken = Taken(n)
                                 /\ acked = Send(taken, n, p, Ack)
                                 /\ cores = Head(inter[n][p]).cores
  OBVIOUS
<1>5. Answering(n, p, acked)
  BY <1>4 DEF Answering, Ack, Sends
<1>6. Kept(Net, acked) /\ Sound(acked) /\ acked.inter[n][p] # <<>>
  BY <1>1, <1>2, <1>3, <1>5, KeptAnswering
<1>7. CASE n \in Controller
  <2>1. PICK r : Pops(acked, r, n, p) /\ Becomes(r)
    BY <1>3, <1>4, <1>7 DEF RepOffersYes, Pops
  <2> QED
    BY <1>1, <1>2, <1>3, <1>5, <2>1, KeptEnding, KeptNow
<1>8. CASE n \notin Controller
  <2>1. PICK x, c : /\ x = [type |-> "IDAG_REM_CORES_DDS", cores |-> cores,
                            old |-> n, new |-> p]
                    /\ c = idag_mask[n]
    OBVIOUS
  <2>2. PICK posted, r : /\ posted = Post(acked, n, c, x)
                         /\ r = Pop(posted, n, p)
    OBVIOUS
  <2>3. Becomes(r)
    BY <1>3, <1>4, <1>8, <2>1, <2>2 DEF RepOffersYes
  <2>4. c \in Node
    BY <1>8, <2>1, Controlled DEF Node
  <2>5. /\ x.type \in Waiting /\ x.type \notin Offers \cup {"REMOVE_APP"}
        /\ Speaks(x)
    BY <1>3, <2>1, ClusterAssumption DEF Waiting, Reports, Offers, Speaks
  <2>6. Posts(acked, posted, n, c, x) /\ Pops(posted, r, n, p)
    BY <2>2 DEF Posts, Pops
  <2>7. Kept(acked, posted)
    BY <1>6, <2>4, <2>5, <2>6, KeptPost
  <2>8. PICK P : P = {}
    OBVIOUS
  <2>9. Sound(posted) /\ Goes(acked, posted, n, P, 0, P)
    BY <1>6, <2>4, <2>5, <2>6, GoesPost
  <2>10. posted.inter[n][p] # <<>>
    BY <1>3, <1>6, <2>8, <2>9 DEF Goes, Carries
  <2>11. Kept(posted, r)
    BY <1>3, <2>6, <2>9, <2>10, KeptPop
  <2> QED
    BY <1>6, <2>3, <2>7, <2>11, KeptNext, KeptNow
<1> QED
  BY <1>7, <1>8

\* A controller acknowledges a report, and passes it on or not.
LEMMA KeptForward ==
  ASSUME NEW net, Sound(net), NEW c \in Controller, NEW x, Passes(x),
         NEW r, Forwards(net, r, c, x)
  PROVE  Kept(net, r)
<1> DEFINE others == {d \in Controller \ {c} : InCluster(d, x.cores) # {}}
<1>1. PICK items : items = [d \in others |->
                              [x EXCEPT !.cores = InCluster(d, x.cores)]]
  OBVIOUS
<1>2. PostsAll(net, r, c, items)
  BY <1>1 DEF Forwards, Forward, PostsAll
<1>3. ASSUME NEW d \in DOMAIN items PROVE items[d].type \in Waiting
  <2>1. d \in others
    BY <1>1
  <2>2. PICK cores : cores = InCluster(d, x.cores)
    OBVIOUS
  <2>3. PICK y : y = [x EXCEPT !.cores = cores]
    OBVIOUS
  <2>4. items[d] = y
    BY <1>1, <2>1, <2>2, <2>3
  <2>5. y.type = x.type /\ x.type \in Reports
    BY <2>3 DEF Passes
  <2> QED
    BY <2>4, <2>5 DEF Waiting
<1>4. c \in Node /\ c \notin Agent
  BY ClusterAssumption DEF Node
<1> QED
  BY <1>2, <1>3, <1>4, KeptSpread

LEMMA KeptReport ==
  ASSUME NEW net, Sound(net), NEW c \in Controller, NEW p \in Node, NEW acked,
         Sends(net, acked, c, p, Ack), NEW x, Passes(x),
         NEW r, r = acked \/ Forwards(acked, r, c, x)
  PROVE  Kept(net, r)
<1>1. PICK s, P : s = Ack /\ P = {}
  OBVIOUS
<1>2. /\ c \in Node /\ Says(s) /\ s.sig \notin {"FINISH", "APP_TERMINATED"}
      /\ Sends(net, acked, c, p, s)
  BY <1>1 DEF Node, Says, Ack
<1>3. Kept(net, acked)
  BY <1>2, KeptSend
<1>4. Sound(acked) /\ Goes(net, acked, c, P, 0, {})
  BY <1>2, GoesSend
<1>5. ASSUME Forwards(acked, r, c, x) PROVE Kept(net, r)
  BY <1>3, <1>4, <1>5, KeptForward, KeptNext
<1> QED
  BY <1>3, <1>5

LEMMA BookKept ==
  ASSUME OInv, NEW c \in Controller, NEW p, NEW sig, Hears(c, p, sig),
         sig \notin {"FINISH", "APP_TERMINATED"}, NEW acked,
         Sends(Taken(c), acked, c, p, Ack), NEW x, Passes(x),
         NEW r, r = acked \/ Forwards(acked, r, c, x), Becomes(r)
  PROVE  NetKept
<1>1. /\ c \in Node /\ Shaped /\ Sound(Net) /\ mail[c] # <<>> /\ p \in Node
      /\ Head(mail[c]).msg.sig \notin {"FINISH", "APP_TERMINATED"}
  BY DEF OInv, Owned, IInv, Node, Hears
<1>2. PICK net : net = Taken(c)
  OBVIOUS
<1>3. Kept(Net, net) /\ Sound(net)
  BY <1>1, <1>2, KeptTaken, TakenSound
<1>4. Kept(net, r)
  BY <1>1, <1>2, <1>3, KeptReport
<1> QED
  BY <1>3, <1>4, KeptNext, KeptNow

LEMMA AddCoresDDSKept ==
  ASSUME OInv, NEW c \in Controller, AddCoresDDS(c)
  PROVE  NetKept
<1>1. Receives(c, "ADD_CORES_DDS") /\ c \in Node
  BY DEF AddCoresDDS, Node
<1>2. PICK p : Hears(c, p, "ADD_CORES_DDS")
  BY <1>1, Heard DEF OInv
<1>3. PICK s : s = Head(mail[c]).msg
  OBVIOUS
<1>4. p # NotOffered
  BY <1>2, ClusterAssumption DEF Hears
<1>5. PICK x : x = [type |-> "IDAG_ADD_CORES_DDS", cores |-> s.cores, agent |-> p]
  OBVIOUS
<1>6. Passes(x)
  BY <1>4, <1>5 DEF Passes, Speaks, Reports, Offers
<1>7. PICK acked : Sends(Taken(c), acked, c, p, Ack)
  BY DEF Sends
<1>8. PICK r : (r = acked \/ Forwards(acked, r, c, x)) /\ Becomes(r)
  <2>1. Becomes(acked) \/ Becomes(Forward(acked, c, x))
    BY <1>2, <1>3, <1>5, <1>7 DEF AddCoresDDS, Hears, Sends
  <2> QED
    BY <2>1 DEF Forwards
<1> QED
  BY <1>2, <1>6, <1>7, <1>8, BookKept

LEMMA RemCoresDDSKept ==
  ASSUME OInv, NEW c \in Controller, RemCoresDDS(c)
  PROVE  NetKept
<1>1. Receives(c, "REM_CORES_DDS") /\ c \in Node
  BY DEF RemCoresDDS, Node
<1>2. PICK p : Hears(c, p, "REM_CORES_DDS")
  BY <1>1, Heard DEF OInv
<1>3. PICK s : s = Head(mail[c]).msg
  OBVIOUS
<1>4. s.new # NotOffered
  BY <1>1, <1>2, <1>3, SaidSound DEF Hears, Says
<1>5. PICK x : x = [type |-> "IDAG_REM_CORES_DDS", cores |-> s.cores,
                    old |-> p, new |-> s.new]
  OBVIOUS
<1>6. Passes(x)
  BY <1>4, <1>5 DEF Passes, Speaks, Reports, Offers
<1>7. PICK acked : Sends(Taken(c), acked, c, p, Ack)
  BY DEF Sends
<1>8. PICK r : (r = acked \/ Forwards(acked, r, c, x)) /\ Becomes(r)
  <2>1. Becomes(acked) \/ Becomes(Forward(acked, c, x))
    BY <1>2, <1>3, <1>5, <1>7 DEF RemCoresDDS, Hears, Sends
  <2> QED
    BY <2>1 DEF Forwards
<1> QED
  BY <1>2, <1>6, <1>7, <1>8, BookKept

\* SIG_FINISH apart, its handler tells no end.
LEMMA FinishLeaves ==
  ASSUME OInv, NEW c \in Controller, Finish(c), NEW p, Hears(c, p, "FINISH")
  PROVE  \E r : Becomes(r) /\ Kept(Taken(c), r)
<1>1. /\ c \in Node /\ Shaped /\ Sound(Net) /\ mail[c] # <<>> /\ p \in Node
      /\ p = Peer(c)
  BY DEF OInv, Owned, IInv, Node, Hears
<1>2. PICK cores, taken : cores = Head(mail[c]).msg.cores /\ taken = Taken(c)
  OBVIOUS
<1>3. Sound(taken)
  BY <1>1, <1>2, TakenSound
<1>4. PICK base, acked :
        /\ base = IF p \notin Controller
                  THEN [taken EXCEPT !.inter[c][p] = <<>>] ELSE taken
        /\ acked = Send(base, c, p, Ack)
  OBVIOUS
<1>5. Kept(taken, base) /\ Sound(base)
  <2>1. CASE base = taken
    BY <1>3, <2>1 DEF Kept, KeptList, KeptQueue
  <2>2. CASE base = [taken EXCEPT !.inter[c][p] = <<>>]
    <3>1. Keeps(taken, base, c, p, <<>>)
      BY <2>2 DEF Keeps
    <3>2. Kept(taken, base)
      BY <1>1, <1>3, <3>1, KeptClear
    <3>3. Sound(base)
      BY <1>1, <1>3, <3>1, GoesClear
    <3> QED
      BY <3>2, <3>3
  <2> QED
    BY <1>4, <2>1, <2>2
<1>6. PICK x : x = [type |-> "REMOVE_APP", cores |-> cores, agent |-> p]
  OBVIOUS
<1>7. PICK r : /\ r = IF p \notin Controller THEN Forward(acked, c, x) ELSE acked
               /\ Becomes(r)
  BY <1>1, <1>2, <1>4, <1>6 DEF Finish
<1>8. Passes(x)
  BY <1>6 DEF Passes, Reports, Speaks, Offers
<1>9. Sends(base, acked, c, p, Ack)
  BY <1>4 DEF Sends
<1>10. Kept(base, r)
  BY <1>1, <1>5, <1>7, <1>8, <1>9, KeptReport DEF Forwards
<1>11. Kept(taken, r)
  BY <1>5, <1>10, KeptNext
<1> QED
  BY <1>2, <1>7, <1>11

\* A manager that is not astray becomes a zombie without a word.
LEMMA AgentZombieKept ==
  ASSUME NEW a \in Agent, ~ Astray(a), AgentZombie(a)
  PROVE  NetKept
<1>1. Becomes(Net)
  BY DEF AgentZombie, TellZero, Astray
<1> QED
  BY <1>1, KeptSame DEF Becomes, Net
-----------------------------------------------------------------------------
(* The program of a manager.                                                 *)

\* What an action does to the program of manager a.
ProgramStays ==
  UNCHANGED <<state, pending_state, timer, asking, leaving>>

\* A manager that has gone astray never comes back, one that is at rest stays
\* so, and none changes its course but by its own steps.
Onward ==
  /\ Courses' /\ \A a \in Agent : Astray(a) => Astray(a)'
  /\ \A a \in Agent : state[a] = "IDLE_CORE" => state'[a] = "IDLE_CORE"

LEMMA ProgramGoesOn ==
  ASSUME Courses, NEW a \in Agent, Program(a)
  PROVE  Onward
<1> USE DEF Courses, Course, Astray, Onward, InitCoreStates
<1>1. CASE SelfOptStart(a)
  BY <1>1 DEF SelfOptStart
<1>2. CASE DiscoveryDone(a)
  BY <1>2 DEF DiscoveryDone
<1>3. CASE Timer(a)
  BY <1>3 DEF Timer, TimerState, TimerPending
<1>4. CASE SelfChkOffers(a)
  BY <1>4 DEF SelfChkOffers, Free
<1>5. CASE LeaveAtTop(a)
  BY <1>5 DEF LeaveAtTop
<1>6. CASE Leave(a)
  BY <1>6 DEF Leave
<1>7. CASE AgentZombie(a)
  BY <1>7 DEF AgentZombie, Free
<1>8. CASE AgentEnds(a)
  BY <1>8 DEF AgentEnds, Free
<1>9. CASE InitManChkOffers(a)
  BY <1>9 DEF InitManChkOffers, Free
<1> QED
  BY <1>1, <1>2, <1>3, <1>4, <1>5, <1>6, <1>7, <1>8, <1>9 DEF Program

LEMMA ProgramUnseen ==
  ASSUME Courses, ProgramStays
  PROVE  Onward
BY DEF Courses, Course, Astray, Onward, ProgramStays

\* An answer may wake a zombie, and nothing else.
Wakes(n, s) == s # state[n] => state[n] = "AGENT_ZOMBIE" /\ s = "AGENT_ENDING"
WakesLater(n, s) ==
  s # pending_state[n] => pending_state[n] = "AGENT_ZOMBIE" /\ s = "AGENT_ENDING"
Awakes(n) ==
  /\ n \in Agent
  /\ \E s : state' = [state EXCEPT ![n] = s] /\ Wakes(n, s)
  /\ \/ pending_state' = pending_state
     \/ \E s : pending_state' = [pending_state EXCEPT ![n] = s] /\ WakesLater(n, s)

LEMMA Awakening ==
  ASSUME NEW n \in Node, RepOffersNo(n) \/ RepOffersYes(n) \/ RejectOffer(n)
  PROVE  /\ UNCHANGED <<app_state, timer, asking, leaving, rounds>>
         /\ UNCHANGED <<state, pending_state>> \/ Awakes(n)
<1>1. UNCHANGED <<app_state, timer, asking, leaving, rounds>>
  BY DEF RepOffersNo, RepOffersYes, RejectOffer
<1>2. CASE n \in Controller
  BY <1>2 DEF RepOffersNo, RepOffersYes, RejectOffer
<1>3. CASE n \notin Controller
  <2>1. n \in Agent
    BY <1>3 DEF Node
  <2>2. \E s : state' = [state EXCEPT ![n] = s] /\ Wakes(n, s)
    <3>1. \E kept : state' = [state EXCEPT ![n] = AfterAnswer(n, kept)]
      <4>1. CASE RepOffersNo(n)
        BY <1>3, <4>1 DEF RepOffersNo
      <4>2. CASE RepOffersYes(n)
        BY <1>3, <4>2 DEF RepOffersYes
      <4>3. CASE RejectOffer(n)
        BY <1>3, <4>3 DEF RejectOffer
      <4> QED
        BY <4>1, <4>2, <4>3
    <3>2. PICK kept, s : /\ state' = [state EXCEPT ![n] = s]
                         /\ s = AfterAnswer(n, kept)
      BY <3>1
    <3>3. Wakes(n, s)
      BY <3>2 DEF AfterAnswer, Wakes
    <3> QED
      BY <3>2, <3>3
  <2>3. \/ pending_state' = pending_state
        \/ \E s : pending_state' = [pending_state EXCEPT ![n] = s] /\ WakesLater(n, s)
    <3>1. CASE ~ RejectOffer(n)
      BY <3>1 DEF RepOffersNo, RepOffersYes
    <3>2. CASE RejectOffer(n)
      <4>1. PICK woken : pending_state' = [pending_state EXCEPT ![n] =
                           IF woken /\ @ = "AGENT_ZOMBIE" THEN "AGENT_ENDING" ELSE @]
        <5>1. PICK kept : pending_state' = [pending_state EXCEPT ![n] =
                IF /\ app_state[n] = "APP_TERMINATED"
                   /\ \A i \in 2..Len(kept) : kept[i].offered_to = NotOffered
                   /\ state[n] # "AGENT_ZOMBIE"
                   /\ @ = "AGENT_ZOMBIE"
                THEN "AGENT_ENDING" ELSE @]
          BY <1>3, <3>2 DEF RejectOffer
        <5>2. PICK woken : woken = (/\ app_state[n] = "APP_TERMINATED"
                   /\ \A i \in 2..Len(kept) : kept[i].offered_to = NotOffered
                   /\ state[n] # "AGENT_ZOMBIE")
          OBVIOUS
        <5> QED
          BY <5>1, <5>2
      <4>2. PICK s : s = IF woken /\ pending_state[n] = "AGENT_ZOMBIE"
                         THEN "AGENT_ENDING" ELSE pending_state[n]
        OBVIOUS
      <4>3. pending_state' = [pending_state EXCEPT ![n] = s] /\ WakesLater(n, s)
        BY <4>1, <4>2 DEF WakesLater
      <4> QED
        BY <4>3
    <3> QED
      BY <3>1, <3>2
  <2> QED
    BY <1>1, <2>1, <2>2, <2>3 DEF Awakes
<1> QED
  BY <1>1, <1>2, <1>3

LEMMA ZombieGoesOn ==
  ASSUME Courses, NEW n \in Node, RepOffersNo(n) \/ RepOffersYes(n) \/ RejectOffer(n)
  PROVE  Onward
<1>1. UNCHANGED <<timer, asking, leaving>>
  BY Awakening
<1>2. CASE UNCHANGED <<state, pending_state>>
  BY <1>1, <1>2, ProgramUnseen DEF ProgramStays
<1>3. CASE Awakes(n)
  BY <1>1, <1>3
     DEF Courses, Course, Astray, Onward, InitCoreStates, Awakes, Wakes, WakesLater
<1> QED
  BY <1>2, <1>3, Awakening
-----------------------------------------------------------------------------
(* The count.                                                                *)

\* For core 0 nothing has changed about b.
Alike(b) ==
  /\ Told(b)' /\ (Due(b)' <=> Due(b))
  /\ app_state'[b] = "NO_APP" <=> app_state[b] = "NO_APP"

\* What is on its way from b to core 0 goes on its way.
GoesOn(b) ==
  /\ KeptList(mail[Zero], mail'[Zero], b)
  /\ KeptQueue(inter[b][Zero], mail[Zero], inter'[b][Zero], mail'[Zero], b)

LEMMA AlikeIs ==
  ASSUME NEW b \in Agent, Told(b), GoesOn(b),
         app_state'[b] = "NO_APP" <=> app_state[b] = "NO_APP",
         state[b] = "IDLE_CORE" => state'[b] = "IDLE_CORE"
  PROVE  Alike(b)
<1> USE DEF GoesOn, KeptList, KeptQueue
<1>1. Due(b)' <=> Due(b)
  BY DEF Due
<1>2. EndsToHome(b)' /\ TellsOnce(b)'
  BY DEF Told, EndsToHome, TellsOnce
<1>3. Unended(b) => Unended(b)'
  BY DEF Unended
<1> QED
  BY <1>1, <1>2, <1>3 DEF Told, Alike

LEMMA KeptIs ==
  ASSUME NetKept
  PROVE  /\ \A n \in Node : KeptList(mail[Zero], mail'[Zero], n)
         /\ \A b \in Agent : GoesOn(b)
BY DEF NetKept, Kept, Net, GoesOn, Node

LEMMA CountingStays ==
  ASSUME Counting, NetKept, num_apps_terminated' = num_apps_terminated,
         \A b \in Agent : app_state'[b] = "NO_APP" <=> app_state[b] = "NO_APP",
         \A b \in Agent : state[b] = "IDLE_CORE" => state'[b] = "IDLE_CORE"
  PROVE  Counting'
<1>1. \A b \in Agent : Alike(b)
  BY KeptIs, AlikeIs DEF Counting
<1>2. Heeded' = Heeded
  BY <1>1 DEF Alike, Heeded, Ended
<1>3. ManagersTell'
  <2>1. \A c \in Controller : KeptList(mail[Zero], mail'[Zero], c)
    BY KeptIs DEF Node
  <2> QED
    BY <2>1 DEF Counting, ManagersTell, KeptList
<1>4. \A b \in Agent : Told(b)'
  BY <1>1 DEF Alike
<1>5. Counted'
  BY <1>2 DEF Counting, Counted
<1> QED
  BY <1>3, <1>4, <1>5 DEF Counting

LEMMA HeededFinite == IsFiniteSet(Heeded) /\ IsFiniteSet(Ended)
<1>1. IsFiniteSet(Agent)
  BY ClusterAssumption, FS_Subset DEF Core, Node
<1>2. Heeded \in SUBSET Agent /\ Ended \in SUBSET Agent
  BY DEF Heeded, Ended
<1> QED
  BY <1>1, <1>2, FS_Subset

\* The end of a's application is told, or counted.
LEMMA CountingButOne ==
  ASSUME Counting, NEW a \in Agent, \A b \in Agent : b # a => Alike(b),
         Told(a)', ManagersTell', a \notin Heeded,
         \/ num_apps_terminated' = num_apps_terminated /\ a \notin Heeded'
         \/ num_apps_terminated' = num_apps_terminated + 1 /\ a \in Heeded'
  PROVE  Counting'
<1>1. \A b \in Agent : b # a => (b \in Heeded' <=> b \in Heeded)
  BY DEF Alike, Heeded, Ended
<1>2. Heeded \subseteq Agent /\ Heeded' \subseteq Agent
  BY DEF Heeded, Ended
<1>3. Counted'
  <2>1. CASE num_apps_terminated' = num_apps_terminated /\ a \notin Heeded'
    <3>1. Heeded' = Heeded
      BY <1>1, <1>2, <2>1
    <3> QED
      BY <2>1, <3>1 DEF Counting, Counted
  <2>2. CASE num_apps_terminated' = num_apps_terminated + 1 /\ a \in Heeded'
    <3>1. Heeded' = Heeded \cup {a}
      BY <1>1, <1>2, <2>2
    <3>2. Cardinality(Heeded \cup {a}) = Cardinality(Heeded) + 1
      BY HeededFinite, FS_AddElement
    <3> QED
      BY <2>2, <3>1, <3>2 DEF Counting, Counted
  <2> QED
    BY <2>1, <2>2
<1>4. \A b \in Agent : Told(b)'
  BY DEF Alike
<1> QED
  BY <1>3, <1>4 DEF Counting

\* Core 0 hears a at most, and the others go on.
LEMMA OthersGoOn ==
  ASSUME IsSeq(mail[Zero]), NEW a \in Agent,
         \A b \in Agent : b # a => inter'[b][Zero] = inter[b][Zero],
         \/ mail'[Zero] = mail[Zero]
         \/ \E s : mail'[Zero] = Append(mail[Zero], s) /\ s.from = a
  PROVE  /\ \A b \in Agent : b # a => GoesOn(b)
         /\ \A c \in Controller : KeptList(mail[Zero], mail'[Zero], c)
<1>1. PICK l, t : l = mail[Zero] /\ t = mail'[Zero]
  OBVIOUS
<1>2. ASSUME NEW n, n # a
      PROVE  /\ KeptList(l, t, n)
             /\ \A q : KeptQueue(q, l, q, t, n)
  BY <1>1, <1>2, KeptListed, KeptBeside
<1>3. ASSUME NEW b \in Agent, b # a PROVE GoesOn(b)
  BY <1>1, <1>2, <1>3 DEF GoesOn
<1>4. \A c \in Controller : c # a
  BY Controlled
<1> QED
  BY <1>1, <1>2, <1>3, <1>4

LEMMA ManagersGoOn ==
  ASSUME ManagersTell,
         \A c \in Controller : KeptList(mail[Zero], mail'[Zero], c)
  PROVE  ManagersTell'
BY DEF ManagersTell, KeptList

\* The end of an application is told once, to its controller or to core 0.
LEMMA AgentEndsCounts ==
  ASSUME WInv, Courses, Counting, NEW a \in Agent, ~ Astray(a), AgentEnds(a)
  PROVE  Counting'
<1>1. /\ IInv /\ Shaped /\ Sound(Net) /\ DOMAIN app_state = Agent
      /\ DOMAIN state = Agent /\ Told(a) /\ ManagersTell
      /\ \A b \in Agent : Told(b)
  BY DEF WInv, OInv, Owned, IInv, Working, Courses, Counting
<1>2. /\ a \in Node /\ Zero \in Node /\ idag_mask[a] \in Node
  BY Controlled
<1>3. /\ state[a] = "AGENT_ENDING" /\ num_apps_terminated' = num_apps_terminated
      /\ app_state' = [app_state EXCEPT ![a] = "NO_APP"]
      /\ state' = [state EXCEPT ![a] = "IDLE_CORE"]
  BY DEF AgentEnds, Astray
<1>4. /\ app_state'[a] = "NO_APP" /\ state'[a] = "IDLE_CORE"
      /\ \A b \in Agent : b # a => app_state'[b] = app_state[b] /\ state'[b] = state[b]
  BY <1>1, <1>3
<1>5. app_state[a] # "NO_APP" /\ Unended(a)
  BY <1>1, <1>3 DEF Told
<1>6. a \notin Heeded /\ a \in Ended'
  BY <1>4, <1>5 DEF Heeded, Ended
<1>7. PICK c, x, net : /\ c = idag_mask[a] /\ net = Net
                       /\ x = [type |-> "REMOVE_APP", cores |-> Cores(a), agent |-> a]
  OBVIOUS
<1>8. PICK posted, r :
        /\ Posts(net, posted, a, c, x) /\ Becomes(r)
        /\ IF c # Zero THEN Sends(posted, r, a, Zero, [sig |-> "APP_TERMINATED"])
           ELSE r = posted
  <2>1. Becomes(TellZero(Post(Net, a, c, x), a, "IDLE_CORE"))
    BY <1>7 DEF AgentEnds, Astray
  <2> QED
    BY <1>7, <2>1 DEF Posts, Sends, TellZero
<1>9. PICK q, l : q = inter[a][Zero] /\ l = mail[Zero] /\ IsSeq(q) /\ IsSeq(l)
  BY <1>1, <1>2 DEF Sound, SoundQueue, SoundList, Net
<1>10. IsNet(net) /\ net.inter = inter /\ net.mail = mail
  BY <1>1, <1>7 DEF Sound, Net
<1>11. /\ IsNet(posted) /\ OnlyWith(net, posted, a, c)
       /\ posted.inter[a][c] = Append(inter[a][c], x)
       /\ posted.mail[c] =
            IF inter[a][c] = <<>>
            THEN Append(mail[c], [from |-> a, msg |-> SignalOf(x)]) ELSE mail[c]
  <2>1. c \in Node /\ a \in Node /\ IsNet(net) /\ Posts(net, posted, a, c, x)
    BY <1>2, <1>7, <1>8, <1>10
  <2>2. /\ IsNet(posted) /\ OnlyWith(net, posted, a, c)
        /\ posted.inter[a][c] = Append(net.inter[a][c], x)
        /\ posted.mail[c] =
             IF net.inter[a][c] = <<>>
             THEN Append(net.mail[c], [from |-> a, msg |-> SignalOf(x)])
             ELSE net.mail[c]
    BY <2>1, PostIs
  <2> QED
    BY <1>10, <2>2
<1>12. /\ Told(a)' /\ Due(a)'
       /\ \A b \in Agent : b # a => inter'[b][Zero] = inter[b][Zero]
       /\ \/ mail'[Zero] = mail[Zero]
          \/ \E s : mail'[Zero] = Append(mail[Zero], s) /\ s.from = a
  <2>1. CASE c = Zero
    <3>1. PICK s : s = [from |-> a, msg |-> SignalOf(x)]
      OBVIOUS
    <3>2. s.from = a /\ s.msg.sig = "FINISH" /\ x.type = "REMOVE_APP"
      BY <1>7, <3>1 DEF SignalOf
    <3>3. /\ inter'[a][Zero] = Append(q, x)
          /\ mail'[Zero] = IF q = <<>> THEN Append(l, s) ELSE l
          /\ \A b \in Agent : b # a => inter'[b][Zero] = inter[b][Zero]
      BY <1>8, <1>9, <1>10, <1>11, <2>1, <3>1 DEF Becomes, OnlyWith, Node
    <3>4. ~ HasEnd(q) /\ ~ Came(l, a, "APP_TERMINATED")
      BY <1>5, <1>9 DEF Unended
    <3>5. EndsOnce(inter'[a][Zero]) /\ (q # <<>> => Behind(inter'[a][Zero]))
      BY <1>9, <3>2, <3>3, <3>4, QueueAppended
    <3>6. /\ ~ Came(mail'[Zero], a, "APP_TERMINATED")
          /\ q = <<>> => Came(mail'[Zero], a, "FINISH")
      <4>1. PICK t : t = Append(l, s) /\ IsSeq(l)
        BY <1>9
      <4>2. ~ Came(t, a, "APP_TERMINATED")
        <5>1. PICK sig : sig = "APP_TERMINATED" /\ s.msg.sig # sig
          BY <3>2
        <5>2. Came(t, a, sig) <=> Came(l, a, sig)
          BY <4>1, <5>1, ListAppended
        <5> QED
          BY <3>4, <5>1, <5>2
      <4>3. Came(t, a, "FINISH")
        BY <3>2, <4>1, ListAppended
      <4> QED
        BY <1>9, <3>3, <3>4, <4>1, <4>2, <4>3
    <3>7. CameOnce(mail'[Zero], a, "APP_TERMINATED")
      BY <3>6 DEF Came, CameOnce
    <3>8. idag_mask[a] = Zero
      BY <1>7, <2>1
    <3>9. EndsToHome(a)' /\ TellsOnce(a)'
      BY <3>5, <3>6, <3>7, <3>8 DEF EndsToHome, TellsOnce
    <3>10. Told(a)'
      BY <1>4, <3>9 DEF Told
    <3>11. Due(a)'
      BY <3>5, <3>6, <3>8 DEF Due
    <3> QED
      BY <1>9, <3>2, <3>3, <3>10, <3>11
  <2>2. CASE c # Zero
    <3>1. PICK k, s : k = [sig |-> "APP_TERMINATED"] /\ s = [from |-> a, msg |-> k]
      OBVIOUS
    <3>2. s.from = a /\ s.msg.sig = "APP_TERMINATED"
      BY <3>1
    <3>3. Sends(posted, r, a, Zero, k)
      BY <1>8, <2>2, <3>1
    <3>4. /\ OnlyWith(posted, r, a, Zero) /\ r.inter = posted.inter
          /\ r.mail[Zero] = Append(posted.mail[Zero], s)
      BY <1>2, <1>11, <3>1, <3>3, SendIs
    <3>5. /\ inter'[a][Zero] = q /\ mail'[Zero] = Append(l, s)
          /\ \A b \in Agent : b # a => inter'[b][Zero] = inter[b][Zero]
      BY <1>2, <1>8, <1>9, <1>10, <1>11, <2>2, <3>4 DEF Becomes, OnlyWith, Node
    <3>6. ~ HasEnd(q) /\ ~ Came(l, a, "APP_TERMINATED")
      BY <1>5, <1>9 DEF Unended
    <3>7. /\ CameOnce(mail'[Zero], a, "APP_TERMINATED")
          /\ Came(mail'[Zero], a, "APP_TERMINATED")
      BY <1>9, <3>2, <3>5, <3>6, ListAppended
    <3>8. idag_mask[a] # Zero
      BY <1>7, <2>2
    <3>9. EndsOnce(q)
      BY <3>6 DEF HasEnd, EndsOnce
    <3>10. EndsToHome(a)' /\ TellsOnce(a)'
      BY <3>5, <3>6, <3>7, <3>8, <3>9 DEF EndsToHome, TellsOnce
    <3>11. Told(a)'
      BY <1>4, <3>10 DEF Told
    <3>12. Due(a)'
      BY <3>7, <3>8 DEF Due
    <3> QED
      BY <1>9, <3>2, <3>5, <3>11, <3>12
  <2> QED
    BY <2>1, <2>2
<1>13. /\ \A b \in Agent : b # a => GoesOn(b)
       /\ \A d \in Controller : KeptList(mail[Zero], mail'[Zero], d)
  BY <1>9, <1>12, OthersGoOn
<1>14. \A b \in Agent : b # a => Alike(b)
  BY <1>1, <1>4, <1>13, AlikeIs
<1>15. ManagersTell'
  BY <1>1, <1>13, ManagersGoOn
<1>16. a \notin Heeded'
  BY <1>12 DEF Heeded
<1> QED
  BY <1>3, <1>6, <1>12, <1>14, <1>15, <1>16, CountingButOne

\* A list loses its head, which is of n and of this kind.
LEMMA OneHeard ==
  ASSUME NEW l, IsSeq(l), l # <<>>, NEW t, t = Tail(l), NEW n, NEW kind,
         Head(l).from = n, Head(l).msg.sig = kind
  PROVE  /\ Came(l, n, kind)
         /\ \A b : b # n => KeptList(l, t, b) /\ \A q : KeptQueue(q, l, q, t, b)
         /\ kind # "APP_TERMINATED" => KeptList(l, t, n)
         /\ kind # "FINISH" => \A q : KeptQueue(q, l, q, t, n)
<1>1. Came(l, n, kind)
  BY ListTailed
<1>2. ASSUME NEW b, NEW sig, b # n \/ sig # kind
      PROVE  /\ Came(t, b, sig) <=> Came(l, b, sig)
             /\ CameOnce(l, b, sig) => CameOnce(t, b, sig)
  BY <1>2, ListTailed
<1>3. \A b : b # n => KeptList(l, t, b) /\ \A q : KeptQueue(q, l, q, t, b)
  BY <1>2 DEF KeptList, KeptQueue
<1>4. kind # "APP_TERMINATED" => KeptList(l, t, n)
  BY <1>2 DEF KeptList
<1>5. kind # "FINISH" => \A q : KeptQueue(q, l, q, t, n)
  BY <1>2 DEF KeptQueue
<1> QED
  BY <1>1, <1>3, <1>4, <1>5

\* Core 0 counts the end that it handles, and no other.
LEMMA FinishCounts ==
  ASSUME WInv, Counting, Finish(Zero), Peer(Zero) \in Agent
  PROVE  Counting'
<1>1. /\ IInv /\ OInv /\ Shaped /\ Sound(Net) /\ Zero \in Controller /\ Zero \in Node
      /\ Receives(Zero, "FINISH") /\ ManagersTell /\ \A b \in Agent : Told(b)
      /\ state' = state /\ app_state' = app_state
  BY ClusterAssumption
     DEF WInv, OInv, Owned, IInv, Counting, Finish, agentVars, Node
<1>2. PICK p : /\ Hears(Zero, p, "FINISH")
               /\ \E a, b, d :
                    /\ Line(Tail(mail[Zero]), p, d, "none")
                    /\ Talk(Stage(Zero, p), Stage(p, Zero), a, b,
                            Kind(Head(mail[Zero]).msg), d, "no", Blocked(p, Zero))
  BY <1>1, Heard
<1>3. PICK l, t : /\ l = mail[Zero] /\ t = Tail(l) /\ IsSeq(l) /\ l # <<>>
                  /\ Head(l).from = p /\ Head(l).msg.sig = "FINISH"
  BY <1>1, <1>2 DEF Sound, SoundList, Net, Hears, Peer
<1>4. p \in Agent /\ p \in Node /\ p \notin Controller /\ p = Peer(Zero)
  BY <1>2, Controlled DEF Hears
<1>5. PICK r : Becomes(r) /\ Kept(Taken(Zero), r)
  BY <1>1, <1>2, FinishLeaves
<1>6. Taken(Zero).inter = inter /\ Taken(Zero).mail[Zero] = t
  BY <1>1, <1>3, TakenIs
<1>7. ASSUME NEW n \in Node
      PROVE  /\ KeptList(t, mail'[Zero], n)
             /\ n \in Agent => KeptQueue(inter[n][Zero], t, inter'[n][Zero],
                                         mail'[Zero], n)
  BY <1>5, <1>6 DEF Becomes, Kept
<1>8. /\ Came(l, p, "FINISH") /\ KeptList(l, t, p)
      /\ \A b : b # p => KeptList(l, t, b) /\ \A q : KeptQueue(q, l, q, t, b)
  BY <1>3, OneHeard
<1>9. \A n \in Node : KeptList(mail[Zero], mail'[Zero], n)
  BY <1>3, <1>7, <1>8 DEF KeptList
<1>10. \A b \in Agent : b # p => Alike(b)
  <2>1. ASSUME NEW b \in Agent, b # p PROVE GoesOn(b)
    BY <1>3, <1>7, <1>8, <1>9, <2>1 DEF KeptQueue, GoesOn, Node
  <2> QED
    BY <1>1, <2>1, AlikeIs
<1>11. PICK q : q = inter[p][Zero] /\ IsSeq(q)
  BY <1>1, <1>4 DEF Sound, SoundQueue, Net
<1>12. /\ q # <<>> /\ Head(q).type = "REMOVE_APP" /\ ~ Came(t, p, "FINISH")
  <2>1. PICK a, b, d :
          /\ Line(t, p, d, "none")
          /\ Talk(Stage(Zero, p), Stage(p, Zero), a, b, "FINISH", d, "no",
                  Blocked(p, Zero))
    BY <1>2, <1>3 DEF Kind
  <2>2. Stage(p, Zero) = "REMOVE_APP" /\ d # "FINISH"
    BY <2>1, OneEnd
  <2>3. HeadType(p, Zero) = "REMOVE_APP"
    BY <1>1, <1>4, <2>2, StageIs
  <2>4. ASSUME NEW i \in DOMAIN t, t[i].from = p, t[i].msg.sig = "FINISH"
        PROVE  FALSE
    <3>1. i \in From(t, p) /\ Kind(t[i].msg) = "FINISH"
      BY <2>4 DEF From, Kind
    <3> QED
      BY <2>1, <2>2, <3>1 DEF Line
  <2> QED
    BY <1>11, <2>3, <2>4 DEF HeadType, Came
<1>13. HasEnd(q) /\ (EndsOnce(q) => ~ Behind(q))
  <2>1. PICK rest : rest = Tail(q)
    OBVIOUS
  <2>2. EndsOnce(q) => ~ Behind(q)
    BY <1>11, <1>12, <2>1, QueueTailed
  <2>3. Head(q) = q[1] /\ 1 \in DOMAIN q
    BY <1>11, <1>12, Shortening
  <2> QED
    BY <1>12, <2>2, <2>3 DEF HasEnd
<1>14. /\ app_state[p] = "NO_APP" /\ idag_mask[p] = Zero /\ EndsOnce(q)
       /\ state[p] = "IDLE_CORE"
  BY <1>1, <1>4, <1>11, <1>13 DEF Told, Unended, EndsToHome
<1>15. p \notin Heeded
  BY <1>3, <1>8, <1>14 DEF Heeded, Due
<1>16. Told(p)'
  <2>1. EndsToHome(p)'
    BY <1>1, <1>4, <1>7, <1>11, <1>14 DEF Told, EndsToHome, KeptQueue
  <2>2. TellsOnce(p)'
    BY <1>1, <1>4, <1>9 DEF Told, TellsOnce, KeptList
  <2> QED
    BY <1>1, <1>14, <2>1, <2>2 DEF Told
<1>17. p \in Heeded'
  <2>1. ~ (Came(mail'[Zero], p, "FINISH") \/ Behind(inter'[p][Zero]))
    BY <1>4, <1>7, <1>11, <1>12, <1>13, <1>14 DEF KeptQueue
  <2>2. ~ Due(p)'
    BY <1>14, <2>1 DEF Due
  <2> QED
    BY <1>1, <1>4, <1>14, <2>2 DEF Heeded, Ended
<1>18. num_apps_terminated' = num_apps_terminated + 1
  BY <1>4 DEF Finish
<1>19. ManagersTell'
  BY <1>1, <1>9, ManagersGoOn DEF Node
<1> QED
  BY <1>4, <1>10, <1>15, <1>16, <1>17, <1>18, <1>19, CountingButOne

LEMMA AppTerminatedCounts ==
  ASSUME WInv, Counting, NEW c \in Controller, AppTerminated(c)
  PROVE  Counting'
<1>1. /\ IInv /\ Shaped /\ Sound(Net) /\ Zero \in Node /\ Becomes(Taken(Zero))
      /\ Receives(Zero, "APP_TERMINATED") /\ ManagersTell
      /\ \A b \in Agent : Told(b)
      /\ state' = state /\ app_state' = app_state
      /\ num_apps_terminated' = num_apps_terminated + 1
  BY ClusterAssumption
     DEF WInv, OInv, Owned, IInv, Counting, AppTerminated, agentVars, Node
<1>2. PICK l, t, p : /\ l = mail[Zero] /\ t = Tail(l) /\ IsSeq(l) /\ l # <<>>
                     /\ Head(l).from = p /\ Head(l).msg.sig = "APP_TERMINATED"
  BY <1>1 DEF Sound, SoundList, Net, Receives
<1>3. inter' = inter /\ mail'[Zero] = t
  BY <1>1, <1>2, TakenIs DEF Becomes
<1>4. /\ Came(l, p, "APP_TERMINATED")
      /\ \A b : b # p => KeptList(l, t, b) /\ \A q : KeptQueue(q, l, q, t, b)
  BY <1>2, OneHeard
<1>5. p \in Agent
  <2>1. p \in Node
    <3>1. Head(l) = l[1] /\ 1 \in DOMAIN l
      BY <1>2, Shortening
    <3> QED
      BY <1>1, <1>2, <3>1 DEF IInv, Lists, Listed
  <2> QED
    BY <1>1, <1>2, <1>4, <2>1 DEF ManagersTell, Node
<1>6. /\ app_state[p] = "NO_APP" /\ idag_mask[p] # Zero /\ state[p] = "IDLE_CORE"
      /\ CameOnce(l, p, "APP_TERMINATED")
  BY <1>1, <1>2, <1>4, <1>5 DEF Told, Unended, TellsOnce
<1>7. ~ Came(t, p, "APP_TERMINATED") /\ CameOnce(t, p, "APP_TERMINATED")
  BY <1>2, <1>6, ListTailed
<1>8. \A b \in Agent : b # p => Alike(b)
  <2>1. ASSUME NEW b \in Agent, b # p PROVE GoesOn(b)
    BY <1>2, <1>3, <1>4, <2>1 DEF GoesOn
  <2> QED
    BY <1>1, <2>1, AlikeIs
<1>9. Told(p)'
  <2>1. EndsToHome(p)'
    BY <1>1, <1>3, <1>5 DEF Told, EndsToHome
  <2>2. TellsOnce(p)'
    BY <1>3, <1>7 DEF TellsOnce
  <2> QED
    BY <1>1, <1>6, <2>1, <2>2 DEF Told
<1>10. p \notin Heeded /\ p \in Heeded'
  BY <1>1, <1>2, <1>3, <1>4, <1>5, <1>6, <1>7 DEF Heeded, Ended, Due
<1>11. ManagersTell'
  <2>1. \A d \in Controller : KeptList(l, t, d)
    BY <1>4, <1>5, Controlled
  <2> QED
    BY <1>1, <1>2, <1>3, <2>1, ManagersGoOn
<1> QED
  BY <1>1, <1>5, <1>8, <1>9, <1>10, <1>11, CountingButOne
-----------------------------------------------------------------------------
(* The invariant.                                                            *)

\* A step that is of no account to core 0.
Steady ==
  /\ NetKept /\ num_apps_terminated' = num_apps_terminated
  /\ \A b \in Agent : app_state'[b] = "NO_APP" <=> app_state[b] = "NO_APP"
CountGoesOn == OnlyInitialCoresNegotiate => (Counting => Counting')

LEMMA SteadyCounts ==
  ASSUME Onward, Steady
  PROVE  CountGoesOn
BY CountingStays DEF Onward, Steady, CountGoesOn

LEMMA InitCounts == Init => CInv
<1> SUFFICES ASSUME Init PROVE CInv
  OBVIOUS
<1>1. WInv
  BY InitHolds, InitOwned, InitWorks DEF WInv, OInv
<1>2. Courses
  BY DEF Init, Courses, Course
<1>3. PICK none : none = <<>> /\ DOMAIN none = {}
  OBVIOUS
<1>4. /\ mail[Zero] = none /\ \A a \in Agent : inter[a][Zero] = none
      /\ \A a \in Agent : app_state[a] # "NO_APP"
      /\ num_apps_terminated = 0
  <2>1. Zero \in Node /\ \A a \in Agent : a \in Node
    BY ClusterAssumption DEF Node
  <2> QED
    BY <1>3, <2>1 DEF Init
<1>5. \A n, sig : ~ Came(mail[Zero], n, sig) /\ CameOnce(mail[Zero], n, sig)
  BY <1>3, <1>4 DEF Came, CameOnce
<1>6. \A a \in Agent : ~ HasEnd(inter[a][Zero]) /\ EndsOnce(inter[a][Zero])
  BY <1>3, <1>4 DEF HasEnd, EndsOnce
<1>7. \A a \in Agent : Told(a)
  BY <1>4, <1>5, <1>6 DEF Told, EndsToHome, TellsOnce, Unended
<1>8. Heeded = {}
  BY <1>4 DEF Heeded, Ended
<1>9. Counted
  BY <1>4, <1>8, FS_EmptySet DEF Counted
<1>10. ManagersTell
  BY <1>5 DEF ManagersTell
<1> QED
  BY <1>1, <1>2, <1>7, <1>9, <1>10 DEF CInv, Counting

\* What a manager does by itself.
LEMMA ProgramCounts ==
  ASSUME WInv, Courses, NEW a \in Agent, Program(a)
  PROVE  Onward /\ CountGoesOn
<1>1. OInv /\ DOMAIN app_state = Agent
  BY DEF WInv, Working
<1>2. Onward
  BY ProgramGoesOn
<1>3. CASE \/ SelfOptStart(a) \/ Timer(a) \/ LeaveAtTop(a) \/ Leave(a)
           \/ InitManChkOffers(a)
  <2>1. UNCHANGED <<inter, mail, app_state, num_apps_terminated>>
    BY <1>3 DEF SelfOptStart, Timer, LeaveAtTop, Leave, InitManChkOffers, netVars
  <2>2. Steady
    BY <2>1, KeptSame DEF Steady
  <2> QED
    BY <1>2, <2>2, SteadyCounts
<1>4. CASE DiscoveryDone(a) \/ SelfChkOffers(a)
  <2>1. UNCHANGED <<app_state, num_apps_terminated>>
    BY <1>4 DEF DiscoveryDone, SelfChkOffers
  <2>2. NetKept
    BY <1>1, <1>4, DiscoveryDoneKept, SelfChkOffersKept
  <2>3. Steady
    BY <2>1, <2>2 DEF Steady
  <2> QED
    BY <1>2, <2>3, SteadyCounts
<1>5. CASE AgentZombie(a)
  <2>1. UNCHANGED <<app_state, num_apps_terminated>>
    BY <1>5 DEF AgentZombie
  <2>2. ~ Astray(a) => NetKept
    BY <1>5, AgentZombieKept
  <2>3. ~ Astray(a) => CountGoesOn
    BY <1>2, <2>1, <2>2, SteadyCounts DEF Steady
  <2> QED
    BY <1>2, <2>3 DEF CountGoesOn, OnlyInitialCoresNegotiate
<1>6. CASE AgentEnds(a)
  <2>1. ~ Astray(a) => CountGoesOn
    BY <1>6, AgentEndsCounts DEF CountGoesOn
  <2> QED
    BY <1>2, <2>1 DEF CountGoesOn, OnlyInitialCoresNegotiate
<1> QED
  BY <1>3, <1>4, <1>5, <1>6 DEF Program

LEMMA HandlerCounts ==
  ASSUME WInv, Courses, NEW n \in Node, Handler(n)
  PROVE  Onward /\ CountGoesOn
<1>1. OInv
  BY DEF WInv
<1>2. NetKept
  BY <1>1, ReqCoresKept, OfferCoresKept, CollectOfferKept, AckDataKept,
     AckClearKept, AnswerKept, RepOffersYesKept DEF Handler
<1>3. UNCHANGED <<app_state, num_apps_terminated>>
  BY DEF Handler, ReqCores, OfferCores, CollectOffer, AckData, AckClear,
         RepOffersNo, RepOffersYes, RejectRequest, RejectOffer, agentVars
<1>4. Onward
  <2>1. CASE RepOffersNo(n) \/ RepOffersYes(n) \/ RejectOffer(n)
    BY <2>1, ZombieGoesOn
  <2>2. CASE \/ ReqCores(n) \/ OfferCores(n) \/ CollectOffer(n)
             \/ AckData(n) \/ AckClear(n) \/ RejectRequest(n)
    <3>1. ProgramStays
      BY <2>2 DEF ReqCores, OfferCores, CollectOffer, AckData, AckClear,
                  RejectRequest, agentVars, ProgramStays
    <3> QED
      BY <3>1, ProgramUnseen
  <2> QED
    BY <2>1, <2>2 DEF Handler
<1> QED
  BY <1>2, <1>3, <1>4, SteadyCounts DEF Steady

\* A report of an end that core 0 does not count: it is another's.
LEMMA FinishUncounted ==
  ASSUME OInv, NEW c \in Controller, Finish(c), c # Zero \/ Peer(c) \notin Agent
  PROVE  NetKept
<1>1. /\ c \in Node /\ Shaped /\ Sound(Net) /\ Receives(c, "FINISH") /\ IInv
  BY DEF OInv, Owned, IInv, Node, Finish
<1>2. PICK p : Hears(c, p, "FINISH")
  BY <1>1, Heard
<1>3. /\ p = Peer(c) /\ mail[c] # <<>> /\ Head(mail[c]).msg.sig = "FINISH"
      /\ Head(mail[c]).from = p
  BY <1>2 DEF Hears, Peer
<1>4. Kept(Net, Taken(c))
  BY <1>1, <1>3, KeptTaken
<1>5. PICK r : Becomes(r) /\ Kept(Taken(c), r)
  BY <1>2, FinishLeaves
<1> QED
  BY <1>4, <1>5, KeptNext, KeptNow

LEMMA BookCounts ==
  ASSUME WInv, Courses, NEW c \in Controller, BookHandler(c)
  PROVE  Onward /\ CountGoesOn
<1>1. OInv
  BY DEF WInv
<1>2. Onward
  <2>1. ProgramStays
    BY DEF BookHandler, AddCoresDDS, RemCoresDDS, Finish, AppTerminated,
           agentVars, ProgramStays
  <2> QED
    BY <2>1, ProgramUnseen
<1>3. CASE AddCoresDDS(c) \/ RemCoresDDS(c)
  <2>1. UNCHANGED <<app_state, num_apps_terminated>>
    BY <1>3 DEF AddCoresDDS, RemCoresDDS, agentVars
  <2>2. NetKept
    BY <1>1, <1>3, AddCoresDDSKept, RemCoresDDSKept
  <2> QED
    BY <1>2, <2>1, <2>2, SteadyCounts DEF Steady
<1>4. CASE AppTerminated(c)
  BY <1>2, <1>4, AppTerminatedCounts DEF CountGoesOn
<1>5. CASE Finish(c)
  <2>1. Peer(c) \in Node
    <3>1. Receives(c, "FINISH") /\ c \in Node
      BY <1>5 DEF Finish, Node
    <3> QED
      BY <1>1, <3>1, Heard DEF OInv, Hears
  <2>2. CASE c = Zero /\ Peer(c) \in Agent
    BY <1>2, <1>5, <2>2, FinishCounts DEF CountGoesOn
  <2>3. CASE c # Zero \/ Peer(c) \notin Agent
    <3>1. NetKept
      BY <1>1, <1>5, <2>3, FinishUncounted
    <3>2. app_state' = app_state /\ num_apps_terminated' = num_apps_terminated + 0
      BY <1>5, <2>1, <2>3 DEF Finish, agentVars, Node
    <3>3. ASSUME Counting PROVE num_apps_terminated' = num_apps_terminated
      <4>1. num_apps_terminated \in Nat
        BY <3>3, HeededFinite, FS_CardinalityType DEF Counting, Counted
      <4> QED
        BY <3>2, <4>1
    <3>4. Counting => Steady
      BY <3>1, <3>2, <3>3 DEF Steady
    <3> QED
      BY <1>2, <3>4, SteadyCounts DEF CountGoesOn
  <2> QED
    BY <2>2, <2>3
<1> QED
  BY <1>3, <1>4, <1>5 DEF BookHandler

LEMMA NextCounts == CInv /\ [Next]_vars => CInv'
<1> SUFFICES ASSUME CInv, [Next]_vars PROVE CInv'
  OBVIOUS
<1>1. WInv /\ Courses /\ (OnlyInitialCoresNegotiate => Counting)
  BY DEF CInv
<1>2. WInv'
  BY <1>1, NextOwns
<1>3. Onward /\ CountGoesOn
  <2>1. CASE UNCHANGED vars
    <3>1. ProgramStays /\ inter' = inter /\ mail' = mail
          /\ UNCHANGED <<app_state, num_apps_terminated>>
      BY <2>1 DEF vars, agentVars, netVars, ProgramStays
    <3>2. Onward /\ Steady
      BY <1>1, <3>1, ProgramUnseen, KeptSame DEF Steady
    <3> QED
      BY <3>2, SteadyCounts
  <2>2. ASSUME NEW a \in Agent, Program(a) PROVE Onward /\ CountGoesOn
    BY <1>1, <2>2, ProgramCounts
  <2>3. ASSUME NEW a \in Agent, AppFinishes(a) PROVE Onward /\ CountGoesOn
    <3>1. ProgramStays /\ inter' = inter /\ mail' = mail
          /\ num_apps_terminated' = num_apps_terminated
      BY <2>3 DEF AppFinishes, netVars, ProgramStays
    <3>2. \A b \in Agent : app_state'[b] = "NO_APP" <=> app_state[b] = "NO_APP"
      BY <1>1, <2>3 DEF AppFinishes, WInv, Working
    <3>3. Onward /\ Steady
      BY <1>1, <3>1, <3>2, ProgramUnseen, KeptSame DEF Steady
    <3> QED
      BY <3>3, SteadyCounts
  <2>4. ASSUME NEW n \in Node, Handler(n) PROVE Onward /\ CountGoesOn
    BY <1>1, <2>4, HandlerCounts
  <2>5. ASSUME NEW c \in Controller, BookHandler(c) PROVE Onward /\ CountGoesOn
    BY <1>1, <2>5, BookCounts
  <2> QED
    BY <2>1, <2>2, <2>3, <2>4, <2>5 DEF Next
<1>4. ASSUME OnlyInitialCoresNegotiate' PROVE Counting'
  <2>1. OnlyInitialCoresNegotiate
    BY <1>3, <1>4 DEF OnlyInitialCoresNegotiate, Onward
  <2> QED
    BY <1>1, <1>3, <2>1 DEF CountGoesOn
<1>5. Courses'
  BY <1>3 DEF Onward
<1> QED
  BY <1>2, <1>4, <1>5 DEF CInv

LEMMA CountInvariance == Spec => []CInv
<1>1. CInv /\ [Next]_vars => CInv'
  BY NextCounts
<1> QED
  BY InitCounts, <1>1, PTL DEF Spec

\* The ends that are not due are counted, and none is due when all is quiet.
LEMMA EndsCountedAll == CInv => EndsCountedOnce
<1> SUFFICES ASSUME CInv, OnlyInitialCoresNegotiate
             PROVE  /\ num_apps_terminated <= Cardinality(Ended)
                    /\ Quiet => num_apps_terminated = Cardinality(Ended)
  BY DEF EndsCountedOnce
<1>1. num_apps_terminated = Cardinality(Heeded)
  BY DEF CInv, Counting, Counted
<1>2. Cardinality(Heeded) <= Cardinality(Ended)
  BY HeededFinite, FS_Subset DEF Heeded
<1>3. ASSUME Quiet PROVE Heeded = Ended
  <2>1. PICK none : none = <<>> /\ DOMAIN none = {}
    OBVIOUS
  <2>2. mail[Zero] = none /\ \A a \in Agent : inter[a][Zero] = none
    BY <1>3, <2>1, ClusterAssumption DEF Quiet, Node
  <2>3. \A a \in Agent : ~ Due(a)
    BY <2>1, <2>2 DEF Due, Came, Behind
  <2> QED
    BY <2>3 DEF Heeded, Ended
<1> QED
  BY <1>1, <1>2, <1>3

\* EndsCountedOnceHolds: while no manager goes astray, core 0 never counts the
\* end of an application early or twice, and when nothing is under way it has
\* missed none, whichever signal told it and however many clusters there are
\* (sig_FINISH_handler and sig_APP_TERMINATED_handler, signal_handlers.c).
THEOREM EndsCountedOnceHolds == Spec => []EndsCountedOnce
  BY CountInvariance, EndsCountedAll, PTL
=============================================================================
