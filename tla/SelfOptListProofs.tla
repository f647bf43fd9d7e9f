------------------------- MODULE SelfOptListProofs --------------------------
(***************************************************************************)
(* Lemmas about SelfOpt, for any number of controllers, managers and       *)
(* cores, on the way to its types (SelfOptTypeProofs): what the actions    *)
(* put into queues and lists of signals, the course of a manager's program *)
(* and its rounds, and the list of its cores, in which none is twice.      *)
(*                                                                         *)
(* A core that was given away may come back to its giver by another way.   *)
(* It never comes before the giver has heard that it was taken: signals    *)
(* are handled in the order of their arrival, and whoever offers the core  *)
(* again has got it after the first taker had answered (AfterAnswers).     *)
(***************************************************************************)
EXTENDS SelfOptCountProofs

\* The cores that applications may have.
Given == Core \ Controller

\* Interactions and signals of n with p say what is so of cores and managers;
\* a controller passes on to another what is of its cluster.
Local(n, p, cores) ==
  cores \subseteq Given /\ (n \in Controller => \A y \in cores : idag_mask[y] = p)
Proper(x, n, p) ==
  /\ x.type \in Offers => x.cores \subseteq Given
  /\ x.type \in Reports => Local(n, p, x.cores)
  /\ x.type \in {"IDAG_ADD_CORES_DDS", "REMOVE_APP"} => x.agent \in Agent
  /\ x.type = "IDAG_REM_CORES_DDS" => x.new \in Agent
Named(m, n, p) ==
  /\ m.sig \in {"ADD_CORES_DDS", "REM_CORES_DDS", "FINISH"} =>
       Local(n, p, m.cores)
  /\ m.sig \in {"ADD_CORES_DDS", "FINISH"} => m.agent \in Agent
  /\ m.sig = "REM_CORES_DDS" => m.new \in Agent
ProperQueue(q, n, p) == \A x \in Range(q) : Proper(x, n, p)
NamedList(l, p) == \A s \in Range(l) : Named(s.msg, s.from, p)
NamesOf(net) ==
  /\ \A n, p \in Node : ProperQueue(net.inter[n][p], n, p)
  /\ \A p \in Node : NamedList(net.mail[p], p)

\* What n does to the network: the lists only grow, and new answers to offers
\* go to the nodes in R; the heads stay but those of n's queues for the nodes
\* in P, and cores are newly offered only to the nodes in N.
Longer(l, t, n, p, R) ==
  /\ DOMAIN l \subseteq DOMAIN t /\ \A i \in DOMAIN l : t[i] = l[i]
  /\ \A j \in DOMAIN t \ DOMAIN l :
       t[j].msg.sig = "REP_OFFERS" =>
         t[j].from = n /\ p \in R /\ t[j].msg.answer = Answer(n, p)
Upheld(q, r, same, new) ==
  /\ same /\ q # <<>> => r # <<>> /\ Head(r) = Head(q)
  /\ new \/ \A x : Lends(r, x) => Lends(q, x)
Grows(net, r, n, P, R, N) ==
  /\ \A p \in Node : Longer(net.mail[p], r.mail[p], n, p, R)
  /\ \A m, p \in Node :
       Upheld(net.inter[m][p], r.inter[m][p], ~ (m = n /\ p \in P),
              m = n /\ p \in N)
  /\ NamesOf(net) => NamesOf(r)
-----------------------------------------------------------------------------
(* What the calls of a handler do.                                           *)

LEMMA LongerSame ==
  ASSUME NEW l, NEW n, NEW p, NEW R
  PROVE  Longer(l, l, n, p, R)
BY DEF Longer

LEMMA LongerAppended ==
  ASSUME NEW l, IsSeq(l), NEW s, NEW n, NEW p, NEW R,
         s.msg.sig = "REP_OFFERS" =>
           s.from = n /\ p \in R /\ s.msg.answer = Answer(n, p),
         NEW t, t = Append(l, s)
  PROVE  Longer(l, t, n, p, R)
<1>1. /\ Len(l) \in Nat /\ DOMAIN l = 1..Len(l) /\ DOMAIN t = 1..(Len(l) + 1)
      /\ t[Len(l) + 1] = s /\ \A i \in 1..Len(l) : t[i] = l[i]
  BY Appending
<1>2. \A j \in DOMAIN t \ DOMAIN l : j = Len(l) + 1
  BY <1>1
<1>3. \A j \in DOMAIN t \ DOMAIN l : t[j] = s
  BY <1>1, <1>2
<1>4. DOMAIN l \subseteq DOMAIN t /\ \A i \in DOMAIN l : t[i] = l[i]
  BY <1>1
<1> QED
  BY <1>3, <1>4 DEF Longer

LEMMA GrowsNext ==
  ASSUME NEW net, NEW r, NEW t, NEW n, NEW P, NEW R, NEW N,
         Grows(net, r, n, P, R, N), Grows(r, t, n, P, R, N)
  PROVE  Grows(net, t, n, P, R, N)
<1>1. \A p \in Node : Longer(net.mail[p], t.mail[p], n, p, R)
  BY DEF Grows, Longer
<1>2. ASSUME NEW m \in Node, NEW p \in Node, NEW same, NEW new,
             Upheld(net.inter[m][p], r.inter[m][p], same, new),
             Upheld(r.inter[m][p], t.inter[m][p], same, new)
      PROVE  Upheld(net.inter[m][p], t.inter[m][p], same, new)
  BY <1>2 DEF Upheld
<1> QED
  BY <1>1, <1>2 DEF Grows

LEMMA GrowsMore ==
  ASSUME NEW net, NEW r, NEW n, NEW P, NEW R, NEW N, Grows(net, r, n, P, R, N),
         NEW Q, P \subseteq Q, NEW S, R \subseteq S, NEW M, N \subseteq M
  PROVE  Grows(net, r, n, Q, S, M)
<1>1. \A p \in Node : Longer(net.mail[p], r.mail[p], n, p, S)
  BY DEF Grows, Longer
<1>2. \A m, p \in Node :
        Upheld(net.inter[m][p], r.inter[m][p], ~ (m = n /\ p \in Q),
               m = n /\ p \in M)
  BY DEF Grows, Upheld
<1> QED
  BY <1>1, <1>2 DEF Grows

LEMMA GrowsSame ==
  ASSUME NEW net, NEW n, NEW P, NEW R, NEW N
  PROVE  Grows(net, net, n, P, R, N)
BY DEF Grows, Longer, Upheld

\* What the signal of an interaction says.
LEMMA SignalNamed ==
  ASSUME NEW x, NEW n, NEW p, Proper(x, n, p),
         x.type \in Waiting \cup {"REP_AGENT_REQ_CORES", "REP_AGENT_OFFER_SENT"}
  PROVE  Named(SignalOf(x), n, p)
BY DEF SignalOf, Waiting, Reports, Proper, Named
LEMMA SignalAnswers ==
  ASSUME NEW x,
         x.type \in Waiting \cup {"REP_AGENT_REQ_CORES", "REP_AGENT_OFFER_SENT"}
  PROVE  /\ SignalOf(x).sig = "REP_OFFERS" <=> x.type = "REP_AGENT_OFFER_SENT"
         /\ x.type = "REP_AGENT_OFFER_SENT" => SignalOf(x).answer = x.answer
BY DEF SignalOf, Waiting, Reports

LEMMA NamedAppended ==
  ASSUME NEW l, IsSeq(l), NEW p, NamedList(l, p), NEW s, Named(s.msg, s.from, p),
         NEW t, t = Append(l, s)
  PROVE  NamedList(t, p)
<1>1. Range(t) = Range(l) \cup {s}
  BY RangeAppended
<1> QED
  BY <1>1 DEF NamedList

\* The list of p stays, or gets a signal of n.
Adds(net, l, t, n, p, R) ==
  \/ t = l
  \/ \E s : /\ t = Append(l, s) /\ s.from = n
            /\ s.msg.sig = "REP_OFFERS" => p \in R /\ s.msg.answer = Answer(n, p)
            /\ NamesOf(net) => Named(s.msg, n, p)

LEMMA AddsGrows ==
  ASSUME NEW net, NEW l, IsSeq(l), NEW t, NEW n, NEW p, NEW R,
         Adds(net, l, t, n, p, R)
  PROVE  /\ Longer(l, t, n, p, R)
         /\ NamesOf(net) /\ NamedList(l, p) => NamedList(t, p)
<1>1. CASE t = l
  BY <1>1, LongerSame
<1>2. ASSUME NEW s, t = Append(l, s), s.from = n,
             s.msg.sig = "REP_OFFERS" => p \in R /\ s.msg.answer = Answer(n, p),
             NamesOf(net) => Named(s.msg, n, p)
      PROVE  /\ Longer(l, t, n, p, R)
             /\ NamesOf(net) /\ NamedList(l, p) => NamedList(t, p)
  <2>1. Longer(l, t, n, p, R)
    BY <1>2, LongerAppended
  <2>2. NamesOf(net) => Named(s.msg, s.from, p)
    BY <1>2
  <2> QED
    BY <1>2, <2>1, <2>2, NamedAppended
<1> QED
  BY <1>1, <1>2 DEF Adds

\* Node n changes its queues and sends signals.
LEMMA GrowsBy ==
  ASSUME NEW net, Sound(net), NEW r, NEW n \in Node,
         \A m \in Node : m # n => r.inter[m] = net.inter[m],
         NEW P, NEW R, NEW N,
         \A p \in Node : Adds(net, net.mail[p], r.mail[p], n, p, R),
         \A p \in Node :
           /\ Upheld(net.inter[n][p], r.inter[n][p], p \notin P, p \in N)
           /\ NamesOf(net) => ProperQueue(r.inter[n][p], n, p)
  PROVE  Grows(net, r, n, P, R, N)
<1>1. \A p \in Node : IsSeq(net.mail[p])
  BY DEF Sound, SoundList
<1>2. \A p \in Node : /\ Longer(net.mail[p], r.mail[p], n, p, R)
                      /\ NamesOf(net) /\ NamedList(net.mail[p], p) =>
                           NamedList(r.mail[p], p)
  BY <1>1, AddsGrows
<1>3. ASSUME NEW m \in Node, NEW q \in Node
      PROVE  Upheld(net.inter[m][q], r.inter[m][q], ~ (m = n /\ q \in P),
                    m = n /\ q \in N)
  <2>1. CASE m = n
    BY <2>1 DEF Upheld
  <2>2. CASE m # n
    <3>1. r.inter[m][q] = net.inter[m][q]
      BY <2>2
    <3> QED
      BY <3>1 DEF Upheld
  <2> QED
    BY <2>1, <2>2
<1>4. ASSUME NamesOf(net) PROVE NamesOf(r)
  <2>1. \A q \in Node : NamedList(r.mail[q], q)
    BY <1>2, <1>4 DEF NamesOf
  <2>2. ASSUME NEW m \in Node, NEW q \in Node
        PROVE  ProperQueue(r.inter[m][q], m, q)
    <3>1. CASE m = n
      BY <1>4, <3>1
    <3>2. CASE m # n
      BY <1>4, <3>2 DEF NamesOf
    <3> QED
      BY <3>1, <3>2
  <2> QED
    BY <2>1, <2>2 DEF NamesOf
<1> QED
  BY <1>2, <1>3, <1>4 DEF Grows

\* The queue of n for p and the list of p change alone.
LEMMA GrowsOne ==
  ASSUME NEW net, Sound(net), NEW r, NEW n \in Node, NEW p \in Node,
         OnlyWith(net, r, n, p), NEW P, NEW R, NEW N,
         Adds(net, net.mail[p], r.mail[p], n, p, R),
         Upheld(net.inter[n][p], r.inter[n][p], p \notin P, p \in N),
         NamesOf(net) => ProperQueue(r.inter[n][p], n, p)
  PROVE  Grows(net, r, n, P, R, N)
<1>1. /\ \A m \in Node : m # n => r.inter[m] = net.inter[m]
      /\ \A m \in Node : m # p =>
           r.inter[n][m] = net.inter[n][m] /\ r.mail[m] = net.mail[m]
  BY DEF OnlyWith
<1>2. \A q \in Node : Adds(net, net.mail[q], r.mail[q], n, q, R)
  BY <1>1 DEF Adds
<1>3. ASSUME NEW q \in Node
      PROVE  /\ Upheld(net.inter[n][q], r.inter[n][q], q \notin P, q \in N)
             /\ NamesOf(net) => ProperQueue(r.inter[n][q], n, q)
  <2>1. CASE q = p
    BY <2>1
  <2>2. CASE q # p
    <3>1. r.inter[n][q] = net.inter[n][q]
      BY <1>1, <2>2
    <3>2. Upheld(net.inter[n][q], r.inter[n][q], q \notin P, q \in N)
      BY <3>1 DEF Upheld
    <3> QED
      BY <3>1, <3>2 DEF NamesOf
  <2> QED
    BY <2>1, <2>2
<1> QED
  BY <1>1, <1>2, <1>3, GrowsBy

LEMMA GrowsSend ==
  ASSUME NEW net, Sound(net), NEW n \in Node, NEW p \in Node, NEW s,
         s.sig # "REP_OFFERS", NamesOf(net) => Named(s, n, p),
         NEW r, Sends(net, r, n, p, s), NEW P, NEW R, NEW N
  PROVE  Grows(net, r, n, P, R, N)
<1>1. PICK u : u = [from |-> n, msg |-> s]
  OBVIOUS
<1>2. /\ OnlyWith(net, r, n, p) /\ r.inter = net.inter
      /\ r.mail[p] = Append(net.mail[p], u)
  BY <1>1, SendIs DEF Sound
<1>3. Adds(net, net.mail[p], r.mail[p], n, p, R)
  BY <1>1, <1>2 DEF Adds
<1>4. Upheld(net.inter[n][p], r.inter[n][p], p \notin P, p \in N)
  BY <1>2 DEF Upheld
<1>5. NamesOf(net) => ProperQueue(r.inter[n][p], n, p)
  BY <1>2 DEF NamesOf
<1> QED
  BY <1>2, <1>3, <1>4, <1>5, GrowsOne

\* An interaction joins a queue.
LEMMA UpheldAppended ==
  ASSUME NEW q, IsSeq(q), NEW x, NEW r, r = Append(q, x), NEW same, NEW new,
         q = <<>> /\ x.type \in Offers => new
  PROVE  Upheld(q, r, same, new) /\ Range(r) = Range(q) \cup {x}
<1>1. /\ Len(q) \in Nat /\ DOMAIN q = 1..Len(q) /\ DOMAIN r = 1..(Len(q) + 1)
      /\ r[Len(q) + 1] = x /\ \A i \in 1..Len(q) : r[i] = q[i]
      /\ IsSeq(r) /\ Len(r) = Len(q) + 1
  BY Appending
<1>2. Range(r) = Range(q) \cup {x}
  BY RangeAppended
<1>3. r # <<>> /\ Head(r) = r[1]
  BY <1>1, Shortening DEF IsSeq
<1>4. q # <<>> => Head(r) = Head(q)
  <2>1. q # <<>> => Len(q) # 0 /\ Head(q) = q[1]
    BY Shortening
  <2> QED
    BY <1>1, <1>3, <2>1
<1>5. q = <<>> => Head(r) = x
  BY <1>1, <1>3
<1> QED
  BY <1>2, <1>3, <1>4, <1>5 DEF Upheld, Lends

LEMMA GrowsPost ==
  ASSUME NEW net, Sound(net), NEW n \in Node, NEW p \in Node, NEW x,
         x.type \in Waiting \cup {"REP_AGENT_REQ_CORES"},
         NamesOf(net) => Proper(x, n, p), NEW N, x.type \in Offers => p \in N,
         NEW r, Posts(net, r, n, p, x), NEW P, NEW R
  PROVE  Grows(net, r, n, P, R, N)
<1>1. PICK s : s = [from |-> n, msg |-> SignalOf(x)]
  OBVIOUS
<1>2. /\ OnlyWith(net, r, n, p) /\ r.inter[n][p] = Append(net.inter[n][p], x)
      /\ r.mail[p] = IF net.inter[n][p] = <<>> THEN Append(net.mail[p], s)
                     ELSE net.mail[p]
  BY <1>1, PostIs DEF Sound
<1>3. /\ SignalOf(x).sig # "REP_OFFERS"
      /\ NamesOf(net) => Named(SignalOf(x), n, p)
  <2>1. x.type # "REP_AGENT_OFFER_SENT"
    BY DEF Waiting, Reports
  <2> QED
    BY <2>1, SignalNamed, SignalAnswers
<1>4. Adds(net, net.mail[p], r.mail[p], n, p, R)
  BY <1>1, <1>2, <1>3 DEF Adds
<1>5. PICK q, t : q = net.inter[n][p] /\ t = r.inter[n][p] /\ t = Append(q, x)
                  /\ IsSeq(q)
  BY <1>2 DEF Sound, SoundQueue
<1>6. Upheld(q, t, p \notin P, p \in N) /\ Range(t) = Range(q) \cup {x}
  BY <1>5, UpheldAppended
<1>7. NamesOf(net) => ProperQueue(t, n, p)
  BY <1>5, <1>6 DEF NamesOf, ProperQueue
<1> QED
  BY <1>2, <1>4, <1>5, <1>6, <1>7, GrowsOne

LEMMA GrowsPop ==
  ASSUME NEW net, Sound(net), NEW n \in Node, NEW p \in Node,
         net.inter[n][p] # <<>>, NEW r, Pops(net, r, n, p), NEW P, p \in P,
         NEW R, NEW N
  PROVE  Grows(net, r, n, P, R, N)
<1>1. PICK q, l, rest : q = net.inter[n][p] /\ l = net.mail[p] /\ rest = Tail(q)
  OBVIOUS
<1>2. PICK s : s = [from |-> n, msg |-> SignalOf(Head(rest))]
  OBVIOUS
<1>3. Popped(net, r, n, p, rest)
  BY <1>1, PopParts
<1>4. /\ OnlyWith(net, r, n, p) /\ r.inter[n][p] = rest
      /\ r.mail[p] = IF rest # <<>> THEN Append(l, s) ELSE l
  BY <1>1, <1>2, <1>3 DEF Popped
<1>5. SoundQueue(q) /\ IsSeq(q) /\ q # <<>>
  BY <1>1 DEF Sound, SoundQueue
<1>6. IsSeq(rest) /\ Range(rest) \subseteq Range(q)
  BY <1>1, <1>5, RangeTailed
<1>7. rest # <<>> => Head(rest).type \in Waiting /\ Head(rest) \in Range(rest)
  <2>1. rest # <<>> => Head(rest).type \in Waiting
    BY <1>1, <1>5, NextWaits
  <2> QED
    BY <1>6, <2>1, RangeTailed
<1>8. NamesOf(net) => ProperQueue(rest, n, p)
  BY <1>1, <1>6 DEF NamesOf, ProperQueue
<1>9. Upheld(q, rest, p \notin P, p \in N)
  <2>1. rest # <<>> => Head(rest).type \notin Offers
    BY <1>7 DEF Waiting, Reports, Offers
  <2> QED
    BY <2>1 DEF Upheld, Lends
<1>10. Adds(net, l, r.mail[p], n, p, R)
  <2>1. CASE rest = <<>>
    BY <1>4, <2>1 DEF Adds
  <2>2. CASE rest # <<>>
    <3>1. PICK x : x = Head(rest) /\ x.type \in Waiting /\ x \in Range(rest)
      BY <1>7, <2>2
    <3>2. NamesOf(net) => Proper(x, n, p)
      BY <1>8, <3>1 DEF ProperQueue
    <3>3. SignalOf(x).sig # "REP_OFFERS"
      BY <3>1, SignalAnswers DEF Waiting, Reports
    <3>4. NamesOf(net) => Named(SignalOf(x), n, p)
      BY <3>1, <3>2, SignalNamed
    <3> QED
      BY <1>2, <1>4, <2>2, <3>1, <3>3, <3>4 DEF Adds
  <2> QED
    BY <2>1, <2>2
<1> QED
  BY <1>1, <1>4, <1>8, <1>9, <1>10, GrowsOne

\* Another interaction takes the place of the head.
LEMMA RangeReheaded ==
  ASSUME NEW q, IsSeq(q), q # <<>>, NEW x, NEW r, r = <<x>> \o Tail(q)
  PROVE  r # <<>> /\ Head(r) = x /\ \A y \in Range(r) : y = x \/ y \in Range(q)
<1>1. PICK S : q \in Seq(S) /\ x \in S
  <2>1. PICK S : q \in Seq(S)
    BY DEF IsSeq
  <2>2. q \in Seq(S \cup {x})
    BY <2>1
  <2> QED
    BY <2>2
<1>2. Tail(q) \in Seq(S) /\ Len(Tail(q)) = Len(q) - 1 /\ Len(q) \in Nat \ {0}
  BY <1>1
<1>3. /\ r \in Seq(S) /\ Len(r) = Len(q) /\ r[1] = x
      /\ DOMAIN q = 1..Len(q) /\ DOMAIN r = 1..Len(q)
      /\ \A i \in 2..Len(q) : r[i] = q[i]
  BY <1>1, <1>2
<1>4. r # <<>> /\ Head(r) = x
  BY <1>2, <1>3
<1>5. \A i \in DOMAIN r : i = 1 \/ (i \in DOMAIN q /\ r[i] = q[i])
  BY <1>2, <1>3
<1> QED
  BY <1>3, <1>4, <1>5 DEF Range

LEMMA GrowsRehead ==
  ASSUME NEW net, Sound(net), NEW n \in Node, NEW p \in Node,
         net.inter[n][p] # <<>>, NEW x, NamesOf(net) => Proper(x, n, p),
         x.type \in Offers => \A y \in x.cores : Lends(net.inter[n][p], y),
         NEW r, Reheads(net, r, n, p, x), NEW P, p \in P, NEW R, NEW N
  PROVE  Grows(net, r, n, P, R, N)
<1>1. /\ OnlyWith(net, r, n, p) /\ r.mail = net.mail
      /\ r.inter[n][p] = <<x>> \o Tail(net.inter[n][p])
  BY SMTT(30), ReheadIs DEF Sound, Reheads
<1>2. PICK q, t : q = net.inter[n][p] /\ t = r.inter[n][p] /\ IsSeq(q)
                  /\ t = <<x>> \o Tail(q) /\ q # <<>>
  BY <1>1 DEF Sound, SoundQueue
<1>3. t # <<>> /\ Head(t) = x /\ \A y \in Range(t) : y = x \/ y \in Range(q)
  BY <1>2, RangeReheaded
<1>4. NamesOf(net) => ProperQueue(t, n, p)
  BY <1>2, <1>3 DEF NamesOf, ProperQueue
<1>5. Upheld(q, t, p \notin P, p \in N)
  BY <1>2, <1>3 DEF Upheld, Lends
<1>6. Adds(net, net.mail[p], r.mail[p], n, p, R)
  BY <1>1 DEF Adds
<1> QED
  BY <1>1, <1>2, <1>4, <1>5, <1>6, GrowsOne

LEMMA GrowsClear ==
  ASSUME NEW net, Sound(net), NEW n \in Node, NEW p \in Node,
         NEW r, Keeps(net, r, n, p, <<>>), NEW P, p \in P, NEW R, NEW N
  PROVE  Grows(net, r, n, P, R, N)
<1>1. PICK q : q = <<>>
  OBVIOUS
<1>2. Keeps(net, r, n, p, q)
  BY <1>1
<1>3. OnlyWith(net, r, n, p) /\ r.mail = net.mail /\ r.inter[n][p] = q
  BY <1>2, SetIs DEF Sound
<1>4. Adds(net, net.mail[p], r.mail[p], n, p, R)
  BY <1>3 DEF Adds
<1>5. Upheld(net.inter[n][p], q, p \notin P, p \in N)
  BY <1>1 DEF Upheld, Lends
<1>6. ProperQueue(q, n, p)
  BY <1>1 DEF ProperQueue, Range
<1> QED
  BY <1>3, <1>4, <1>5, <1>6, GrowsOne

\* Interactions with several nodes are begun.
LEMMA GrowsSpread ==
  ASSUME NEW net, Sound(net), NEW n \in Node, NEW items,
         \A p \in DOMAIN items :
           items[p].type \in Waiting /\ (NamesOf(net) => Proper(items[p], n, p)),
         NEW r, PostsAll(net, r, n, items), NEW P, NEW R, NEW N
  PROVE  Grows(net, r, n, P, R, N)
<1>1. /\ \A m \in Node : m # n => r.inter[m] = net.inter[m]
      /\ \A p \in Node : r.inter[n][p] =
           IF p \in DOMAIN items THEN Append(net.inter[n][p], items[p])
           ELSE net.inter[n][p]
      /\ \A p \in Node : r.mail[p] =
           IF p \in DOMAIN items /\ net.inter[n][p] = <<>>
           THEN Append(net.mail[p], [from |-> n, msg |-> SignalOf(items[p])])
           ELSE net.mail[p]
  BY PostAllParts DEF Sound, PostsAll
<1>2. ASSUME NEW p \in Node
      PROVE  /\ Adds(net, net.mail[p], r.mail[p], n, p, R)
             /\ Upheld(net.inter[n][p], r.inter[n][p], p \notin P, p \in N)
             /\ NamesOf(net) => ProperQueue(r.inter[n][p], n, p)
  <2>1. CASE p \notin DOMAIN items
    <3>1. r.inter[n][p] = net.inter[n][p] /\ r.mail[p] = net.mail[p]
      BY <1>1, <2>1
    <3> QED
      BY <3>1 DEF Adds, Upheld, NamesOf
  <2>2. CASE p \in DOMAIN items
    <3>1. PICK x, s : x = items[p] /\ s = [from |-> n, msg |-> SignalOf(x)]
      OBVIOUS
    <3>2. /\ r.inter[n][p] = Append(net.inter[n][p], x)
          /\ r.mail[p] = net.mail[p] \/ r.mail[p] = Append(net.mail[p], s)
      BY <1>1, <2>2, <3>1
    <3>3. x.type \in Waiting /\ (NamesOf(net) => Proper(x, n, p))
      BY <2>2, <3>1
    <3>4. /\ SignalOf(x).sig # "REP_OFFERS" /\ x.type \notin Offers
          /\ NamesOf(net) => Named(SignalOf(x), n, p)
      <4>1. x.type # "REP_AGENT_OFFER_SENT" /\ x.type \notin Offers
        BY <3>3 DEF Waiting, Reports, Offers
      <4> QED
        BY <3>3, <4>1, SignalNamed, SignalAnswers
    <3>5. Adds(net, net.mail[p], r.mail[p], n, p, R)
      BY SMTT(30), <3>1, <3>2, <3>4 DEF Adds
    <3>6. PICK q, t : q = net.inter[n][p] /\ t = r.inter[n][p] /\ t = Append(q, x)
                      /\ IsSeq(q)
      BY <3>2 DEF Sound, SoundQueue
    <3>7. Upheld(q, t, p \notin P, p \in N) /\ Range(t) = Range(q) \cup {x}
      BY <3>4, <3>6, UpheldAppended
    <3>8. NamesOf(net) => ProperQueue(t, n, p)
      BY <3>3, <3>6, <3>7 DEF NamesOf, ProperQueue
    <3> QED
      BY <3>5, <3>6, <3>7, <3>8
  <2> QED
    BY <2>1, <2>2
<1> QED
  BY <1>1, <1>2, GrowsBy

LEMMA GrowsAnswers ==
  ASSUME NEW net, Sound(net), NEW n \in Node, NEW r, Replies(net, r, n),
         \A p \in Unanswered(n) : net.inter[n][p] # <<>>,
         NEW P, P = Unanswered(n), NEW N
  PROVE  Grows(net, r, n, P, P, N)
<1>1. /\ \A m \in Node : m # n => r.inter[m] = net.inter[m]
      /\ \A p \in Node : p \notin P =>
           r.inter[n][p] = net.inter[n][p] /\ r.mail[p] = net.mail[p]
  BY DEF Replies
<1>2. ASSUME NEW p \in Node
      PROVE  /\ Adds(net, net.mail[p], r.mail[p], n, p, P)
             /\ Upheld(net.inter[n][p], r.inter[n][p], p \notin P, p \in N)
             /\ NamesOf(net) => ProperQueue(r.inter[n][p], n, p)
  <2>1. CASE p \notin P
    <3>1. r.inter[n][p] = net.inter[n][p] /\ r.mail[p] = net.mail[p]
      BY <1>1, <2>1
    <3> QED
      BY <3>1 DEF Adds, Upheld, NamesOf
  <2>2. CASE p \in P
    <3>1. PICK x : /\ x.type = "REP_AGENT_OFFER_SENT" /\ x.answer = Answer(n, p)
                   /\ r.inter[n][p] = <<x>> \o Tail(net.inter[n][p])
                   /\ r.mail[p] = Append(net.mail[p],
                                         [from |-> n, msg |-> SignalOf(x)])
      BY <2>2 DEF Replies
    <3>2. PICK s : s = [from |-> n, msg |-> SignalOf(x)]
      OBVIOUS
    <3>3. Proper(x, n, p) /\ x.type \notin Offers
      BY <3>1 DEF Proper, Offers, Reports
    <3>4. SignalOf(x).answer = Answer(n, p) /\ Named(SignalOf(x), n, p)
      BY <3>1, <3>3, SignalNamed, SignalAnswers
    <3>5. Adds(net, net.mail[p], r.mail[p], n, p, P)
      BY <2>2, <3>1, <3>2, <3>4 DEF Adds
    <3>6. PICK q, t : q = net.inter[n][p] /\ t = r.inter[n][p] /\ IsSeq(q)
                      /\ t = <<x>> \o Tail(q) /\ q # <<>>
      BY <2>2, <3>1 DEF Sound, SoundQueue
    <3>7. t # <<>> /\ Head(t) = x /\ \A y \in Range(t) : y = x \/ y \in Range(q)
      BY <3>6, RangeReheaded
    <3>8. NamesOf(net) => ProperQueue(t, n, p)
      BY <3>3, <3>6, <3>7 DEF NamesOf, ProperQueue
    <3>9. Upheld(q, t, p \notin P, p \in N)
      BY <2>2, <3>3, <3>7 DEF Upheld, Lends
    <3> QED
      BY <3>5, <3>6, <3>8, <3>9
  <2> QED
    BY <2>1, <2>2
<1> QED
  BY <1>1, <1>2, GrowsBy

-----------------------------------------------------------------------------
(* What the actions do to the queues and lists.                              *)

\* Lists and books name cores of applications, those of the own cluster.
Names ==
  /\ NamesOf(Net)
  /\ \A a \in Agent : \A i \in DOMAIN my_cores[a] : my_cores[a][i].core \in Given
  /\ \A c \in Controller :
       DOMAIN book[c].offered_to = {x \in Given : idag_mask[x] = c}

\* A step of the program of n, or a handler of n that takes the oldest signal.
Acts(n, P, R, N) == Grows(Net, Net', n, P, R, N)
Heeds(n, P) ==
  /\ mail[n] # <<>>
  /\ \A E : E = {} => Grows(Taken(n), Net', n, P, E, E)

LEMMA GrownNow ==
  ASSUME NEW net, NEW n, NEW P, NEW R, NEW N, NEW r, Grows(net, r, n, P, R, N),
         Becomes(r)
  PROVE  Grows(net, Net', n, P, R, N)
<1>1. Net'.inter = r.inter /\ Net'.mail = r.mail
  BY DEF Becomes, Net
<1>2. NamesOf(r) => NamesOf(Net')
  BY <1>1 DEF NamesOf
<1> QED
  BY <1>1, <1>2 DEF Grows

LEMMA ActsSame ==
  ASSUME inter' = inter, mail' = mail, NEW n, NEW P, NEW R, NEW N
  PROVE  Acts(n, P, R, N)
<1>1. Net' = Net
  BY DEF Net
<1> QED
  BY <1>1, GrowsSame DEF Acts

LEMMA TakenNames ==
  ASSUME IInv, Sound(Net), NEW n \in Node, mail[n] # <<>>, NamesOf(Net)
  PROVE  NamesOf(Taken(n)) /\ Named(Head(mail[n]).msg, Head(mail[n]).from, n)
<1>1. /\ Taken(n).inter = inter /\ Taken(n).mail[n] = Tail(mail[n])
      /\ \A m \in Node : m # n => Taken(n).mail[m] = mail[m]
      /\ Net.inter = inter /\ Net.mail = mail
  BY TakenIs, NowIs DEF IInv
<1>2. IsSeq(mail[n])
  BY <1>1 DEF Sound, SoundList
<1>3. /\ Range(Tail(mail[n])) \subseteq Range(mail[n])
      /\ Head(mail[n]) \in Range(mail[n])
  BY <1>2, RangeTailed
<1>4. \A p \in Node : NamedList(Taken(n).mail[p], p)
  BY <1>1, <1>3 DEF NamesOf, NamedList
<1> QED
  BY <1>1, <1>3, <1>4 DEF NamesOf, NamedList

\* A handler takes a signal, and answers or not.
LEMMA GrowsAnswering ==
  ASSUME IInv, Sound(Net), NEW n \in Node, NEW p, NEW sig, Hears(n, p, sig),
         NEW net, Answering(n, p, net), NEW P, NEW R, NEW N
  PROVE  /\ Grows(Taken(n), net, n, P, R, N) /\ Sound(net)
         /\ net.inter[n][p] = inter[n][p]
<1>1. /\ Shaped /\ mail[n] # <<>> /\ p \in Node
  BY DEF IInv, Hears
<1>2. Sound(Taken(n))
  BY <1>1, TakenSound
<1>3. Sound(net) /\ net.inter[n][p] = inter[n][p]
  BY AnswersMove
<1>4. ASSUME NEW k \in {"ACK", "REJECT"}, Sends(Taken(n), net, n, p, [sig |-> k])
      PROVE  Grows(Taken(n), net, n, P, R, N)
  <2>1. PICK s : s = [sig |-> k]
    OBVIOUS
  <2>2. s.sig # "REP_OFFERS" /\ Named(s, n, p) /\ Sends(Taken(n), net, n, p, s)
    BY <1>4, <2>1 DEF Named
  <2>3. PICK taken : taken = Taken(n)
    OBVIOUS
  <2> QED
    BY <1>1, <1>2, <2>2, <2>3, GrowsSend
<1>5. Grows(Taken(n), net, n, P, R, N)
  BY <1>4, GrowsSame DEF Answering
<1> QED
  BY <1>3, <1>5

\* A handler takes a signal, answers or not, and ends the interaction.
LEMMA GrowsEnding ==
  ASSUME IInv, Sound(Net), NEW n \in Node, NEW p, NEW sig, Hears(n, p, sig),
         NEW net, Answering(n, p, net), inter[n][p] # <<>>, NEW r,
         Pops(net, r, n, p), NEW P, p \in P, NEW R, NEW N
  PROVE  Grows(Taken(n), r, n, P, R, N)
<1>1. /\ Grows(Taken(n), net, n, P, R, N) /\ Sound(net)
      /\ net.inter[n][p] # <<>> /\ p \in Node
  BY GrowsAnswering DEF Hears
<1>2. Grows(net, r, n, P, R, N)
  BY <1>1, GrowsPop
<1> QED
  BY <1>1, <1>2, GrowsNext

LEMMA HeedsAnswering ==
  ASSUME IInv, Sound(Net), NEW n \in Node, NEW p, NEW sig, Hears(n, p, sig),
         NEW net, Answering(n, p, net), Becomes(net), NEW P
  PROVE  Heeds(n, P)
BY GrowsAnswering, GrownNow DEF Heeds, Hears

LEMMA HeedsEnding ==
  ASSUME IInv, Sound(Net), NEW n \in Node, NEW p, NEW sig, Hears(n, p, sig),
         NEW net, Answering(n, p, net), inter[n][p] # <<>>, NEW r,
         Pops(net, r, n, p), Becomes(r), NEW P, p \in P
  PROVE  Heeds(n, P)
BY GrowsEnding, GrownNow DEF Heeds, Hears

LEMMA DiscoveryDoneActs ==
  ASSUME OInv, NEW a \in Agent, DiscoveryDone(a), NEW E, E = {}
  PROVE  Acts(a, E, E, E)
<1>1. a \in Node /\ Sound(Net)
  BY DEF Node, OInv, Owned
<1>2. PICK targets :
        Becomes(PostAll(Net, a, [t \in targets |->
                          [type |-> "SELFOPT_REQ_CORES_PENDING"]]))
  BY DEF DiscoveryDone
<1>3. PICK items, r : /\ items = [t \in targets |->
                                    [type |-> "SELFOPT_REQ_CORES_PENDING"]]
                      /\ r = PostAll(Net, a, items)
  OBVIOUS
<1>4. \A p \in DOMAIN items :
        items[p].type \in Waiting /\ Proper(items[p], a, p)
  BY <1>3 DEF Waiting, Proper, Offers, Reports
<1>5. PostsAll(Net, r, a, items) /\ Becomes(r)
  BY <1>2, <1>3 DEF PostsAll
<1>6. PICK net : net = Net
  OBVIOUS
<1>7. Grows(net, r, a, E, E, E)
  BY <1>1, <1>4, <1>5, <1>6, GrowsSpread
<1> QED
  BY <1>5, <1>6, <1>7, GrownNow DEF Acts

\* The cores of an offer.
LEMMA OfferedGiven ==
  ASSUME NamesOf(Net), OInv, NEW n \in Node, NEW p \in Node, inter[n][p] # <<>>,
         Head(inter[n][p]).type \in Offers
  PROVE  Head(inter[n][p]).cores \subseteq Given
<1>1. Net.inter = inter /\ IsSeq(inter[n][p])
  BY DEF OInv, Owned, Sound, SoundQueue, Net
<1>2. Head(inter[n][p]) \in Range(inter[n][p])
  BY <1>1, RangeTailed
<1> QED
  BY <1>1, <1>2 DEF NamesOf, ProperQueue, Proper

LEMMA SelfChkOffersActs ==
  ASSUME OInv, Names, NEW a \in Agent, SelfChkOffers(a), NEW P, P = Unanswered(a),
         NEW E, E = {}
  PROVE  Acts(a, P, P, E)
<1>1. PICK taken :
        taken = IF Accepts(a) THEN Head(selfopt_offers[a]).cores ELSE {}
  OBVIOUS
<1>2. PICK told, r, c, x :
        /\ c = idag_mask[a]
        /\ x = [type |-> "IDAG_ADD_CORES_DDS", cores |-> taken, agent |-> a]
        /\ told = IF ~ Accepts(a) THEN Net ELSE Post(Net, a, c, x)
        /\ r = AnswerOffers(told, a)
  OBVIOUS
<1>3. Becomes(r)
  BY <1>1, <1>2 DEF SelfChkOffers
<1>4. PICK net : net = Net
  OBVIOUS
<1>5. /\ a \in Node /\ c \in Node /\ a # NotOffered /\ Sound(net)
      /\ net.inter = inter /\ a \notin Controller
  BY <1>2, <1>4, Controlled, ClusterAssumption DEF OInv, Owned, Net
<1>6. \A p \in Unanswered(a) : p \in Node /\ inter[a][p] # <<>>
  BY DEF Unanswered, HeadType
<1>7. Accepts(a) => taken \subseteq Given
  <2> SUFFICES ASSUME Accepts(a) PROVE taken \subseteq Given
    OBVIOUS
  <2>1. PICK offer : offer = Head(selfopt_offers[a]) /\ taken = offer.cores
    BY <1>1
  <2>2. offer \in Range(selfopt_offers[a])
    BY <2>1, RangeTailed DEF Accepts, OInv, Owned, Collecting
  <2>3. Collected(a, offer)
    BY <2>2 DEF OInv, Owned, Collecting
  <2>4. /\ offer.sender \in Node /\ inter[offer.sender][a] # <<>>
        /\ Head(inter[offer.sender][a]).type \in Offers
        /\ Head(inter[offer.sender][a]).cores = taken
    BY <2>1, <2>3 DEF Collected, Fetched, Offers
  <2> QED
    BY <1>5, <2>4, OfferedGiven DEF Names
<1>8. /\ Grows(net, told, a, P, P, E) /\ Sound(told)
      /\ \A p \in Unanswered(a) : told.inter[a][p] # <<>>
  <2>1. CASE ~ Accepts(a)
    BY <1>2, <1>4, <1>5, <1>6, <2>1, GrowsSame
  <2>2. CASE Accepts(a)
    <3>1. Posts(net, told, a, c, x)
      BY <1>2, <1>4, <2>2 DEF Posts
    <3>2. /\ x.type \in Waiting /\ x.type \notin Offers \cup {"REMOVE_APP"}
          /\ Speaks(x) /\ Proper(x, a, c)
      <4>1. /\ x.type = "IDAG_ADD_CORES_DDS" /\ x.agent = a
            /\ x.cores \subseteq Given
        BY <1>2, <1>7, <2>2
      <4> QED
        BY <1>5, <4>1 DEF Waiting, Reports, Offers, Speaks, Proper, Local
    <3>3. Grows(net, told, a, P, P, E)
      BY <1>5, <3>1, <3>2, GrowsPost
    <3>4. Sound(told) /\ Goes(net, told, a, E, 0, E)
      BY <1>5, <3>1, <3>2, GoesPost
    <3>5. ASSUME NEW p \in Unanswered(a) PROVE told.inter[a][p] # <<>>
      BY <1>5, <1>6, <3>4, <3>5 DEF Goes, Carries
    <3> QED
      BY <3>3, <3>4, <3>5
  <2> QED
    BY <2>1, <2>2
<1>9. Replies(told, r, a)
  BY <1>2, <1>5, <1>8, AnswerOffersIs DEF Answers, Sound
<1>10. Grows(told, r, a, P, P, E)
  BY <1>5, <1>8, <1>9, GrowsAnswers
<1>11. Grows(Net, r, a, P, P, E)
  BY <1>4, <1>8, <1>10, GrowsNext
<1> QED
  BY <1>3, <1>11, GrownNow DEF Acts

LEMMA ReqCoresHeeds ==
  ASSUME OInv, NEW n \in Node, ReqCores(n), NEW P, P = {Peer(n)}
  PROVE  Heeds(n, P)
<1>1. Receives(n, "REQ_CORES") /\ IInv /\ Sound(Net)
  BY DEF ReqCores, OInv, Owned
<1>2. PICK p : Hears(n, p, "REQ_CORES") /\ p \in P
  BY <1>1, Heard DEF Hears
<1>3. PICK branch : branch = ReqBranch(n, p, Brings(Head(mail[n]).msg))
  OBVIOUS
<1>4. PICK taken, ack, reject : /\ taken = Taken(n) /\ ack = Send(taken, n, p, Ack)
                                /\ reject = Send(taken, n, p, Reject)
  OBVIOUS
<1>5. Becomes(
        CASE branch \in {"offer", "collect"} -> ack
          [] branch = "reject" -> reject
          [] branch = "stray" -> Pop(reject, n, p)
          [] branch = "nothing offered" -> Pop(ack, n, p)
          [] branch = "crossed" -> Pop(taken, n, p))
  BY <1>2, <1>3, <1>4 DEF ReqCores, Hears
<1>6. /\ branch \in {"stray", "nothing offered", "crossed"} => inter[n][p] # <<>>
      /\ branch \in {"offer", "reject", "stray", "collect", "nothing offered",
                     "crossed"}
  BY <1>3 DEF ReqBranch, HeadType
<1>7. Answering(n, p, ack) /\ Answering(n, p, reject) /\ Answering(n, p, taken)
  BY <1>4 DEF Answering, Ack, Reject, Sends
<1>8. ASSUME NEW net, Answering(n, p, net), Becomes(net) PROVE Heeds(n, P)
  BY <1>1, <1>2, <1>8, HeedsAnswering
<1>9. ASSUME NEW net, Answering(n, p, net), Becomes(Pop(net, n, p)), inter[n][p] # <<>>
      PROVE  Heeds(n, P)
  <2>1. PICK r : Pops(net, r, n, p) /\ Becomes(r)
    BY <1>9 DEF Pops
  <2> QED
    BY <1>1, <1>2, <1>9, <2>1, HeedsEnding
<1>10. CASE branch \in {"offer", "collect", "reject"}
  <2>1. Becomes(ack) \/ Becomes(reject)
    BY <1>5, <1>10
  <2> QED
    BY <1>7, <1>8, <2>1
<1>11. CASE branch \in {"stray", "nothing offered", "crossed"}
  <2>1. \/ Becomes(Pop(reject, n, p)) \/ Becomes(Pop(ack, n, p))
        \/ Becomes(Pop(taken, n, p))
    BY <1>5, <1>11
  <2> QED
    BY <1>6, <1>7, <1>9, <1>11, <2>1
<1> QED
  BY <1>6, <1>10, <1>11

LEMMA AckClearHeeds ==
  ASSUME OInv, NEW n \in Node, AckClear(n) \/ RejectRequest(n),
         NEW P, P = {Peer(n)}
  PROVE  Heeds(n, P)
<1>1. IInv /\ Sound(Net)
  BY DEF OInv, Owned
<1>2. PICK sig \in {"ACK", "REJECT"} : Receives(n, sig)
  BY DEF AckClear, RejectRequest
<1>3. PICK p : Hears(n, p, sig) /\ p \in P
  BY <1>1, <1>2, Heard DEF Hears
<1>4. PICK net : net = Taken(n) /\ Answering(n, p, net)
  BY DEF Answering
<1>5. \/ Becomes(net)
      \/ inter[n][p] # <<>> /\ \E r : Pops(net, r, n, p) /\ Becomes(r)
  <2>1. CASE AckClear(n)
    BY <1>3, <1>4, <2>1 DEF AckClear, Hears, HeadType, Pops
  <2>2. CASE RejectRequest(n)
    BY <1>3, <1>4, <2>2 DEF RejectRequest, Hears, HeadType, Pops
  <2> QED
    BY <2>1, <2>2
<1>6. CASE Becomes(net)
  BY <1>1, <1>3, <1>4, <1>6, HeedsAnswering
<1>7. ASSUME inter[n][p] # <<>>, NEW r, Pops(net, r, n, p), Becomes(r)
      PROVE  Heeds(n, P)
  BY <1>1, <1>3, <1>4, <1>7, HeedsEnding
<1> QED
  BY <1>5, <1>6, <1>7

LEMMA AnswerHeeds ==
  ASSUME OInv, NEW n \in Node, RepOffersNo(n) \/ RejectOffer(n),
         NEW P, P = {Peer(n)}
  PROVE  Heeds(n, P)
<1>1. IInv /\ Sound(Net)
  BY DEF OInv, Owned
<1>2. PICK sig \in {"REP_OFFERS", "REJECT"} : Receives(n, sig)
  BY DEF RepOffersNo, RejectOffer
<1>3. PICK p : Hears(n, p, sig) /\ p \in P
  BY <1>1, <1>2, Heard DEF Hears
<1>4. PICK net, r : /\ Answering(n, p, net) /\ Pops(net, r, n, p) /\ Becomes(r)
  <2>1. CASE RepOffersNo(n)
    BY <1>3, <2>1 DEF RepOffersNo, Hears, Answering, Pops, Sends, Ack
  <2>2. CASE RejectOffer(n)
    BY <1>3, <2>2 DEF RejectOffer, Hears, Answering, Pops
  <2> QED
    BY <2>1, <2>2
<1>5. inter[n][p] # <<>>
  BY <1>3 DEF RepOffersNo, RejectOffer, Hears, HeadType
<1> QED
  BY <1>1, <1>3, <1>4, <1>5, HeedsEnding

LEMMA AckDataHeeds ==
  ASSUME OInv, Names, NEW n \in Node, AckData(n), NEW P, P = {Peer(n)}
  PROVE  /\ Heeds(n, P)
         /\ \A x : Lends(inter[n][Peer(n)], x) => Lends(inter'[n][Peer(n)], x)
<1>1. Receives(n, "ACK") /\ IInv /\ Sound(Net)
  BY DEF AckData, OInv, Owned
<1>2. PICK p : Hears(n, p, "ACK") /\ p \in P /\ p = Peer(n) /\ p \in Node
  BY <1>1, Heard DEF Hears
<1>3. PICK offer, cores, x :
        /\ offer = (HeadType(n, p) = "REP_AGENT_REQ_CORES")
        /\ cores = IF offer THEN Head(inter[n][p]).cores ELSE {}
        /\ x = IF offer THEN [type |-> "AGENT_OFFER_SENT", cores |-> cores]
               ELSE [type |-> "SELFOPT_REQ_CORES"]
  OBVIOUS
<1>4. PICK taken, r : taken = Taken(n) /\ Reheads(taken, r, n, p, x)
  BY DEF Reheads
<1>5. Becomes(r) /\ PeerWaits(n, p)
  BY <1>2, <1>3, <1>4 DEF AckData, Reheads
<1>6. inter[n][p] # <<>>
  BY <1>5 DEF PeerWaits, HeadType
<1>7. Answering(n, p, taken)
  BY <1>4 DEF Answering
<1>8. Sound(taken) /\ taken.inter[n][p] = inter[n][p] /\ mail[n] # <<>>
  BY <1>1, <1>2, <1>7, GrowsAnswering DEF Hears
<1>9. IF offer THEN /\ x.type = "AGENT_OFFER_SENT" /\ x.cores = Head(inter[n][p]).cores
                    /\ Head(inter[n][p]).type = "REP_AGENT_REQ_CORES"
      ELSE x.type = "SELFOPT_REQ_CORES" /\ Head(inter[n][p]).type \notin Offers
  BY <1>3, <1>5, <1>6 DEF PeerWaits, HeadType, Offers
<1>10. /\ Proper(x, n, p)
       /\ x.type \in Offers => \A y \in x.cores : Lends(taken.inter[n][p], y)
  <2>1. offer => Head(inter[n][p]).cores \subseteq Given
    BY <1>2, <1>6, <1>9, OfferedGiven DEF Names, Offers
  <2> QED
    BY <1>6, <1>8, <1>9, <2>1 DEF Proper, Offers, Reports, Lends
<1>11. \A E : Grows(taken, r, n, P, E, E)
  BY <1>2, <1>4, <1>6, <1>8, <1>10, GrowsRehead
<1>12. Heeds(n, P)
  BY <1>4, <1>5, <1>8, <1>11, GrownNow DEF Heeds
<1>13. inter'[n][p] = <<x>> \o Tail(inter[n][p])
  <2>1. /\ OnlyWith(taken, r, n, p) /\ r.mail = taken.mail
        /\ r.inter[n][p] = <<x>> \o Tail(taken.inter[n][p])
    BY SMTT(30), <1>2, <1>4, <1>8, ReheadIs DEF Sound, Reheads
  <2> QED
    BY <1>5, <1>8, <2>1 DEF Becomes
<1>14. inter'[n][p] # <<>> /\ Head(inter'[n][p]) = x
  <2>1. PICK q, t : q = inter[n][p] /\ t = inter'[n][p] /\ IsSeq(q)
                    /\ t = <<x>> \o Tail(q) /\ q # <<>>
    BY <1>1, <1>2, <1>6, <1>13 DEF Sound, SoundQueue, Net
  <2> QED
    BY <2>1, RangeReheaded
<1>15. \A y : Lends(inter[n][p], y) => Lends(inter'[n][p], y)
  BY <1>9, <1>14 DEF Lends, Offers
<1> QED
  BY <1>2, <1>12, <1>15

\* The cores of n go on offer to p.
Puts(n, p, cores) ==
  /\ p # n /\ inter[n][p] = <<>> /\ cores \in SUBSET Candidates(n)
  /\ cores \subseteq Given
  /\ inter'[n][p] # <<>> /\ Head(inter'[n][p]).type = "REP_AGENT_REQ_CORES"
  /\ Head(inter'[n][p]).cores = cores
  /\ \E s : /\ mail'[p] = Append(mail[p], s) /\ s.from = n
            /\ s.msg.sig = "REQ_CORES" /\ s.msg.body = "offers"
  /\ IF n \in Controller
     THEN /\ book' = [book EXCEPT ![n] = B!OfferTo(@, cores, p)]
          /\ my_cores' = my_cores
     ELSE /\ my_cores' = [my_cores EXCEPT ![n] = Mark(@, cores, AnyMark, p)]
          /\ book' = book

LEMMA CandidatesGiven ==
  ASSUME OInv, Names, NEW n \in Node
  PROVE  Candidates(n) \subseteq Given
<1> SUFFICES ASSUME NEW x \in Candidates(n) PROVE x \in Given
  OBVIOUS
<1>1. Has(n, x)
  BY CandidatesHad DEF OInv, Owned
<1> QED
  BY <1>1 DEF Has, Names, Node

LEMMA OfferCoresActs ==
  ASSUME OInv, Names, NEW n \in Node, OfferCores(n), NEW E, E = {}
  PROVE  \E p \in Node : \E cores : Puts(n, p, cores) /\ Acts(n, E, E, {p})
<1>1. /\ waiting[n] # NoSignal /\ data[n] # <<>>
      /\ waiting' = [waiting EXCEPT ![n] = NoSignal]
      /\ data' = [data EXCEPT ![n] = Tail(@)]
      /\ IInv /\ Sound(Net)
  BY DEF OfferCores, OInv, Owned
<1>2. PICK p \in Node : p = waiting[n].from /\ p # n
  BY <1>1, DataCome
<1>3. PICK cores \in SUBSET Candidates(n) :
        /\ HeadType(n, p) = "none"
        /\ Becomes(Post(Net, n, p, [type |-> "REP_AGENT_REQ_CORES",
                                    cores |-> cores]))
        /\ IF n \in Controller
           THEN /\ book' = [book EXCEPT ![n] = B!OfferTo(@, cores, p)]
                /\ my_cores' = my_cores
           ELSE /\ my_cores' = [my_cores EXCEPT ![n] =
                                  Mark(@, cores, AnyMark, p)]
                /\ book' = book
  BY <1>2 DEF OfferCores
<1>4. cores \subseteq Given
  BY CandidatesGiven
<1>5. PICK x, net, r, N : /\ x = [type |-> "REP_AGENT_REQ_CORES", cores |-> cores]
                          /\ net = Net /\ r = Post(net, n, p, x) /\ N = {p}
  OBVIOUS
<1>6. Becomes(r) /\ Posts(net, r, n, p, x) /\ Sound(net)
  BY <1>1, <1>3, <1>5 DEF Posts
<1>7. inter[n][p] = <<>>
  <2>1. HeadType(n, p) \in {"none"}
    BY <1>3
  <2> QED
    BY <1>1, <1>3, StageIs
<1>8. /\ x.type = "REP_AGENT_REQ_CORES" /\ x.cores = cores
      /\ Proper(x, n, p)
  BY <1>4, <1>5 DEF Proper, Offers, Reports
<1>9. Grows(net, r, n, E, E, N)
  BY <1>2, <1>5, <1>6, <1>8, GrowsPost
<1>10. Acts(n, E, E, N)
  BY <1>5, <1>6, <1>9, GrownNow DEF Acts
<1>11. PICK s : s = [from |-> n, msg |-> SignalOf(x)]
  OBVIOUS
<1>12. /\ r.inter[n][p] = Append(net.inter[n][p], x)
       /\ r.mail[p] = IF net.inter[n][p] = <<>> THEN Append(net.mail[p], s)
                      ELSE net.mail[p]
  <2>1. IsNet(net) /\ Posts(net, r, n, p, x)
    BY <1>6 DEF Sound
  <2> QED
    BY <1>11, <2>1, PostIs
<1>13. /\ inter'[n][p] = Append(<<>>, x) /\ mail'[p] = Append(mail[p], s)
  BY <1>5, <1>6, <1>7, <1>12 DEF Becomes, Net
<1>14. inter'[n][p] # <<>> /\ Head(inter'[n][p]) = x
  BY <1>13
<1>15. s.from = n /\ s.msg.sig = "REQ_CORES" /\ s.msg.body = "offers"
  BY <1>8, <1>11 DEF SignalOf
<1>16. Puts(n, p, cores)
  BY <1>2, <1>3, <1>4, <1>7, <1>8, <1>13, <1>14, <1>15 DEF Puts
<1> QED
  BY <1>5, <1>10, <1>16

LEMMA CollectOfferActs ==
  ASSUME OInv, NEW n \in Node, CollectOffer(n), NEW P, P = {waiting[n].from},
         NEW E, E = {}
  PROVE  Acts(n, P, E, E) /\ \A x : ~ Lends(inter[n][waiting[n].from], x)
<1>1. Sound(Net) /\ IInv /\ waiting[n] # NoSignal /\ data[n] # <<>>
      /\ waiting' = [waiting EXCEPT ![n] = NoSignal]
      /\ data' = [data EXCEPT ![n] = Tail(@)]
  BY DEF CollectOffer, OInv, Owned
<1>2. PICK p \in Node : p = waiting[n].from /\ p # n
  BY <1>1, DataCome
<1>3. PICK x, net, r : /\ x = [type |-> "REP_AGENT_OFFER_PENDING"]
                       /\ net = Net /\ Reheads(net, r, n, p, x)
  BY DEF Reheads
<1>4. HeadType(n, p) = "SELFOPT_REQ_CORES" /\ Becomes(r)
  BY <1>2, <1>3 DEF CollectOffer, Reheads
<1>5. /\ inter[n][p] # <<>> /\ net.inter = inter /\ Sound(net)
      /\ Head(inter[n][p]).type = "SELFOPT_REQ_CORES"
  BY <1>1, <1>3, <1>4 DEF HeadType, Net
<1>6. Proper(x, n, p) /\ x.type \notin Offers
  BY <1>3 DEF Proper, Offers, Reports
<1>7. Grows(net, r, n, P, E, E)
  BY <1>2, <1>3, <1>5, <1>6, GrowsRehead
<1> QED
  BY <1>2, <1>3, <1>4, <1>5, <1>7, GrownNow DEF Acts, Lends, Offers

LEMMA RepOffersYesHeeds ==
  ASSUME WInv, Names, NEW n \in Node, RepOffersYes(n), NEW P, P = {Peer(n)}
  PROVE  Heeds(n, P)
<1>1. Receives(n, "REP_OFFERS") /\ IInv /\ Sound(Net) /\ OInv
  BY DEF RepOffersYes, OInv, Owned, WInv
<1>2. PICK p : Hears(n, p, "REP_OFFERS")
  BY <1>1, Heard
<1>3. /\ HeadType(n, p) = "AGENT_OFFER_SENT" /\ p \in Node /\ p = Peer(n)
      /\ inter[n][p] # <<>> /\ p \in P /\ mail[n] # <<>>
      /\ Head(inter[n][p]).type = "AGENT_OFFER_SENT"
  BY <1>2 DEF RepOffersYes, Hears, HeadType
<1>4. PICK taken, acked, cores : /\ taken = Taken(n)
                                 /\ acked = Send(taken, n, p, Ack)
                                 /\ cores = Head(inter[n][p]).cores
  OBVIOUS
<1>5. Answering(n, p, acked)
  BY <1>4 DEF Answering, Ack, Sends
<1>6. /\ \A E : Grows(taken, acked, n, P, E, E)
      /\ Sound(acked) /\ acked.inter[n][p] # <<>>
  BY <1>1, <1>2, <1>3, <1>4, <1>5, GrowsAnswering
<1>7. CASE n \in Controller
  <2>1. PICK r : Pops(acked, r, n, p) /\ Becomes(r)
    BY <1>3, <1>4, <1>7 DEF RepOffersYes, Pops
  <2> QED
    BY <1>1, <1>2, <1>3, <1>5, <2>1, HeedsEnding
<1>8. CASE n \notin Controller
  <2>1. PICK x, c : /\ x = [type |-> "IDAG_REM_CORES_DDS", cores |-> cores,
                            old |-> n, new |-> p]
                    /\ c = idag_mask[n]
    OBVIOUS
  <2>2. PICK posted, r : /\ posted = Post(acked, n, c, x)
                         /\ r = Pop(posted, n, p)
    OBVIOUS
  <2>3. Becomes(r)
    BY <1>3, <1>4, <1>8, <2>1, <2>2 DEF RepOffersYes
  <2>4. c \in Node
    BY <1>8, <2>1, Controlled DEF Node
  <2>5. p \in Agent /\ cores \subseteq Given
    <3>1. PICK sig : sig = "REP_OFFERS"
      OBVIOUS
    <3>2. /\ sig # "APP_TERMINATED" /\ Receives(n, sig)
          /\ HeadType(n, Peer(n)) \in Offers
      BY <1>1, <1>3, <3>1 DEF Offers
    <3>3. p \in Agent
      BY <1>3, <1>4, <3>2, AnsweredOffer
    <3>4. cores \subseteq Given
      BY <1>1, <1>3, <1>4, OfferedGiven DEF Names, Offers
    <3> QED
      BY <3>3, <3>4
  <2>6. /\ x.type \in Waiting /\ x.type \notin Offers \cup {"REMOVE_APP"}
        /\ Speaks(x) /\ Proper(x, n, c)
    <3>1. /\ x.type = "IDAG_REM_CORES_DDS" /\ x.new = p /\ x.cores = cores
          /\ p # NotOffered
      BY <1>3, <2>1, ClusterAssumption
    <3> QED
      BY <1>8, <2>5, <3>1 DEF Waiting, Reports, Offers, Speaks, Proper, Local
  <2>7. Posts(acked, posted, n, c, x) /\ Pops(posted, r, n, p)
    BY <2>2 DEF Posts, Pops
  <2>8. ASSUME NEW E, E = {} PROVE Grows(taken, r, n, P, E, E)
    <3>1. Grows(acked, posted, n, P, E, E)
      BY <1>6, <2>4, <2>6, <2>7, GrowsPost
    <3>2. Sound(posted) /\ Goes(acked, posted, n, E, 0, E)
      BY <1>6, <2>4, <2>6, <2>7, GoesPost
    <3>3. posted.inter[n][p] # <<>>
      BY <1>3, <1>6, <2>8, <3>2 DEF Goes, Carries
    <3>4. Grows(posted, r, n, P, E, E)
      BY <1>3, <2>7, <3>2, <3>3, GrowsPop
    <3> QED
      BY <1>6, <3>1, <3>4, GrowsNext
  <2> QED
    BY <1>3, <1>4, <2>3, <2>8, GrownNow DEF Heeds
<1> QED
  BY <1>7, <1>8

\* A controller acknowledges a report, and passes it on or not.
Honest(x) ==
  /\ x.cores \subseteq Given
  /\ x.type \in {"IDAG_ADD_CORES_DDS", "REMOVE_APP"} => x.agent \in Agent
  /\ x.type = "IDAG_REM_CORES_DDS" => x.new \in Agent

LEMMA GrowsForward ==
  ASSUME NEW net, Sound(net), NEW c \in Controller, NEW x, Passes(x), Honest(x),
         NEW r, Forwards(net, r, c, x), NEW P, NEW R, NEW N
  PROVE  Grows(net, r, c, P, R, N)
<1> DEFINE others == {d \in Controller \ {c} : InCluster(d, x.cores) # {}}
<1>1. PICK items : items = [d \in others |->
                              [x EXCEPT !.cores = InCluster(d, x.cores)]]
  OBVIOUS
<1>2. PostsAll(net, r, c, items)
  BY <1>1 DEF Forwards, Forward, PostsAll
<1>3. ASSUME NEW d \in DOMAIN items
      PROVE  items[d].type \in Waiting /\ Proper(items[d], c, d)
  <2>1. d \in others
    BY <1>1
  <2>2. PICK cores : cores = InCluster(d, x.cores)
    OBVIOUS
  <2>3. PICK y : y = [x EXCEPT !.cores = cores]
    OBVIOUS
  <2>4. items[d] = y
    BY <1>1, <2>1, <2>2, <2>3
  <2>5. y.type = x.type /\ x.type \in Reports /\ y.cores = cores
    BY <2>3 DEF Passes
  <2>6. /\ x.type \in {"IDAG_ADD_CORES_DDS", "REMOVE_APP"} => y.agent = x.agent
        /\ x.type = "IDAG_REM_CORES_DDS" => y.new = x.new
    BY <2>3
  <2>7. Local(c, d, cores)
    BY <2>2 DEF InCluster, Local, Honest
  <2> QED
    BY <2>4, <2>5, <2>6, <2>7 DEF Waiting, Proper, Honest, Reports, Offers
<1>4. c \in Node
  BY DEF Node
<1> QED
  BY <1>2, <1>3, <1>4, GrowsSpread

LEMMA GrowsReport ==
  ASSUME NEW net, Sound(net), NEW c \in Controller, NEW p \in Node, NEW acked,
         Sends(net, acked, c, p, Ack), NEW x, Passes(x), NEW r,
         r = acked \/ (Honest(x) /\ Forwards(acked, r, c, x)), NEW P, NEW R, NEW N
  PROVE  Grows(net, r, c, P, R, N)
<1>1. PICK s, E : s = Ack /\ E = {}
  OBVIOUS
<1>2. /\ c \in Node /\ Says(s) /\ s.sig \notin {"FINISH", "REP_OFFERS"}
      /\ Sends(net, acked, c, p, s) /\ Named(s, c, p)
  BY <1>1 DEF Node, Says, Ack, Named
<1>3. Grows(net, acked, c, P, R, N)
  BY <1>2, GrowsSend
<1>4. Sound(acked) /\ Goes(net, acked, c, E, 0, {})
  BY <1>2, GoesSend
<1>5. ASSUME Honest(x), Forwards(acked, r, c, x) PROVE Grows(net, r, c, P, R, N)
  BY <1>3, <1>4, <1>5, GrowsForward, GrowsNext
<1> QED
  BY <1>3, <1>5

LEMMA BookHeeds ==
  ASSUME OInv, NEW c \in Controller, NEW p, NEW sig, Hears(c, p, sig), NEW acked,
         Sends(Taken(c), acked, c, p, Ack), NEW x, Passes(x), NEW r,
         r = acked \/ (Honest(x) /\ Forwards(acked, r, c, x)), Becomes(r), NEW P
  PROVE  Heeds(c, P)
<1>1. /\ c \in Node /\ Shaped /\ Sound(Net) /\ mail[c] # <<>> /\ p \in Node
  BY DEF OInv, Owned, IInv, Node, Hears
<1>2. PICK net : net = Taken(c)
  OBVIOUS
<1>3. Sound(net)
  BY <1>1, <1>2, TakenSound
<1>4. \A E : Grows(net, r, c, P, E, E)
  BY <1>1, <1>2, <1>3, GrowsReport
<1> QED
  BY <1>1, <1>2, <1>4, GrownNow DEF Heeds

\* What a controller hears names cores of applications, and of its cluster if
\* another controller says it.
LEMMA HeardNames ==
  ASSUME OInv, Names, NEW n \in Node, mail[n] # <<>>
  PROVE  Named(Head(mail[n]).msg, Peer(n), n)
BY TakenNames DEF OInv, Owned, Names, Peer

LEMMA AddCoresDDSHeeds ==
  ASSUME OInv, Names, NEW c \in Controller, AddCoresDDS(c), NEW P
  PROVE  Heeds(c, P)
<1>1. Receives(c, "ADD_CORES_DDS") /\ c \in Node
  BY DEF AddCoresDDS, Node
<1>2. PICK p : Hears(c, p, "ADD_CORES_DDS") /\ p = Peer(c) /\ p \in Node
  BY <1>1, Heard DEF OInv, Hears
<1>3. PICK s : s = Head(mail[c]).msg
  OBVIOUS
<1>4. p # NotOffered /\ s.cores \subseteq Given
  BY <1>1, <1>2, <1>3, HeardNames, ClusterAssumption DEF Hears, Named, Local
<1>5. PICK x : x = [type |-> "IDAG_ADD_CORES_DDS", cores |-> s.cores, agent |-> p]
  OBVIOUS
<1>6. Passes(x)
  BY <1>4, <1>5 DEF Passes, Speaks, Reports, Offers
<1>7. PICK acked : Sends(Taken(c), acked, c, p, Ack)
  BY DEF Sends
<1>8. p \notin Controller => Honest(x)
  BY <1>2, <1>4, <1>5 DEF Honest, Node
<1>9. PICK r : /\ r = acked \/ (Honest(x) /\ Forwards(acked, r, c, x))
               /\ Becomes(r)
  <2>1. \/ Becomes(acked)
        \/ p \notin Controller /\ Becomes(Forward(acked, c, x))
    BY <1>2, <1>3, <1>5, <1>7 DEF AddCoresDDS, Sends
  <2> QED
    BY <1>8, <2>1 DEF Forwards
<1> QED
  BY <1>2, <1>6, <1>7, <1>9, BookHeeds

LEMMA RemCoresDDSHeeds ==
  ASSUME OInv, Names, NEW c \in Controller, RemCoresDDS(c), NEW P
  PROVE  Heeds(c, P)
<1>1. Receives(c, "REM_CORES_DDS") /\ c \in Node
  BY DEF RemCoresDDS, Node
<1>2. PICK p : Hears(c, p, "REM_CORES_DDS") /\ p = Peer(c) /\ p \in Node
  BY <1>1, Heard DEF OInv, Hears
<1>3. PICK s : s = Head(mail[c]).msg
  OBVIOUS
<1>4. s.new \in Agent /\ s.new # NotOffered /\ s.cores \subseteq Given
  BY <1>1, <1>2, <1>3, HeardNames, ClusterAssumption DEF Hears, Named, Local, Node
<1>5. PICK x : x = [type |-> "IDAG_REM_CORES_DDS", cores |-> s.cores,
                    old |-> p, new |-> s.new]
  OBVIOUS
<1>6. Passes(x) /\ Honest(x)
  BY <1>4, <1>5 DEF Passes, Speaks, Reports, Offers, Honest
<1>7. PICK acked : Sends(Taken(c), acked, c, p, Ack)
  BY DEF Sends
<1>8. PICK r : (r = acked \/ Forwards(acked, r, c, x)) /\ Becomes(r)
  <2>1. Becomes(acked) \/ Becomes(Forward(acked, c, x))
    BY <1>2, <1>3, <1>5, <1>7 DEF RemCoresDDS, Sends
  <2> QED
    BY <2>1 DEF Forwards
<1> QED
  BY <1>2, <1>6, <1>7, <1>8, BookHeeds

LEMMA FinishHeeds ==
  ASSUME OInv, Names, NEW c \in Controller, Finish(c), NEW P, P = {Peer(c)}
  PROVE  Heeds(c, P) /\ Peer(c) \in Node
<1>1. Receives(c, "FINISH") /\ c \in Node
  BY DEF Finish, Node
<1>2. PICK p : /\ Hears(c, p, "FINISH") /\ p = Peer(c) /\ p \in Node
               /\ mail[c] # <<>> /\ p \in P
  BY <1>1, Heard DEF OInv, Hears
<1>3. Shaped /\ Sound(Net)
  BY DEF OInv, Owned, IInv
<1>4. PICK cores, taken : cores = Head(mail[c]).msg.cores /\ taken = Taken(c)
  OBVIOUS
<1>5. Sound(taken)
  BY <1>1, <1>2, <1>3, <1>4, TakenSound
<1>6. PICK base, acked :
        /\ base = IF p \notin Controller
                  THEN [taken EXCEPT !.inter[c][p] = <<>>] ELSE taken
        /\ acked = Send(base, c, p, Ack)
  OBVIOUS
<1>7. (\A E : Grows(taken, base, c, P, E, E)) /\ Sound(base)
  <2>1. CASE base = taken
    BY <1>5, <2>1, GrowsSame
  <2>2. CASE base = [taken EXCEPT !.inter[c][p] = <<>>]
    <3>1. Keeps(taken, base, c, p, <<>>)
      BY <2>2 DEF Keeps
    <3>2. \A E : Grows(taken, base, c, P, E, E)
      BY <1>1, <1>2, <1>5, <3>1, GrowsClear
    <3>3. Sound(base)
      BY <1>1, <1>2, <1>5, <3>1, GoesClear
    <3> QED
      BY <3>2, <3>3
  <2> QED
    BY <1>6, <2>1, <2>2
<1>8. PICK x : x = [type |-> "REMOVE_APP", cores |-> cores, agent |-> p]
  OBVIOUS
<1>9. PICK r : /\ r = IF p \notin Controller THEN Forward(acked, c, x) ELSE acked
               /\ Becomes(r)
  BY <1>2, <1>4, <1>6, <1>8 DEF Finish
<1>10. Passes(x)
  BY <1>8 DEF Passes, Reports, Speaks, Offers
<1>11. p \notin Controller => Honest(x)
  <2>1. cores \subseteq Given
    BY <1>1, <1>2, <1>4, HeardNames DEF Hears, Named, Local
  <2> QED
    BY <1>2, <1>8, <2>1 DEF Honest, Node
<1>12. Sends(base, acked, c, p, Ack)
  BY <1>6 DEF Sends
<1>13. \A E : Grows(base, r, c, P, E, E)
  BY <1>2, <1>7, <1>9, <1>10, <1>11, <1>12, GrowsReport DEF Forwards
<1>14. \A E : Grows(taken, r, c, P, E, E)
  BY <1>7, <1>13, GrowsNext
<1> QED
  BY <1>2, <1>4, <1>9, <1>14, GrownNow DEF Heeds

LEMMA AppTerminatedHeeds ==
  ASSUME NEW c \in Controller, AppTerminated(c), NEW P
  PROVE  Heeds(c, P)
<1>1. Becomes(Taken(c)) /\ mail[c] # <<>>
  BY DEF AppTerminated, Receives
<1>2. PICK r : r = Taken(c)
  OBVIOUS
<1> QED
  BY <1>1, <1>2, GrowsSame, GrownNow DEF Heeds

\* An end that core 0 is told of changes nothing else.
LEMMA GrowsTold ==
  ASSUME NEW net, Sound(net), NEW a \in Agent, NEW s, NEW r,
         r = TellZero(net, a, s), NEW P, NEW R, NEW N
  PROVE  Grows(net, r, a, P, R, N)
<1>1. PICK m : m = [sig |-> "APP_TERMINATED"]
  OBVIOUS
<1>2. r = net \/ Sends(net, r, a, Zero, m)
  BY <1>1 DEF TellZero, Sends
<1>3. m.sig # "REP_OFFERS" /\ Named(m, a, Zero) /\ a \in Node /\ Zero \in Node
  BY <1>1, ClusterAssumption DEF Named, Node
<1>4. Sends(net, r, a, Zero, m) => Grows(net, r, a, P, R, N)
  BY <1>3, GrowsSend
<1> QED
  BY <1>2, <1>4, GrowsSame

LEMMA AgentZombieActs ==
  ASSUME OInv, NEW a \in Agent, AgentZombie(a), NEW E, E = {}
  PROVE  Acts(a, E, E, E)
<1>1. PICK s, r, net : net = Net /\ r = TellZero(net, a, s) /\ Becomes(r)
  BY DEF AgentZombie
<1>2. Sound(net)
  BY <1>1 DEF OInv, Owned
<1>3. Grows(net, r, a, E, E, E)
  BY <1>1, <1>2, GrowsTold
<1> QED
  BY <1>1, <1>3, GrownNow DEF Acts

LEMMA AgentEndsActs ==
  ASSUME OInv, Names, NEW a \in Agent, AgentEnds(a), NEW E, E = {}
  PROVE  Acts(a, E, E, E)
<1>1. PICK s, c, x, net, told, r :
        /\ net = Net /\ c = idag_mask[a]
        /\ x = [type |-> "REMOVE_APP", cores |-> Cores(a), agent |-> a]
        /\ told = Post(net, a, c, x) /\ r = TellZero(told, a, s) /\ Becomes(r)
  BY DEF AgentEnds
<1>2. Sound(net) /\ a \in Node /\ c \in Node /\ a \notin Controller
  BY <1>1, Controlled DEF OInv, Owned
<1>3. /\ x.type = "REMOVE_APP" /\ x.agent = a /\ x.cores = Cores(a)
      /\ Cores(a) \subseteq Given
  BY <1>1 DEF Names, Cores
<1>4. /\ x.type \in Waiting /\ x.type \notin Offers
      /\ Proper(x, a, c) /\ Speaks(x)
  BY <1>2, <1>3 DEF Waiting, Reports, Offers, Proper, Local, Speaks
<1>5. Posts(net, told, a, c, x)
  BY <1>1 DEF Posts
<1>6. Grows(net, told, a, E, E, E)
  BY <1>2, <1>4, <1>5, GrowsPost
<1>7. PICK N : \A y \in x.cores : <<a, c, Len(net.inter[a][c]) + 1, y>> \in N
  <2>1. PICK k : k = Len(net.inter[a][c]) + 1
    OBVIOUS
  <2>2. PICK N : N = {<<a, c, k, y>> : y \in x.cores}
    OBVIOUS
  <2> QED
    BY <2>1, <2>2
<1>8. Sound(told)
  BY <1>2, <1>4, <1>5, <1>7, GoesPost
<1>9. Grows(told, r, a, E, E, E)
  BY <1>1, <1>8, GrowsTold
<1> QED
  BY <1>1, <1>6, <1>9, GrowsNext, GrownNow DEF Acts

-----------------------------------------------------------------------------
(* What is named stays so, and offers stay at their heads.                   *)

LEMMA NamesGrow ==
  ASSUME OInv, NamesOf(Net), NEW n \in Node, NEW P, NEW R, NEW N,
         Acts(n, P, R, N) \/ Heeds(n, P)
  PROVE  NamesOf(Net)'
<1>1. CASE Acts(n, P, R, N)
  BY <1>1 DEF Acts, Grows
<1>2. CASE Heeds(n, P)
  <2>1. PICK E : E = {}
    OBVIOUS
  <2>2. Grows(Taken(n), Net', n, P, E, E) /\ mail[n] # <<>>
    BY <1>2, <2>1 DEF Heeds
  <2>3. NamesOf(Taken(n))
    BY <2>2, TakenNames DEF OInv, Owned
  <2> QED
    BY <2>2, <2>3 DEF Grows
<1> QED
  BY <1>1, <1>2

\* What a offers it goes on to offer.
LentOn(a) ==
  \A p \in Agent : \A x : Lends(inter[a][p], x) => Lends(inter'[a][p], x)

LEMMA Lending ==
  ASSUME OInv, NEW n \in Node, NEW P, NEW R, NEW N,
         Acts(n, P, R, N) \/ Heeds(n, P), NEW a \in Agent,
         a = n => \A p \in P : \A x :
                    Lends(inter[n][p], x) => Lends(inter'[n][p], x)
  PROVE  LentOn(a)
<1>1. \E M : \A m, p \in Node :
        Upheld(inter[m][p], inter'[m][p], ~ (m = n /\ p \in P),
               m = n /\ p \in M)
  <2>1. CASE Acts(n, P, R, N)
    BY <2>1 DEF Acts, Grows, Net
  <2>2. CASE Heeds(n, P)
    <3>1. PICK E : E = {}
      OBVIOUS
    <3>2. Grows(Taken(n), Net', n, P, E, E) /\ mail[n] # <<>>
      BY <2>2, <3>1 DEF Heeds
    <3>3. Taken(n).inter = inter
      BY TakenIs DEF OInv, IInv
    <3> QED
      BY <3>2, <3>3 DEF Grows, Net
  <2> QED
    BY <2>1, <2>2
<1>2. ASSUME NEW p \in Agent, NEW x, Lends(inter[a][p], x)
      PROVE  Lends(inter'[a][p], x)
  <2>1. CASE a = n /\ p \in P
    BY <1>2, <2>1
  <2>2. CASE ~ (a = n /\ p \in P)
    BY <1>1, <1>2, <2>2 DEF Upheld, Lends, Node
  <2> QED
    BY <2>1, <2>2
<1> QED
  BY <1>2 DEF LentOn

\* Nothing new is on offer, but to those the step is about.
LEMMA NotLending ==
  ASSUME OInv, NEW n \in Node, NEW P, NEW R, NEW N,
         Acts(n, P, R, N) \/ Heeds(n, P), NEW m \in Node, NEW p \in Node,
         Heeds(n, P) \/ ~ (m = n /\ p \in N), NEW x, Lends(inter'[m][p], x)
  PROVE  Lends(inter[m][p], x)
<1>1. CASE Heeds(n, P)
  <2>1. PICK E : E = {}
    OBVIOUS
  <2>2. Grows(Taken(n), Net', n, P, E, E) /\ mail[n] # <<>>
    BY <1>1, <2>1 DEF Heeds
  <2>3. Taken(n).inter = inter
    BY TakenIs DEF OInv, IInv
  <2> QED
    BY <2>1, <2>2, <2>3 DEF Grows, Net, Upheld
<1>2. CASE ~ Heeds(n, P)
  BY <1>2 DEF Acts, Grows, Net, Upheld
<1> QED
  BY <1>1, <1>2

-----------------------------------------------------------------------------
(* The course of a manager's program and its rounds.                         *)

Ranges ==
  /\ state \in [Agent -> AgentState]
  /\ pending_state \in [Agent -> AgentState \cup {"NO_PENDING_STATE"}]
  /\ app_state \in [Agent -> {"RUNNING", "APP_TERMINATED", "NO_APP"}]
  /\ timer \in [Agent -> BOOLEAN] /\ asking \in [Agent -> BOOLEAN]
  /\ leaving \in [Agent -> BOOLEAN]
  /\ DOMAIN rounds = Agent /\ DOMAIN my_cores_count = Agent

\* A round starts only where one is left, and without an application a manager
\* is at rest, or astray.
Paced(a) ==
  /\ rounds[a] \in 0..MaxRounds[a]
  /\ state[a] = "AGENT_SELF_OPT" => rounds[a] < MaxRounds[a]
  /\ state[a] = "IDLE_AGENT" /\ timer[a] => rounds[a] < MaxRounds[a]
  /\ app_state[a] = "NO_APP" => state[a] \in InitCoreStates \cup {"IDLE_CORE"}
Pacing == Ranges /\ \A a \in Agent : Paced(a)

LEMMA ProgramPaces ==
  ASSUME Pacing, Courses, NEW a \in Agent, Program(a)
  PROVE  Pacing'
<1> USE DEF Pacing, Ranges, Paced, AgentState, InitCoreStates
<1>0. MaxRounds[a] \in Nat
  BY StartAssumption
<1>1. CASE SelfOptStart(a)
  <2>1. CASE app_state[a] = "APP_TERMINATED"
    BY <1>0, <1>1, <2>1 DEF SelfOptStart
  <2>2. CASE app_state[a] # "APP_TERMINATED"
    <3>1. /\ state' = [state EXCEPT ![a] = "IDLE_AGENT_WAITING_OFF"]
          /\ asking' = [asking EXCEPT ![a] = TRUE]
          /\ rounds' = [rounds EXCEPT ![a] = @ + 1]
          /\ state[a] = "AGENT_SELF_OPT"
          /\ UNCHANGED <<pending_state, app_state, timer, leaving, my_cores_count>>
      BY <1>1, <2>2 DEF SelfOptStart
    <3>2. rounds[a] \in 0..MaxRounds[a] /\ rounds[a] + 1 \in 0..MaxRounds[a]
      BY <1>0, <3>1
    <3>3. app_state[a] # "NO_APP"
      BY <3>1
    <3> QED
      BY <1>0, <3>1, <3>2, <3>3
  <2> QED
    BY <2>1, <2>2
<1>2. CASE DiscoveryDone(a)
  BY <1>0, <1>2 DEF DiscoveryDone, Courses, Course
<1>3. CASE Timer(a)
  <2>1. PICK s, w : /\ s = TimerState(state[a])
                    /\ w = TimerPending(state[a], pending_state[a])
    OBVIOUS
  <2>2. /\ state' = [state EXCEPT ![a] = s]
        /\ pending_state' = [pending_state EXCEPT ![a] = w]
        /\ timer[a] /\ timer' = [timer EXCEPT ![a] = FALSE]
        /\ UNCHANGED <<app_state, asking, leaving, rounds, my_cores_count>>
    BY <1>3, <2>1 DEF Timer
  <2>3. /\ s \in AgentState /\ w \in AgentState \cup {"NO_PENDING_STATE"}
        /\ s = "AGENT_SELF_OPT" => state[a] \in {"AGENT_SELF_OPT", "IDLE_AGENT"}
        /\ state[a] \in InitCoreStates \cup {"IDLE_CORE"} =>
             s \in InitCoreStates \cup {"IDLE_CORE"}
    BY <2>1 DEF TimerState, TimerPending
  <2>4. s = "AGENT_SELF_OPT" => rounds[a] < MaxRounds[a]
    BY <2>2, <2>3
  <2> QED
    BY <1>0, <2>2, <2>3, <2>4
<1>4. CASE SelfChkOffers(a)
  <2>1. PICK s, t : /\ state' = [state EXCEPT ![a] = s]
                    /\ timer' = [timer EXCEPT ![a] = t]
                    /\ s \in {"AGENT_ENDING", "IDLE_AGENT"} /\ t \in BOOLEAN
                    /\ s = "IDLE_AGENT" => (t => rounds[a] < MaxRounds[a])
    <3>1. CASE app_state[a] = "APP_TERMINATED"
      <4>1. timer' = [timer EXCEPT ![a] = timer[a]]
        BY <1>4, <3>1 DEF SelfChkOffers
      <4> QED
        BY <1>4, <3>1, <4>1 DEF SelfChkOffers
    <3>2. CASE app_state[a] # "APP_TERMINATED"
      <4>1. PICK armed \in {FALSE} \cup {rounds[a] < MaxRounds[a]} :
              timer' = [timer EXCEPT ![a] = armed]
        BY <1>4, <3>2 DEF SelfChkOffers
      <4>2. armed = FALSE \/ armed = (rounds[a] < MaxRounds[a])
        OBVIOUS
      <4>3. armed \in BOOLEAN /\ (armed => rounds[a] < MaxRounds[a])
        <5>1. (rounds[a] < MaxRounds[a]) \in BOOLEAN
          OBVIOUS
        <5>2. CASE armed = FALSE
          BY <5>2
        <5>3. CASE armed = (rounds[a] < MaxRounds[a])
          BY <5>1, <5>3, Zenon
        <5> QED
          BY <4>2, <5>2, <5>3
      <4>4. state' = [state EXCEPT ![a] = "IDLE_AGENT"]
        BY <1>4, <3>2 DEF SelfChkOffers
      <4> QED
        BY <4>1, <4>3, <4>4
    <3> QED
      BY <3>1, <3>2
  <2>2. UNCHANGED <<pending_state, app_state, asking, leaving, rounds>>
        /\ state[a] = "AGENT_SELF_CHK_OFFERS" /\ DOMAIN my_cores_count' = Agent
    BY <1>4 DEF SelfChkOffers
  <2> QED
    BY <1>0, <2>1, <2>2
<1>5. CASE LeaveAtTop(a)
  BY <1>0, <1>5 DEF LeaveAtTop
<1>6. CASE Leave(a)
  BY <1>0, <1>6 DEF Leave, Courses, Course
<1>7. CASE AgentZombie(a)
  BY <1>0, <1>7 DEF AgentZombie
<1>8. CASE AgentEnds(a)
  BY <1>0, <1>8 DEF AgentEnds
<1>9. CASE InitManChkOffers(a)
  <2>1. PICK s, w : /\ state' = [state EXCEPT ![a] = s]
                    /\ pending_state' = [pending_state EXCEPT ![a] = w]
                    /\ s \in {"AGENT_ENDING", "INIT_MANAGER_SEND_OFFERS"}
                    /\ app_state[a] = "NO_APP" => s = "INIT_MANAGER_SEND_OFFERS"
                    /\ w \in AgentState \cup {"NO_PENDING_STATE"}
    <3>1. CASE app_state[a] = "APP_TERMINATED"
      BY <1>9, <3>1 DEF InitManChkOffers
    <3>2. CASE app_state[a] # "APP_TERMINATED"
      <4>1. pending_state' = [pending_state EXCEPT ![a] = pending_state[a]]
        BY <1>9, <3>2 DEF InitManChkOffers
      <4> QED
        BY <1>9, <3>2, <4>1 DEF InitManChkOffers
    <3> QED
      BY <3>1, <3>2
  <2>2. UNCHANGED <<app_state, asking, leaving, timer, rounds, my_cores_count>>
    BY <1>9 DEF InitManChkOffers
  <2> QED
    BY <1>0, <2>1, <2>2
<1> QED
  BY <1>1, <1>2, <1>3, <1>4, <1>5, <1>6, <1>7, <1>8, <1>9 DEF Program

\* An answer may wake a manager, which has its application still.
LEMMA AnswerPaces ==
  ASSUME Pacing, NEW n \in Node, DOMAIN my_cores_count' = Agent,
         RepOffersNo(n) \/ RepOffersYes(n) \/ RejectOffer(n)
  PROVE  Pacing'
<1> USE DEF Pacing, Ranges, Paced, AgentState, InitCoreStates
<1>1. UNCHANGED <<app_state, timer, asking, leaving, rounds>>
  BY Awakening
<1>2. CASE UNCHANGED <<state, pending_state>>
  BY <1>1, <1>2
<1>3. CASE Awakes(n)
  <2>1. PICK s : state' = [state EXCEPT ![n] = s] /\ Wakes(n, s)
    BY <1>3 DEF Awakes
  <2>2. PICK w : pending_state' = [pending_state EXCEPT ![n] = w] /\ WakesLater(n, w)
    <3>1. CASE pending_state' = pending_state
      <4>1. pending_state' = [pending_state EXCEPT ![n] = pending_state[n]]
        BY <3>1
      <4> QED
        BY <4>1 DEF WakesLater
    <3> QED
      BY <1>3, <3>1 DEF Awakes
  <2>3. n \in Agent
    BY <1>3 DEF Awakes
  <2>4. s \in AgentState /\ w \in AgentState \cup {"NO_PENDING_STATE"}
    BY <2>1, <2>2, <2>3 DEF Wakes, WakesLater
  <2>5. s = state[n] \/ (s = "AGENT_ENDING" /\ app_state[n] # "NO_APP")
    BY <2>1, <2>3 DEF Wakes
  <2> QED
    BY <1>1, <2>1, <2>2, <2>3, <2>4, <2>5
<1> QED
  BY <1>2, <1>3, Awakening

-----------------------------------------------------------------------------
(* The list of a manager.                                                    *)

OnceIn(l) == \A i, j \in DOMAIN l : l[i].core = l[j].core => i = j
Marks(l, queues) ==
  \A i \in DOMAIN l : l[i].offered_to # NotOffered =>
    l[i].offered_to \in Agent /\ Lends(queues[l[i].offered_to], l[i].core)
Tally(l, a, count) == l # <<>> => l[1].core = a /\ count = Len(l)

\* No core is twice in a list, what is marked is on offer to whom the mark
\* says, the manager comes first and the count is right.
Held(a) ==
  /\ OnceIn(my_cores[a]) /\ Marks(my_cores[a], inter[a])
  /\ Tally(my_cores[a], a, my_cores_count[a])
  /\ app_state[a] = "NO_APP" => my_cores[a] = <<>>

LEMMA HeldStays ==
  ASSUME NEW a \in Agent, Held(a), LentOn(a), my_cores'[a] = my_cores[a],
         my_cores_count'[a] = my_cores_count[a], app_state'[a] = app_state[a]
  PROVE  Held(a)'
BY DEF Held, Marks, LentOn

\* A list of as many entries, or a longer or shorter one.
LEMMA Emptied ==
  ASSUME NEW l, Listing(l)
  PROVE  (l = <<>> <=> DOMAIN l = {}) /\ DOMAIN l = 1..Len(l) /\ Len(l) \in Nat
<1>1. IsSeq(l)
  BY DEF Listing
<1> QED
  BY <1>1 DEF IsSeq

LEMMA MarkedList ==
  ASSUME NEW l, Listing(l), NEW cores, NEW old, NEW m, NEW r,
         r = Mark(l, cores, old, m)
  PROVE  /\ Len(r) = Len(l) /\ (r = <<>> <=> l = <<>>)
         /\ OnceIn(l) => OnceIn(r)
         /\ \A a, count : Tally(l, a, count) => Tally(r, a, count)
<1>1. /\ Listing(r) /\ DOMAIN r = DOMAIN l
      /\ \A i \in DOMAIN r : r[i].core = l[i].core
  BY MarkIs
<1>2. /\ DOMAIN l = 1..Len(l) /\ Len(l) \in Nat /\ (l = <<>> <=> DOMAIN l = {})
      /\ DOMAIN r = 1..Len(r) /\ Len(r) \in Nat /\ (r = <<>> <=> DOMAIN r = {})
  BY <1>1, Emptied
<1>3. Len(r) = Len(l) /\ (r = <<>> <=> l = <<>>) /\ (l # <<>> => 1 \in DOMAIN r)
  BY <1>1, <1>2
<1> QED
  BY <1>1, <1>3 DEF OnceIn, Tally

\* Cores that are in a list leave it.
LEMMA LessList ==
  ASSUME NEW l, Listing(l), OnceIn(l), NEW cores,
         \A x \in cores : \E i \in DOMAIN l : l[i].core = x,
         \A i \in DOMAIN l : i <= 2 => l[i].core \notin cores,
         NEW r, r = Without(l, cores)
  PROVE  /\ Len(r) = Len(l) - Cardinality(cores) /\ OnceIn(r)
         /\ l = <<>> => r = <<>>
         /\ \A a, count :
              Tally(l, a, count) => Tally(r, a, count - Cardinality(cores))
         /\ \A i \in DOMAIN r :
              r[i].core \notin cores /\ \E j \in DOMAIN l : r[i] = l[j]
<1>0. \A i \in DOMAIN r : r[i].core \notin cores
  BY WithoutIs
<1>1. PICK order \in [DOMAIN r -> DOMAIN l] :
        /\ Listing(r)
        /\ \A i \in DOMAIN r : r[i] = l[order[i]]
        /\ \A i, j \in DOMAIN r : i < j => order[i] < order[j]
        /\ \A k \in DOMAIN l : l[k].core \notin cores =>
             \E i \in DOMAIN r : order[i] = k
  BY WithoutIs
<1>2. /\ DOMAIN l = 1..Len(l) /\ Len(l) \in Nat /\ (l = <<>> <=> DOMAIN l = {})
      /\ DOMAIN r = 1..Len(r) /\ Len(r) \in Nat /\ (r = <<>> <=> DOMAIN r = {})
  BY <1>1, Emptied
<1>3. \A i \in DOMAIN r : order[i] \in DOMAIN l
  BY <1>1
<1>4. \A i, j \in DOMAIN r : order[i] = order[j] => i = j
  <2>1. ASSUME NEW i \in DOMAIN r, NEW j \in DOMAIN r, order[i] = order[j]
        PROVE  i = j
    <3>1. order[i] \in Int /\ i \in Int /\ j \in Int
      BY <1>2, <1>3
    <3> QED
      BY <1>1, <2>1, <3>1
  <2> QED
    BY <2>1
<1>5. OnceIn(r)
  BY <1>1, <1>3, <1>4 DEF OnceIn

<1>6. PICK left, gone : /\ left = {i \in DOMAIN l : l[i].core \notin cores}
                        /\ gone = {i \in DOMAIN l : l[i].core \in cores}
  OBVIOUS
<1>7. IsFiniteSet(DOMAIN l) /\ Cardinality(DOMAIN l) = Len(l)
  <2>1. PICK k \in Nat : k = Len(l) /\ DOMAIN l = 1..k
    BY <1>2
  <2>2. IsFiniteSet(1..k) /\ Cardinality(1..k) = k
    BY FS_Interval
  <2> QED
    BY <2>1, <2>2
<1>8. /\ IsFiniteSet(left) /\ IsFiniteSet(gone)
      /\ Cardinality(left) \in Nat /\ Cardinality(gone) \in Nat
      /\ left \cap gone = {} /\ left \cup gone = DOMAIN l
  BY <1>6, <1>7, FS_Subset, FS_CardinalityType
<1>9. Cardinality(left) + Cardinality(gone) = Len(l)
  <2>1. Cardinality(left \cup gone) =
          Cardinality(left) + Cardinality(gone) - Cardinality(left \cap gone)
    BY <1>8, FS_Union
  <2>2. Cardinality(left \cap gone) = 0
    BY <1>8, FS_EmptySet
  <2> QED
    BY <1>7, <1>8, <2>1, <2>2
<1>10. Cardinality(left) = Len(r)
  <2>1. \A i \in DOMAIN r : order[i] \in left
    BY <1>0, <1>1, <1>3, <1>6
  <2>2. order \in [DOMAIN r -> left]
    BY <1>1, <2>1
  <2>3. order \in Bijection(DOMAIN r, left)
    BY <1>1, <1>4, <1>6, <2>2 DEF Bijection, Injection, Surjection, IsInjective
  <2>4. ExistsBijection(1..Len(r), left)
    BY <1>2, <2>3 DEF ExistsBijection
  <2> QED
    BY <1>2, <1>8, <2>4, FS_CountingElements
<1>11. Cardinality(gone) = Cardinality(cores)
  <2>1. PICK f : f = [i \in gone |-> l[i].core]
    OBVIOUS
  <2>2. f \in [gone -> cores] /\ \A i \in gone : f[i] = l[i].core
    BY <1>6, <2>1
  <2>3. \A i, j \in gone : f[i] = f[j] => i = j
    BY <1>6, <2>2 DEF OnceIn
  <2>4. \A x \in cores : \E i \in gone : f[i] = x
    BY <1>6, <2>2
  <2>5. f \in Bijection(gone, cores)
    BY <2>2, <2>3, <2>4 DEF Bijection, Injection, Surjection, IsInjective
  <2>6. ExistsBijection(gone, cores)
    BY <2>5 DEF ExistsBijection
  <2> QED
    BY <1>8, <2>6, FS_Bijection
<1>12. Len(r) = Len(l) - Cardinality(cores)
  BY <1>2, <1>8, <1>9, <1>10, <1>11
<1>13. l # <<>> => r # <<>> /\ r[1] = l[1]
  <2> SUFFICES ASSUME l # <<>> PROVE r # <<>> /\ r[1] = l[1]
    OBVIOUS
  <2>1. 1 \in DOMAIN l /\ l[1].core \notin cores
    BY <1>2
  <2>2. PICK i \in DOMAIN r : order[i] = 1
    BY <1>1, <2>1
  <2>3. 1 \in DOMAIN r /\ order[1] \in 1..Len(l)
    BY <1>2, <1>3, <2>2
  <2>4. ~ (1 < i)
    BY <1>1, <2>2, <2>3
  <2>5. order[1] = 1
    BY <1>2, <2>2, <2>3, <2>4
  <2> QED
    BY <1>1, <1>2, <2>3, <2>5
<1>14. l = <<>> => r = <<>>
  BY <1>2, <1>3
<1>15. \A a, count : Tally(l, a, count) => Tally(r, a, count - Cardinality(cores))
  BY <1>12, <1>13, <1>14 DEF Tally
<1>16. \A i \in DOMAIN r : r[i].core \notin cores /\ \E j \in DOMAIN l : r[i] = l[j]
  BY <1>0, <1>1, <1>3
<1> QED
  BY <1>5, <1>12, <1>14, <1>15, <1>16

\* Cores that are not in a list join it.
LEMMA MoreList ==
  ASSUME NEW l, Listing(l), l # <<>>, OnceIn(l), NEW S, NEW r, Joined(l, S, r),
         \A i \in DOMAIN l : l[i].core \notin S
  PROVE  /\ OnceIn(r)
         /\ \A a, count : Tally(l, a, count) => Tally(r, a, count + Cardinality(S))
<1>1. /\ Listing(r) /\ Len(r) = Len(l) + Cardinality(S)
      /\ \A i \in DOMAIN l : i \in DOMAIN r /\ r[i] = l[i]
      /\ \A i \in DOMAIN r \ DOMAIN l : r[i].core \in S
      /\ \A i, j \in DOMAIN r \ DOMAIN l : r[i].core = r[j].core => i = j
  BY DEF Joined
<1>2. OnceIn(r)
  <2>1. ASSUME NEW i \in DOMAIN r, NEW j \in DOMAIN r, r[i].core = r[j].core
        PROVE  i = j
    <3>1. i \in DOMAIN l <=> j \in DOMAIN l
      BY <1>1, <2>1
    <3>2. CASE i \in DOMAIN l
      BY <1>1, <2>1, <3>1, <3>2 DEF OnceIn
    <3>3. CASE i \notin DOMAIN l
      BY <1>1, <2>1, <3>1, <3>3
    <3> QED
      BY <3>2, <3>3
  <2> QED
    BY <2>1 DEF OnceIn
<1>3. 1 \in DOMAIN l
  BY Emptied
<1>4. r[1] = l[1]
  BY <1>1, <1>3
<1> QED
  BY <1>1, <1>2, <1>4 DEF Tally
-----------------------------------------------------------------------------
(* A core that comes back.                                                   *)
\* Who offers a manager a core that another has accepted of it, does so after
\* the other's answer.
AfterAnswers ==
  \A a \in Agent : \A p, q \in Node : \A i \in DOMAIN mail[a] : \A x :
    Accepting(mail[a][i], p) /\ Lends(inter[a][p], x) /\ Lends(inter[q][a], x)
    /\ ~ Agreed(mail[q], a)
    => \E j \in DOMAIN mail[a] :
         /\ j > i /\ mail[a][j].from = q
         /\ mail[a][j].msg.sig = "REQ_CORES" /\ mail[a][j].msg.body = "offers"
\* A place of an offer that no signal is about.
LEMMA AtQuiet ==
  ASSUME OInv, NEW a \in Node, NEW s \in Node, NEW x, At(s, a, 1, x),
         ~ Busy(a, s)
  PROVE  Lends(inter[s][a], x) /\ ~ Agreed(mail[s], a)
<1>1. Lies(Net, s, a, 1, x) /\ Net.inter = inter /\ Net.mail = mail
  BY DEF At, Net
<1>2. ~ Gives(inter[s][a], mail[a], s, 1, x)
  BY DEF Gives, Busy
<1> QED
  BY <1>1, <1>2 DEF Lies
\* What a manager takes is not in its list.
LEMMA TakesNew ==
  ASSUME OInv, AfterAnswers, NEW a \in Agent, Held(a), NEW s \in Node, NEW x,
         x \in Core, At(s, a, 1, x), ~ Busy(a, s), NEW i \in DOMAIN my_cores[a]
  PROVE  my_cores[a][i].core # x
<1>1. SUFFICES ASSUME my_cores[a][i].core = x PROVE FALSE
  OBVIOUS
<1>2. /\ a \in Node /\ a \notin Controller /\ OnePlace(x) /\ IInv
      /\ Lends(inter[s][a], x) /\ ~ Agreed(mail[s], a) /\ Sound(Net)
  BY AtQuiet, ClusterAssumption DEF OInv, Owned, Node
<1>3. CASE my_cores[a][i].offered_to = NotOffered
  <2>1. At(a, a, 0, x)
    BY <1>1, <1>2, <1>3 DEF At, Has
  <2> QED
    BY <1>2, <2>1 DEF OnePlace, Same
<1>4. CASE my_cores[a][i].offered_to # NotOffered
  <2>1. PICK p \in Agent : Lends(inter[a][p], x)
    BY <1>1, <1>4 DEF Held, Marks
  <2>2. p \in Node
    BY DEF Node
  <2>3. CASE ~ Agreed(mail[a], p)
    <3>1. At(a, p, 1, x)
      BY <2>1, <2>3 DEF At, Lies, Net
    <3>2. a = s
      BY <1>2, <2>2, <3>1 DEF OnePlace, Same
    <3>3. inter[a][a] # <<>>
      BY <1>2, <3>2 DEF Lends
    <3>4. Queued(inter[a][a], a, a) /\ HeadType(a, a) \in {"none"} \cup May(a, a)
      BY <1>2, StageIs
    <3>5. IsSeq(inter[a][a])
      BY <3>4 DEF Queued
    <3>6. 1 \in DOMAIN inter[a][a]
      BY <3>3, <3>5 DEF IsSeq
    <3> QED
      BY <3>4, <3>6 DEF Queued, May
  <2>4. CASE Agreed(mail[a], p)
    <3>1. PICK k \in DOMAIN mail[a] : Accepting(mail[a][k], p)
      BY <2>4 DEF Agreed, Range
    <3>2. PICK j \in DOMAIN mail[a] :
            mail[a][j].from = s /\ mail[a][j].msg.sig = "REQ_CORES"
      BY <1>2, <2>1, <2>2, <3>1 DEF AfterAnswers
    <3>3. mail[a][j] \in Range(mail[a])
      BY DEF Range
    <3> QED
      BY <3>2, <3>3 DEF Busy
  <2> QED
    BY <2>3, <2>4
<1> QED
  BY <1>3, <1>4

-----------------------------------------------------------------------------
(* What the actions do to the lists of managers.                             *)
AllHeld == \A a \in Agent : Held(a)
\* The lists of others stay.
Aloof(n) ==
  \A b \in Agent : b # n =>
    /\ my_cores'[b] = my_cores[b] /\ my_cores_count'[b] = my_cores_count[b]
    /\ app_state'[b] = app_state[b] /\ LentOn(b)
LEMMA OthersHeld ==
  ASSUME AllHeld, NEW n, Aloof(n), n \in Agent => Held(n)'
  PROVE  AllHeld'
<1>1. ASSUME NEW b \in Agent PROVE Held(b)'
  <2>1. CASE b = n
    BY <1>1, <2>1
  <2>2. CASE b # n
    BY <1>1, <2>2, HeldStays DEF Aloof, AllHeld
  <2> QED
    BY <2>1, <2>2
<1> QED
  BY <1>1 DEF AllHeld

LEMMA SelfChkOffersHeld ==
  ASSUME WInv, Names, Pacing, AfterAnswers, AllHeld, NEW a \in Agent,
         SelfChkOffers(a)
  PROVE  AllHeld'
<1>1. PICK s, taken, l :
        /\ s \in Node /\ taken \in SUBSET Core
        /\ my_cores' = [my_cores EXCEPT ![a] = l]
        /\ my_cores_count' = [my_cores_count EXCEPT ![a] = @ + Cardinality(taken)]
        /\ Joined(my_cores[a], taken, l)
        /\ \A x \in taken : At(s, a, 1, x) /\ ~ Busy(a, s)
  BY Took DEF WInv
<1>2. /\ OInv /\ Holding /\ Held(a) /\ app_state' = app_state /\ a \in Node
      /\ state[a] = "AGENT_SELF_CHK_OFFERS" /\ Listing(my_cores[a])
      /\ Working /\ DOMAIN my_cores_count = Agent /\ Paced(a)
  BY DEF SelfChkOffers, WInv, OInv, Owned, Holding, AllHeld, Pacing, Ranges, Node
<1>3. app_state[a] # "NO_APP"
  BY <1>2 DEF Paced, InitCoreStates
<1>4. my_cores[a] # <<>>
  <2>1. Len(my_cores[a]) >= IF Len(FirstCores[a]) > 1 THEN 2 ELSE 1
    BY <1>2, <1>3 DEF Working, Sized
  <2> QED
    BY <1>2, <2>1, Emptied
<1>5. PICK P, E : P = Unanswered(a) /\ E = {}
  OBVIOUS
<1>6. Acts(a, P, P, E)
  BY <1>2, <1>5, SelfChkOffersActs
<1>7. \A p \in P : \A x : ~ Lends(inter[a][p], x)
  BY <1>5 DEF Unanswered, HeadType, Lends, Offers
<1>8. \A b \in Agent : LentOn(b)
  BY <1>2, <1>6, <1>7, Lending
<1>9. /\ my_cores'[a] = l
      /\ my_cores_count'[a] = my_cores_count[a] + Cardinality(taken)
      /\ \A b \in Agent : b # a => /\ my_cores'[b] = my_cores[b]
                                   /\ my_cores_count'[b] = my_cores_count[b]
  BY <1>1, <1>2 DEF Holding
<1>10. \A i \in DOMAIN my_cores[a] : my_cores[a][i].core \notin taken
  BY <1>1, <1>2, TakesNew
<1>11. /\ OnceIn(l)
       /\ Tally(l, a, my_cores_count[a] + Cardinality(taken))
  BY <1>1, <1>2, <1>4, <1>10, MoreList DEF Held
<1>12. Marks(l, inter'[a])
  <2>1. ASSUME NEW i \in DOMAIN l, l[i].offered_to # NotOffered
        PROVE  /\ l[i].offered_to \in Agent
               /\ Lends(inter'[a][l[i].offered_to], l[i].core)
    <3>1. i \in DOMAIN my_cores[a] /\ l[i] = my_cores[a][i]
      BY <1>1, <2>1 DEF Joined
    <3> QED
      BY <1>2, <1>8, <2>1, <3>1 DEF Held, Marks, LentOn
  <2> QED
    BY <2>1 DEF Marks
<1>13. Held(a)'
  BY <1>2, <1>3, <1>9, <1>11, <1>12 DEF Held
<1> QED
  BY <1>2, <1>8, <1>9, <1>13, OthersHeld DEF Aloof

LEMMA AgentEndsHeld ==
  ASSUME WInv, Names, Pacing, AllHeld, NEW a \in Agent, AgentEnds(a)
  PROVE  AllHeld'
<1>1. /\ OInv /\ DOMAIN my_cores = Agent /\ DOMAIN app_state = Agent /\ a \in Node
      /\ my_cores' = [my_cores EXCEPT ![a] = <<>>]
      /\ app_state' = [app_state EXCEPT ![a] = "NO_APP"]
      /\ my_cores_count' = my_cores_count
  BY DEF AgentEnds, WInv, OInv, Owned, Holding, Working, Node
<1>2. PICK E : E = {}
  OBVIOUS
<1>3. Acts(a, E, E, E)
  BY <1>1, <1>2, AgentEndsActs
<1>4. \A b \in Agent : LentOn(b)
  BY <1>1, <1>2, <1>3, Lending
<1>5. my_cores'[a] = <<>>
  BY <1>1
<1>6. DOMAIN my_cores'[a] = {}
  BY <1>5
<1>7. Held(a)'
  BY <1>5, <1>6 DEF Held, OnceIn, Marks, Tally
<1> QED
  BY <1>1, <1>4, <1>7, OthersHeld DEF Aloof

\* A request, an ACK or a rejection that ends no offer leaves the offers alone.
LEMMA OffersStay ==
  ASSUME OInv, NEW n \in Node, ReqCores(n) \/ AckClear(n) \/ RejectRequest(n),
         NEW x, Lends(inter[n][Peer(n)], x)
  PROVE  Lends(inter'[n][Peer(n)], x)
<1>1. PICK p : p = Peer(n)
  OBVIOUS
<1>2. HeadType(n, p) \in Offers /\ x \in Head(inter[n][p]).cores
  BY <1>1 DEF Lends, HeadType
<1>3. CASE ReqCores(n)
  <2>1. ReqBranch(n, p, Brings(Head(mail[n]).msg)) = "reject"
    BY <1>2 DEF ReqBranch, Offers
  <2>2. Becomes(Send(Taken(n), n, p, Reject))
    BY <1>1, <1>3, <2>1 DEF ReqCores
  <2>3. inter' = inter
    BY <2>2 DEF Becomes, Send, Taken, Net
  <2> QED
    BY <2>3
<1>4. CASE AckClear(n)
  <2>1. Receives(n, "ACK") /\ MessagesUnderstood /\ ~ PeerWaits(n, p)
    BY <1>1, <1>4, UnderstoodAll DEF AckClear, OInv
  <2>2. Understood(n, p, Head(mail[n]).msg)
    BY <1>1, <2>1 DEF MessagesUnderstood, Receives
  <2>3. HeadType(n, p) = "REP_AGENT_REQ_CORES"
    BY <1>2, <2>1, <2>2 DEF Understood, Receives, Offers
  <2> QED
    BY <1>2, <2>1, <2>3 DEF PeerWaits
<1>5. CASE RejectRequest(n)
  <2>1. HeadType(n, p) = "AGENT_OFFER_SENT"
    BY <1>1, <1>2, <1>5 DEF RejectRequest, Offers
  <2>2. Becomes(Taken(n))
    BY <1>1, <1>5, <2>1 DEF RejectRequest
  <2>3. inter' = inter
    BY <2>2 DEF Becomes, Taken, Net
  <2> QED
    BY <2>3
<1> QED
  BY <1>3, <1>4, <1>5

\* Steps that change no list.
LEMMA SameHeld ==
  ASSUME OInv, AllHeld, UNCHANGED <<my_cores, my_cores_count>>,
         \A a \in Agent : app_state'[a] = "NO_APP" => app_state[a] = "NO_APP",
         NEW n \in Node, NEW P, NEW R, NEW N, Acts(n, P, R, N) \/ Heeds(n, P),
         n \in Agent => \A p \in P : \A x :
           Lends(inter[n][p], x) => Lends(inter'[n][p], x)
  PROVE  AllHeld'
<1>1. ASSUME NEW a \in Agent PROVE Held(a)'
  <2>1. LentOn(a)
    BY Lending
  <2> QED
    BY <2>1 DEF AllHeld, Held, Marks, LentOn
<1> QED
  BY <1>1 DEF AllHeld

\* What the program of a manager does beside taking cores and ending.
LEMMA ProgramHeld ==
  ASSUME WInv, Names, AllHeld, NEW a \in Agent,
         \/ SelfOptStart(a) \/ DiscoveryDone(a) \/ Timer(a) \/ LeaveAtTop(a)
         \/ Leave(a) \/ AgentZombie(a) \/ InitManChkOffers(a) \/ AppFinishes(a)
  PROVE  /\ AllHeld'
         /\ \A E : E = {} => Acts(a, E, E, E)
<1>1. OInv /\ a \in Node /\ UNCHANGED <<my_cores, my_cores_count>>
  BY DEF WInv, Node, SelfOptStart, DiscoveryDone, Timer, LeaveAtTop, Leave,
         AgentZombie, InitManChkOffers, AppFinishes
<1>2. \A b \in Agent : app_state'[b] = "NO_APP" => app_state[b] = "NO_APP"
  BY DEF WInv, Working, SelfOptStart, DiscoveryDone, Timer, LeaveAtTop, Leave,
         AgentZombie, InitManChkOffers, AppFinishes
<1>3. ASSUME NEW E, E = {} PROVE Acts(a, E, E, E)
  <2>1. CASE DiscoveryDone(a)
    BY <1>1, <1>3, <2>1, DiscoveryDoneActs
  <2>2. CASE AgentZombie(a)
    BY <1>1, <1>3, <2>2, AgentZombieActs
  <2>3. CASE ~ (DiscoveryDone(a) \/ AgentZombie(a))
    <3>1. inter' = inter /\ mail' = mail
      BY <2>3 DEF SelfOptStart, Timer, LeaveAtTop, Leave, InitManChkOffers,
                  AppFinishes, netVars
    <3> QED
      BY <3>1, ActsSame
  <2> QED
    BY <2>1, <2>2, <2>3
<1>4. PICK E : E = {}
  OBVIOUS
<1>5. Acts(a, E, E, E)
  BY <1>3, <1>4
<1>6. AllHeld'
  BY <1>1, <1>2, <1>4, <1>5, SameHeld
<1> QED
  BY <1>3, <1>6

\* What a handler of a node does that neither offers nor answers.
LEMMA HandlerHeld ==
  ASSUME WInv, Names, AllHeld, NEW n \in Node,
         \/ ReqCores(n) \/ AckClear(n) \/ RejectRequest(n) \/ AckData(n)
         \/ CollectOffer(n)
  PROVE  AllHeld'
<1>1. OInv /\ UNCHANGED <<my_cores, my_cores_count, app_state>>
  BY DEF WInv, ReqCores, AckClear, RejectRequest, AckData, CollectOffer, agentVars
<1>2. CASE CollectOffer(n)
  <2>1. PICK P, E : P = {waiting[n].from} /\ E = {}
    OBVIOUS
  <2>2. Acts(n, P, E, E) /\ \A x : ~ Lends(inter[n][waiting[n].from], x)
    BY <1>1, <1>2, <2>1, CollectOfferActs
  <2>3. \A p \in P : \A x : Lends(inter[n][p], x) => Lends(inter'[n][p], x)
    BY <2>1, <2>2
  <2> QED
    BY <1>1, <2>2, <2>3, SameHeld
<1>3. CASE ~ CollectOffer(n)
  <2>1. PICK P, E : P = {Peer(n)} /\ E = {}
    OBVIOUS
  <2>2. Heeds(n, P)
    BY <1>1, <1>3, <2>1, ReqCoresHeeds, AckClearHeeds, AckDataHeeds
  <2>3. \A x : Lends(inter[n][Peer(n)], x) => Lends(inter'[n][Peer(n)], x)
    BY <1>1, <1>3, <2>1, OffersStay, AckDataHeeds
  <2>4. \A p \in P : \A x : Lends(inter[n][p], x) => Lends(inter'[n][p], x)
    BY <2>1, <2>3
  <2> QED
    BY <1>1, <2>2, <2>4, SameHeld
<1> QED
  BY <1>2, <1>3

LEMMA BookHeld ==
  ASSUME WInv, Names, AllHeld, NEW c \in Controller,
         AddCoresDDS(c) \/ RemCoresDDS(c) \/ Finish(c) \/ AppTerminated(c)
  PROVE  AllHeld'
<1>1. OInv /\ c \in Node /\ c \notin Agent
  BY ClusterAssumption DEF WInv, Node
<1>2. UNCHANGED <<my_cores, my_cores_count, app_state>>
  BY DEF AddCoresDDS, RemCoresDDS, Finish, AppTerminated, agentVars
<1>3. PICK P : P = {Peer(c)}
  OBVIOUS
<1>4. Heeds(c, P)
  BY <1>1, <1>3, AddCoresDDSHeeds, RemCoresDDSHeeds, FinishHeeds, AppTerminatedHeeds
<1> QED
  BY <1>1, <1>2, <1>4, SameHeld

\* What is on offer to others than those the step is about stays on offer.
LEMMA OffersElse ==
  ASSUME OInv, NEW n \in Node, NEW P, NEW R, NEW N,
         Acts(n, P, R, N) \/ Heeds(n, P), NEW a \in Node, NEW p \in Node,
         ~ (a = n /\ p \in P), NEW x, Lends(inter[a][p], x)
  PROVE  Lends(inter'[a][p], x)
<1>1. \E M : Upheld(inter[a][p], inter'[a][p], ~ (a = n /\ p \in P),
                    a = n /\ p \in M)
  <2>1. CASE Acts(n, P, R, N)
    BY <2>1 DEF Acts, Grows, Net
  <2>2. CASE Heeds(n, P)
    <3>1. PICK E : E = {}
      OBVIOUS
    <3>2. Grows(Taken(n), Net', n, P, E, E) /\ mail[n] # <<>>
      BY <2>2, <3>1 DEF Heeds
    <3>3. Taken(n).inter = inter
      BY TakenIs DEF OInv, IInv
    <3> QED
      BY <3>2, <3>3 DEF Grows, Net
  <2> QED
    BY <2>1, <2>2
<1> QED
  BY <1>1 DEF Upheld, Lends

\* An offer comes back to a manager.
LEMMA KeptHeld ==
  ASSUME OInv, AllHeld, NEW n \in Agent, NEW P, Heeds(n, P), NEW p \in Agent,
         P = {p}, UNCHANGED <<my_cores_count, app_state>>,
         NEW old, old = {p} \/ old = AnyMark,
         NEW cores, \A x : Lends(inter[n][p], x) => x \in cores,
         my_cores' = [my_cores EXCEPT ![n] = Mark(my_cores[n], cores, old, NotOffered)]
  PROVE  AllHeld'
<1>1. n \in Node /\ Holding /\ DOMAIN my_cores = Agent /\ Held(n)
  BY DEF Node, OInv, Owned, Holding, AllHeld
<1>2. PICK l, r : l = my_cores[n] /\ r = Mark(l, cores, old, NotOffered)
  OBVIOUS
<1>3. Listing(l)
  BY <1>1, <1>2 DEF Holding
<1>4. /\ DOMAIN r = DOMAIN l
      /\ \A i \in DOMAIN r :
           /\ r[i].core = l[i].core
           /\ r[i].offered_to =
                IF l[i].core \in cores /\ l[i].offered_to \in old THEN NotOffered
                ELSE l[i].offered_to
  BY <1>2, <1>3, MarkIs
<1>5. /\ (r = <<>> <=> l = <<>>) /\ OnceIn(r)
      /\ Tally(r, n, my_cores_count[n])
  BY <1>1, <1>2, <1>3, MarkedList DEF Held
<1>6. my_cores'[n] = r /\ \A b \in Agent : b # n => my_cores'[b] = my_cores[b]
  BY <1>1, <1>2
<1>7. Marks(r, inter'[n])
  <2>1. ASSUME NEW i \in DOMAIN r, r[i].offered_to # NotOffered
        PROVE  /\ r[i].offered_to \in Agent
               /\ Lends(inter'[n][r[i].offered_to], r[i].core)
    <3>1. PICK q, x : q = r[i].offered_to /\ x = r[i].core
      OBVIOUS
    <3>2. /\ l[i].offered_to = q /\ l[i].core = x /\ i \in DOMAIN l
          /\ ~ (x \in cores /\ q \in old)
      BY <1>4, <2>1, <3>1
    <3>3. q \in Agent /\ Lends(inter[n][q], x)
      BY <1>1, <1>2, <2>1, <3>1, <3>2 DEF Held, Marks
    <3>4. q \in AnyMark /\ q \in Node
      BY <3>3 DEF AnyMark, Node
    <3>5. q # p
      BY <3>2, <3>3, <3>4
    <3>6. ~ (n = n /\ q \in P)
      BY <3>5
    <3>7. Lends(inter'[n][q], x)
      BY <1>1, <3>3, <3>4, <3>6, OffersElse
    <3> QED
      BY <3>1, <3>3, <3>7
  <2> QED
    BY <2>1 DEF Marks
<1>8. Held(n)'
  BY <1>1, <1>2, <1>5, <1>6, <1>7 DEF Held
<1>9. \A b \in Agent : b # n => LentOn(b)
  BY <1>1, Lending
<1> QED
  BY <1>6, <1>8, <1>9, OthersHeld DEF Aloof

LEMMA AnswerHeld ==
  ASSUME WInv, AllHeld, NEW n \in Node, RepOffersNo(n) \/ RejectOffer(n)
  PROVE  AllHeld'
<1>1. OInv /\ UNCHANGED <<my_cores_count, app_state>>
  BY DEF WInv, RepOffersNo, RejectOffer
<1>2. PICK p, cores, P : /\ p = Peer(n) /\ cores = Head(inter[n][p]).cores
                         /\ P = {p}
  OBVIOUS
<1>3. Heeds(n, P)
  BY <1>1, <1>2, AnswerHeeds
<1>4. p \in Agent
  <2>1. PICK sig \in {"REP_OFFERS", "REJECT"} : Receives(n, sig)
    BY DEF RepOffersNo, RejectOffer
  <2>2. HeadType(n, Peer(n)) \in Offers
    BY DEF RepOffersNo, RejectOffer, Offers
  <2> QED
    BY <1>2, <2>1, <2>2, AnsweredOffer
<1>5. CASE n \in Controller
  <2>1. n \notin Agent /\ my_cores' = my_cores
    BY <1>5, ClusterAssumption DEF RepOffersNo, RejectOffer
  <2> QED
    BY <1>1, <1>3, <2>1, SameHeld
<1>6. CASE n \notin Controller
  <2>1. PICK old : /\ old = {p} \/ old = AnyMark
                   /\ my_cores' = [my_cores EXCEPT ![n] =
                                     Mark(my_cores[n], cores, old, NotOffered)]
    BY <1>2, <1>6 DEF RepOffersNo, RejectOffer
  <2>2. n \in Agent /\ \A x : Lends(inter[n][p], x) => x \in cores
    BY <1>2, <1>6 DEF Node, Lends
  <2> QED
    BY <1>1, <1>2, <1>3, <1>4, <2>1, <2>2, KeptHeld
<1> QED
  BY <1>5, <1>6

LEMMA RepOffersYesHeld ==
  ASSUME WInv, Names, Pacing, AllHeld, NEW n \in Node, RepOffersYes(n)
  PROVE  AllHeld'
<1>1. /\ OInv /\ Working /\ Holding /\ app_state' = app_state
      /\ DOMAIN my_cores_count = Agent
  BY DEF WInv, OInv, Owned, RepOffersYes, Pacing, Ranges
<1>2. PICK p, cores, P : /\ p = Peer(n) /\ cores = Head(inter[n][p]).cores
                         /\ P = {p}
  OBVIOUS
<1>3. Heeds(n, P)
  BY <1>2, RepOffersYesHeeds
<1>4. p \in Agent /\ \A x \in cores : Lends(inter[n][p], x)
  <2>1. Receives(n, "REP_OFFERS") /\ HeadType(n, Peer(n)) \in Offers
    BY DEF RepOffersYes, Offers
  <2> QED
    BY <1>2, <2>1, AnsweredOffer
<1>5. CASE n \in Controller
  <2>1. n \notin Agent /\ UNCHANGED <<my_cores, my_cores_count>>
    BY <1>5, ClusterAssumption DEF RepOffersYes
  <2> QED
    BY <1>1, <1>3, <2>1, SameHeld
<1>6. CASE n \notin Controller
  <2>1. n \in Agent /\ DOMAIN my_cores = Agent
    BY <1>1, <1>6 DEF Node, Holding
  <2>2. PICK l, r : l = my_cores[n] /\ r = Without(l, cores)
    OBVIOUS
  <2>3. /\ my_cores' = [my_cores EXCEPT ![n] = r]
        /\ my_cores_count' = [my_cores_count EXCEPT ![n] = @ - Cardinality(cores)]
    BY <1>2, <1>6, <2>2 DEF RepOffersYes
  <2>4. Listing(l) /\ Leading(l) /\ Held(n)
    BY <1>1, <2>1, <2>2 DEF Holding, Working, Firsts, AllHeld
  <2>5. \A x \in cores : \E j \in DOMAIN l : l[j].core = x /\ l[j].offered_to = p
    <3>1. \A x \in cores : HasMark(my_cores[n], x, p)
      BY <1>1, <1>4, <2>1 DEF Working, Lent
    <3> QED
      BY <2>2, <3>1 DEF HasMark
  <2>6. ASSUME NEW i \in DOMAIN l, i <= 2 PROVE l[i].core \notin cores
    <3> SUFFICES ASSUME l[i].core \in cores PROVE FALSE
      OBVIOUS
    <3>1. PICK j \in DOMAIN l : l[j].core = l[i].core /\ l[j].offered_to = p
      BY <2>5
    <3>2. i = j /\ l[i].offered_to = NotOffered
      BY <2>4, <2>6, <3>1 DEF Leading
    <3> QED
      BY <1>4, <3>1, <3>2, ClusterAssumption DEF Node
  <2>7. \A x \in cores : \E i \in DOMAIN l : l[i].core = x
    BY <2>5
  <2>8. OnceIn(l) /\ Tally(l, n, my_cores_count[n]) /\ Marks(l, inter[n])
    BY <2>2, <2>4 DEF Held
  <2>9. /\ OnceIn(r) /\ (l = <<>> => r = <<>>)
        /\ Tally(r, n, my_cores_count[n] - Cardinality(cores))
        /\ \A i \in DOMAIN r :
             r[i].core \notin cores /\ \E j \in DOMAIN l : r[i] = l[j]
    BY <2>2, <2>4, <2>6, <2>7, <2>8, LessList
  <2>10. Marks(r, inter'[n])
    <3>1. ASSUME NEW i \in DOMAIN r, r[i].offered_to # NotOffered
          PROVE  /\ r[i].offered_to \in Agent
                 /\ Lends(inter'[n][r[i].offered_to], r[i].core)
      <4>1. PICK j \in DOMAIN l : r[i] = l[j] /\ r[i].core \notin cores
        BY <2>9, <3>1
      <4>2. PICK q, x : q = r[i].offered_to /\ x = r[i].core
        OBVIOUS
      <4>3. q \in Agent /\ Lends(inter[n][q], x)
        BY <2>8, <3>1, <4>1, <4>2 DEF Marks
      <4>4. q # p
        BY <1>2, <4>1, <4>2, <4>3 DEF Lends
      <4>5. q \in Node /\ ~ (n = n /\ q \in P)
        BY <1>2, <4>3, <4>4 DEF Node
      <4>6. Lends(inter'[n][q], x)
        BY <1>1, <1>3, <4>3, <4>5, OffersElse
      <4> QED
        BY <4>2, <4>3, <4>6
    <3> QED
      BY <3>1 DEF Marks
  <2>11. /\ my_cores'[n] = r
         /\ my_cores_count'[n] = my_cores_count[n] - Cardinality(cores)
         /\ \A b \in Agent : b # n => /\ my_cores'[b] = my_cores[b]
                                      /\ my_cores_count'[b] = my_cores_count[b]
    BY <1>1, <2>1, <2>3
  <2>12. Held(n)'
    BY <1>1, <2>2, <2>4, <2>9, <2>10, <2>11 DEF Held
  <2>13. \A b \in Agent : b # n => LentOn(b)
    BY <1>1, <1>3, Lending
  <2> QED
    BY <1>1, <2>11, <2>12, <2>13, OthersHeld DEF Aloof
<1> QED
  BY <1>5, <1>6
\* Offers are made to managers.
OffersOnlyAgents ==
  \A n, p \in Node :
    inter[n][p] # <<>> /\ Head(inter[n][p]).type \in Offers => p \in Agent
LEMMA OffersToAgents == IInv => OffersOnlyAgents
<1>1. ASSUME IInv, NEW n \in Node, NEW p \in Node, inter[n][p] # <<>>,
             Head(inter[n][p]).type \in Offers
      PROVE  p \in Agent
  <2>1. HeadType(n, p) \in {"none"} \cup May(n, p)
    BY <1>1, StageIs
  <2> QED
    BY <1>1, <2>1 DEF HeadType, May, Offers, Asker, Reports
<1> QED
  BY <1>1 DEF OffersOnlyAgents

LEMMA OfferCoresHeld ==
  ASSUME WInv, Names, AllHeld, WInv', NEW n \in Node, OfferCores(n)
  PROVE  AllHeld'
<1>1. /\ OInv /\ Working /\ Holding /\ UNCHANGED <<my_cores_count, app_state>>
      /\ IInv'
  BY DEF WInv, OInv, Owned, OfferCores
<1>2. PICK E : E = {}
  OBVIOUS
<1>3. PICK p, cores : p \in Node /\ Puts(n, p, cores) /\ Acts(n, E, E, {p})
  BY <1>1, <1>2, OfferCoresActs
<1>4. \A b \in Agent : LentOn(b)
  BY <1>1, <1>2, <1>3, Lending
<1>5. p \in Agent /\ \A x \in cores : Lends(inter'[n][p], x)
  <2>1. /\ inter'[n][p] # <<>> /\ Head(inter'[n][p]).type \in Offers
        /\ Head(inter'[n][p]).cores = cores
    BY <1>3 DEF Puts, Offers
  <2>2. OffersOnlyAgents'
    BY <1>1, OffersToAgents, PTL
  <2>3. p \in Agent
    BY <1>3, <2>1, <2>2 DEF OffersOnlyAgents
  <2> QED
    BY <2>1, <2>3 DEF Lends
<1>6. CASE n \in Controller
  <2>1. n \notin Agent /\ my_cores' = my_cores
    BY <1>3, <1>6, ClusterAssumption DEF Puts
  <2> QED
    BY <1>1, <1>2, <1>3, <2>1, SameHeld
<1>7. CASE n \notin Controller
  <2>1. n \in Agent /\ DOMAIN my_cores = Agent
    BY <1>1, <1>7 DEF Node, Holding
  <2>2. PICK l, r : l = my_cores[n] /\ r = Mark(l, cores, AnyMark, p)
    OBVIOUS
  <2>3. my_cores' = [my_cores EXCEPT ![n] = r]
    BY <1>3, <1>7, <2>1, <2>2 DEF Puts
  <2>4. Listing(l) /\ Held(n)
    BY <1>1, <2>1, <2>2 DEF Holding, AllHeld
  <2>5. /\ DOMAIN r = DOMAIN l
        /\ \A i \in DOMAIN r :
             /\ r[i].core = l[i].core
             /\ r[i].offered_to =
                  IF l[i].core \in cores /\ l[i].offered_to \in AnyMark THEN p
                  ELSE l[i].offered_to
    BY <2>2, <2>4, MarkIs
  <2>6. /\ (r = <<>> <=> l = <<>>) /\ OnceIn(r)
        /\ Tally(r, n, my_cores_count[n])
    BY <2>2, <2>4, MarkedList DEF Held
  <2>7. my_cores'[n] = r /\ \A b \in Agent : b # n => my_cores'[b] = my_cores[b]
    BY <2>1, <2>3
  <2>8. Marks(r, inter'[n])
    <3>1. ASSUME NEW i \in DOMAIN r, r[i].offered_to # NotOffered
          PROVE  /\ r[i].offered_to \in Agent
                 /\ Lends(inter'[n][r[i].offered_to], r[i].core)
      <4>1. CASE l[i].core \in cores /\ l[i].offered_to \in AnyMark
        BY <1>5, <2>5, <3>1, <4>1
      <4>2. CASE ~ (l[i].core \in cores /\ l[i].offered_to \in AnyMark)
        <5>1. r[i].offered_to = l[i].offered_to /\ r[i].core = l[i].core
          BY <2>5, <3>1, <4>2
        <5>2. /\ r[i].offered_to \in Agent
              /\ Lends(inter[n][r[i].offered_to], r[i].core)
          BY <2>2, <2>4, <2>5, <3>1, <5>1 DEF Held, Marks
        <5> QED
          BY <1>4, <2>1, <5>2 DEF LentOn
      <4> QED
        BY <4>1, <4>2
    <3> QED
      BY <3>1 DEF Marks
  <2>9. Held(n)'
    BY <1>1, <2>2, <2>4, <2>6, <2>7, <2>8 DEF Held
  <2> QED
    BY <1>1, <1>4, <2>7, <2>9, OthersHeld DEF Aloof
<1> QED
  BY <1>6, <1>7
=============================================================================
