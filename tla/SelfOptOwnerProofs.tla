------------------------- MODULE SelfOptOwnerProofs -------------------------
(***************************************************************************)
(* Proofs about SelfOpt, for any number of controllers, managers and       *)
(* cores: no core has two owners, and a running application keeps a        *)
(* worker.                                                                 *)
(*                                                                         *)
(* A core that is offered, accepted or given back belongs for a while to   *)
(* nobody's list.  The proof follows every core through these times: it is *)
(* at one place at most, in the list of a node, in an offer or in the      *)
(* report of an end, on the way or waiting for its turn.  Beside it, the   *)
(* first two entries of a list are never on offer, and what is on offer    *)
(* is marked in the list.                                                  *)
(***************************************************************************)
EXTENDS SelfOptProofs, FiniteSetTheorems, SequenceTheorems

\* n has x and does not offer it.
Has(n, x) ==
  IF n \in Controller
  THEN x \in DOMAIN book[n].offered_to /\ book[n].offered_to[x] = NotOffered
  ELSE \E i \in DOMAIN my_cores[n] :
         my_cores[n][i].core = x /\ my_cores[n][i].offered_to = NotOffered

\* A queue starts with an offer of x.
Lends(queue, x) ==
  /\ queue # <<>> /\ Head(queue).type \in Offers /\ x \in Head(queue).cores

\* One of the signals of a list is the acceptance of an offer by p.
Accepting(s, p) ==
  s.from = p /\ s.msg.sig = "REP_OFFERS" /\ s.msg.answer = 1
Agreed(list, p) == \E s \in Range(list) : Accepting(s, p)

\* x is given back by n with a signal of the list, or with the report that is
\* the i-th of the queue, behind others.
Gives(queue, list, n, i, x) ==
  \/ /\ i = 1
     /\ \E s \in Range(list) :
          s.from = n /\ s.msg.sig = "FINISH" /\ x \in s.msg.cores
  \/ /\ i \in DOMAIN queue /\ i > 1
     /\ queue[i].type = "REMOVE_APP" /\ x \in queue[i].cores

\* The places of a core: its owner, or a position in what n has for p.
Lies(net, n, p, i, x) ==
  \/ i = 1 /\ Lends(net.inter[n][p], x) /\ ~ Agreed(net.mail[n], p)
  \/ Gives(net.inter[n][p], net.mail[p], n, i, x)
At(n, p, i, x) ==
  \/ i = 0 /\ n = p /\ Has(n, x)
  \/ Lies(Net, n, p, i, x)

Same(n, p, i, m, q, j) == n = m /\ p = q /\ i = j
OnePlace(x) ==
  \A n, p, m, q \in Node : \A i, j \in Nat :
    At(n, p, i, x) /\ At(m, q, j, x) => Same(n, p, i, m, q, j)
-----------------------------------------------------------------------------
\* What the lists and books are.
Listing(l) ==
  /\ IsSeq(l)
  /\ \A i \in DOMAIN l :
       /\ l[i] = [core |-> l[i].core, offered_to |-> l[i].offered_to]
       /\ l[i].core \in Core
Holding ==
  /\ DOMAIN my_cores = Agent /\ DOMAIN book = Controller
  /\ DOMAIN selfopt_offers = Agent
  /\ \A a \in Agent : Listing(my_cores[a])
  /\ \A c \in Controller :
       /\ "offered_to" \in DOMAIN book[c]
       /\ DOMAIN book[c].offered_to \subseteq Core

\* What interactions and signals say of cores and managers.
Speaks(x) ==
  /\ x.type \in Offers => x.cores \subseteq Core
  /\ x.type = "IDAG_ADD_CORES_DDS" => x.agent # NotOffered
  /\ x.type = "IDAG_REM_CORES_DDS" => x.new # NotOffered
Says(m) ==
  /\ m.sig = "ADD_CORES_DDS" => m.agent # NotOffered
  /\ m.sig = "REM_CORES_DDS" => m.new # NotOffered

SoundQueue(queue) ==
  /\ IsSeq(queue) /\ \A y \in Range(queue) : Speaks(y)
  /\ \A i \in DOMAIN queue : i # 1 => queue[i].type \in Waiting
SoundList(list) == IsSeq(list) /\ \A s \in Range(list) : Says(s.msg)
Sound(net) ==
  /\ IsNet(net)
  /\ \A n \in Node : SoundList(net.mail[n])
  /\ \A n, p \in Node : SoundQueue(net.inter[n][p])

\* The offer of n to p is fetched, and has these cores.
Fetched(n, p, cores) ==
  /\ inter[n][p] # <<>> /\ Head(inter[n][p]).type = "AGENT_OFFER_SENT"
  /\ Head(inter[n][p]).cores = cores
Collected(a, offer) ==
  /\ offer.sender \in Node /\ Fetched(offer.sender, a, offer.cores)
  /\ HeadType(a, offer.sender) = "REP_AGENT_OFFER_PENDING"
Collecting ==
  /\ \A a \in Agent : IsSeq(selfopt_offers[a])
  /\ \A a \in Agent : \A offer \in Range(selfopt_offers[a]) : Collected(a, offer)
  /\ \A n \in Node : \A d \in Range(data[n]) :
       d.cores # {} => Fetched(d.from, n, d.cores)

Owned ==
  Holding /\ Sound(Net) /\ Collecting /\ \A x \in Core : OnePlace(x)
OInv == IInv /\ Owned
-----------------------------------------------------------------------------
(* What the calls of a handler do to the places.                             *)

LEMMA RangeAppended ==
  ASSUME NEW l, IsSeq(l), NEW s
  PROVE  Range(Append(l, s)) = Range(l) \cup {s}
<1>1. /\ DOMAIN l = 1..Len(l) /\ DOMAIN Append(l, s) = 1..(Len(l) + 1)
      /\ Len(l) \in Nat /\ Append(l, s)[Len(l) + 1] = s
      /\ \A i \in 1..Len(l) : Append(l, s)[i] = l[i]
  BY Appending
<1> DEFINE r == Append(l, s)
<1> HIDE DEF r
<1>2. DOMAIN r = DOMAIN l \cup {Len(l) + 1} /\ \A i \in DOMAIN l : r[i] = l[i]
  BY <1>1 DEF r
<1>3. r[Len(l) + 1] = s
  BY <1>1 DEF r
<1> QED
  BY <1>2, <1>3 DEF Range, r

LEMMA RangeTailed ==
  ASSUME NEW l, IsSeq(l), l # <<>>
  PROVE  /\ Range(l) = {Head(l)} \cup Range(Tail(l)) /\ IsSeq(Tail(l))
         /\ Head(l) \in Range(l)
<1>1. /\ IsSeq(Tail(l)) /\ Len(l) \in Nat \ {0} /\ DOMAIN l = 1..Len(l)
      /\ Head(l) = l[1] /\ DOMAIN Tail(l) = 1..(Len(l) - 1)
      /\ \A i \in 1..(Len(l) - 1) : Tail(l)[i] = l[i + 1]
  BY Shortening
<1> DEFINE r == Tail(l)
           h == Head(l)
<1> HIDE DEF r, h
<1>2. /\ \A i \in DOMAIN r : i + 1 \in DOMAIN l /\ r[i] = l[i + 1]
      /\ \A i \in DOMAIN l : i = 1 \/ (i - 1 \in DOMAIN r /\ r[i - 1] = l[i])
      /\ 1 \in DOMAIN l /\ l[1] = h
  BY <1>1 DEF r, h
<1>3. Range(l) = {h} \cup Range(r)
  BY <1>2 DEF Range
<1> QED
  BY <1>1, <1>2, <1>3 DEF r, h, Range

\* What n has for p in queue q and list l becomes r and t: the signals stay,
\* and so does the head where same says so; the places are k later, and those
\* of N are new.
Carries(q, l, r, t, n, p, same, k, N) ==
  /\ Range(l) \subseteq Range(t)
  /\ same /\ q # <<>> => r # <<>> /\ Head(r) = Head(q)
  /\ \A x : Lends(r, x) => (k = 0 /\ Lends(q, x)) \/ <<n, p, 1, x>> \in N
  /\ \A x : \A i \in Nat : Gives(r, t, n, i, x) =>
       Gives(q, l, n, i + k, x) \/ <<n, p, i, x>> \in N

\* Node n changes what it has for the nodes in P, the rest stays.
Goes(net, r, n, P, k, N) ==
  \A m, q \in Node :
    Carries(net.inter[m][q], net.mail[q], r.inter[m][q], r.mail[q], m, q,
            ~ (m = n /\ q \in P), IF m = n /\ q \in P THEN k ELSE 0, N)

\* Nothing changes for a pair but a signal to p.
LEMMA PairStays ==
  ASSUME NEW q, NEW l, IsSeq(l), NEW t, NEW n, NEW p, NEW same, NEW N,
         \/ t = l
         \/ \E s : t = Append(l, s) /\ (s.from # n \/ s.msg.sig # "FINISH")
  PROVE  Carries(q, l, q, t, n, p, same, 0, N)
<1>1. CASE t = l
  BY <1>1 DEF Carries
<1>2. ASSUME NEW s, t = Append(l, s), s.from # n \/ s.msg.sig # "FINISH"
      PROVE  Carries(q, l, q, t, n, p, same, 0, N)
  <2>1. Range(t) = Range(l) \cup {s}
    BY <1>2, RangeAppended
  <2> QED
    BY <1>2, <2>1 DEF Carries, Gives
<1> QED
  BY <1>1, <1>2

\* What the signal of an interaction says.
LEMMA SignalSays ==
  ASSUME NEW x, x.type \in Waiting \cup {"REP_AGENT_REQ_CORES"}, Speaks(x)
  PROVE  /\ Says(SignalOf(x))
         /\ SignalOf(x).sig = "FINISH" =>
              x.type = "REMOVE_APP" /\ SignalOf(x).cores = x.cores
BY DEF SignalOf, Waiting, Reports, Says, Speaks

\* An interaction joins the queue, and is sent where it is alone.
LEMMA PairPosts ==
  ASSUME NEW q, SoundQueue(q), NEW l, SoundList(l), NEW n, NEW p, NEW same,
         NEW x, x.type \in Waiting \/ (q = <<>> /\ x.type = "REP_AGENT_REQ_CORES"),
         Speaks(x), NEW N,
         x.type \in Offers \cup {"REMOVE_APP"} =>
           \A y \in x.cores : <<n, p, Len(q) + 1, y>> \in N,
         NEW t,
         t = IF q = <<>> THEN Append(l, [from |-> n, msg |-> SignalOf(x)]) ELSE l
  PROVE  /\ SoundQueue(Append(q, x)) /\ SoundList(t)
         /\ Carries(q, l, Append(q, x), t, n, p, same, 0, N)
<1> DEFINE r == Append(q, x)
           e == Len(q) + 1
           s == [from |-> n, msg |-> SignalOf(x)]
<1>1. /\ IsSeq(r) /\ Len(q) \in Nat /\ DOMAIN q = 1..Len(q) /\ DOMAIN r = 1..e
      /\ Len(r) = e /\ r[e] = x /\ \A i \in 1..Len(q) : r[i] = q[i]
  BY Appending DEF SoundQueue
<1>2. Range(r) = Range(q) \cup {x}
  BY RangeAppended DEF SoundQueue
<1>3. q = <<>> <=> Len(q) = 0
  BY DEF SoundQueue, IsSeq
<1>4. r # <<>> /\ Head(r) = IF q = <<>> THEN x ELSE Head(q)
  <2>1. r # <<>> /\ Head(r) = r[1]
    <3> HIDE DEF r
    <3>1. r # <<>>
      BY <1>1 DEF IsSeq
    <3> QED
      BY <1>1, <3>1, Shortening
  <2>2. q # <<>> => Head(q) = q[1] /\ 1 \in 1..Len(q)
    BY Shortening DEF SoundQueue
  <2> QED
    BY <1>1, <1>3, <2>1, <2>2
<1>5. /\ Says(s.msg) /\ s.from = n
      /\ s.msg.sig = "FINISH" => x.type = "REMOVE_APP" /\ s.msg.cores = x.cores
  BY SignalSays
<1> HIDE DEF r, s
<1>6. /\ SoundList(t) /\ Range(l) \subseteq Range(t)
      /\ \A u \in Range(t) : u \in Range(l) \/ (q = <<>> /\ u = s)
  <2>1. CASE q = <<>>
    <3>1. t = Append(l, s)
      BY <2>1 DEF s
    <3>2. Range(t) = Range(l) \cup {s} /\ IsSeq(t)
      BY <3>1, RangeAppended, Appending DEF SoundList
    <3> QED
      BY <1>5, <2>1, <3>2 DEF SoundList
  <2>2. CASE q # <<>>
    BY <2>2
  <2> QED
    BY <2>1, <2>2
<1>7. SoundQueue(r)
  <2>1. ASSUME NEW i \in DOMAIN r, i # 1 PROVE r[i].type \in Waiting
    <3>1. CASE i = e
      BY <1>1, <1>3, <2>1, <3>1
    <3>2. CASE i # e
      BY <1>1, <2>1, <3>2 DEF SoundQueue
    <3> QED
      BY <3>1, <3>2
  <2> QED
    BY <1>1, <1>2, <2>1 DEF SoundQueue
<1>8. ASSUME NEW y, Lends(r, y)
      PROVE  Lends(q, y) \/ <<n, p, 1, y>> \in N
  <2>1. CASE q = <<>>
    <3>1. e = 1 /\ x.type \in Offers /\ y \in x.cores
      BY <1>3, <1>4, <1>8, <2>1 DEF Lends
    <3> QED
      BY <3>1
  <2>2. CASE q # <<>>
    BY <1>4, <1>8, <2>2 DEF Lends
  <2> QED
    BY <2>1, <2>2
<1>9. ASSUME NEW y, NEW i \in Nat, Gives(r, t, n, i, y)
      PROVE  Gives(q, l, n, i, y) \/ <<n, p, i, y>> \in N
  <2>1. CASE i = 1 /\ \E u \in Range(t) :
               u.from = n /\ u.msg.sig = "FINISH" /\ y \in u.msg.cores
    <3>1. PICK u \in Range(t) :
            u.from = n /\ u.msg.sig = "FINISH" /\ y \in u.msg.cores
      BY <2>1
    <3>2. CASE u \in Range(l)
      BY <2>1, <3>1, <3>2 DEF Gives
    <3>3. CASE q = <<>> /\ u = s
      BY <1>3, <1>5, <2>1, <3>1, <3>3
    <3> QED
      BY <1>6, <3>2, <3>3
  <2>2. CASE /\ i \in DOMAIN r /\ i > 1
             /\ r[i].type = "REMOVE_APP" /\ y \in r[i].cores
    <3>1. CASE i = e
      BY <1>1, <2>2, <3>1
    <3>2. CASE i # e
      BY <1>1, <2>2, <3>2 DEF Gives
    <3> QED
      BY <3>1, <3>2
  <2> QED
    BY <1>9, <2>1, <2>2 DEF Gives
<1>10. Carries(q, l, r, t, n, p, same, 0, N)
  BY <1>4, <1>6, <1>8, <1>9 DEF Carries
<1> QED
  BY <1>6, <1>7, <1>10 DEF r

\* The head is over, and the next is sent: that can be the report of an end.
LEMMA PairPops ==
  ASSUME NEW q, SoundQueue(q), q # <<>>, NEW l, SoundList(l), NEW n, NEW p,
         \A s \in Range(l) : s.from = n => s.msg.sig # "FINISH",
         NEW t,
         t = IF Tail(q) # <<>>
             THEN Append(l, [from |-> n, msg |-> SignalOf(Head(Tail(q)))]) ELSE l
  PROVE  /\ SoundQueue(Tail(q)) /\ SoundList(t)
         /\ Carries(q, l, Tail(q), t, n, p, FALSE, 1, {})
<1> DEFINE r == Tail(q)
           x == Head(r)
           s == [from |-> n, msg |-> SignalOf(x)]
<1>1. /\ IsSeq(r) /\ Len(q) \in Nat \ {0} /\ DOMAIN q = 1..Len(q)
      /\ DOMAIN r = 1..(Len(q) - 1) /\ \A i \in 1..(Len(q) - 1) : r[i] = q[i + 1]
  BY Shortening DEF SoundQueue
<1>2. Range(r) \subseteq Range(q)
  BY RangeTailed DEF SoundQueue
<1> HIDE DEF r
<1>3. r # <<>> => x = q[2] /\ 2 \in DOMAIN q /\ x \in Range(r)
  <2> SUFFICES ASSUME r # <<>> PROVE x = q[2] /\ 2 \in DOMAIN q /\ x \in Range(r)
    OBVIOUS
  <2>1. x = r[1] /\ 1 \in DOMAIN r
    BY <1>1, Shortening
  <2> QED
    BY <1>1, <2>1 DEF Range
<1>4. SoundQueue(r)
  <2>1. ASSUME NEW i \in DOMAIN r PROVE r[i].type \in Waiting
    <3>1. i + 1 \in DOMAIN q /\ i + 1 # 1 /\ r[i] = q[i + 1]
      BY <1>1
    <3> QED
      BY <3>1 DEF SoundQueue
  <2> QED
    BY <1>1, <1>2, <2>1 DEF SoundQueue
<1>5. r # <<>> =>
        /\ x.type \in Waiting /\ Says(s.msg) /\ s.from = n
        /\ s.msg.sig = "FINISH" => x.type = "REMOVE_APP" /\ s.msg.cores = x.cores
  <2>1. r # <<>> => x.type \in Waiting /\ Speaks(x)
    BY <1>2, <1>3 DEF SoundQueue
  <2> QED
    BY <2>1, SignalSays
<1> HIDE DEF s
<1>6. /\ SoundList(t) /\ Range(l) \subseteq Range(t)
      /\ \A u \in Range(t) : u \in Range(l) \/ (r # <<>> /\ u = s)
  <2>1. CASE r # <<>>
    <3>1. t = Append(l, s)
      BY <2>1 DEF s, r
    <3>2. Range(t) = Range(l) \cup {s} /\ IsSeq(t)
      BY <3>1, RangeAppended, Appending DEF SoundList
    <3> QED
      BY <1>5, <2>1, <3>2 DEF SoundList
  <2>2. CASE r = <<>>
    BY <2>2 DEF r
  <2> QED
    BY <2>1, <2>2
<1>7. ASSUME NEW y, Lends(r, y) PROVE FALSE
  BY <1>5, <1>7 DEF Lends, Waiting, Offers, Reports
<1>8. ASSUME NEW y, NEW i \in Nat, Gives(r, t, n, i, y)
      PROVE  Gives(q, l, n, i + 1, y)
  <2>1. CASE i = 1 /\ \E u \in Range(t) :
               u.from = n /\ u.msg.sig = "FINISH" /\ y \in u.msg.cores
    <3>1. PICK u \in Range(t) :
            u.from = n /\ u.msg.sig = "FINISH" /\ y \in u.msg.cores
      BY <2>1
    <3>2. r # <<>> /\ u = s
      BY <1>6, <3>1
    <3>3. q[2].type = "REMOVE_APP" /\ y \in q[2].cores /\ 2 \in DOMAIN q
      BY <1>3, <1>5, <3>1, <3>2
    <3> QED
      BY <2>1, <3>3 DEF Gives
  <2>2. CASE /\ i \in DOMAIN r /\ i > 1
             /\ r[i].type = "REMOVE_APP" /\ y \in r[i].cores
    BY <1>1, <2>2 DEF Gives
  <2> QED
    BY <1>8, <2>1, <2>2 DEF Gives
<1> QED
  BY <1>4, <1>6, <1>7, <1>8 DEF Carries, r

\* The head becomes x, which a signal may tell: cores that were not on offer
\* before are not so now.
LEMMA PairGoesOn ==
  ASSUME NEW q, SoundQueue(q), q # <<>>, NEW l, SoundList(l), NEW n, NEW p,
         NEW x, Speaks(x),
         x.type \in Offers => Head(q).type \in Offers /\ x.cores = Head(q).cores,
         NEW t,
         \/ t = l
         \/ \E s : /\ t = Append(l, s) /\ Says(s.msg) /\ s.msg.sig # "FINISH"
  PROVE  /\ SoundQueue(<<x>> \o Tail(q)) /\ SoundList(t)
         /\ Carries(q, l, <<x>> \o Tail(q), t, n, p, FALSE, 0, {})
<1> DEFINE r == <<x>> \o Tail(q)
<1>1. PICK S : q \in Seq(S) /\ x \in S
  <2>1. PICK S : q \in Seq(S)
    BY DEF SoundQueue, IsSeq
  <2>2. q \in Seq(S \cup {x})
    BY <2>1
  <2> QED
    BY <2>2
<1>2. Tail(q) \in Seq(S) /\ Len(Tail(q)) = Len(q) - 1 /\ Len(q) \in Nat \ {0}
  BY <1>1
<1>3. /\ r \in Seq(S) /\ Len(r) = Len(q) /\ r[1] = x
      /\ \A i \in 2..Len(q) : r[i] = q[i]
  BY <1>1, <1>2
<1>4. r # <<>> /\ Head(r) = x
  BY <1>2, <1>3
<1> HIDE DEF r
<1>5. DOMAIN q = 1..Len(q) /\ DOMAIN r = 1..Len(q) /\ IsSeq(r)
  BY <1>1, <1>3 DEF IsSeq
<1>6. \A i \in DOMAIN r : i # 1 => i \in DOMAIN q /\ r[i] = q[i]
  BY <1>3, <1>5
<1>7. SoundQueue(r)
  <2>1. Range(r) \subseteq Range(q) \cup {x}
    BY <1>3, <1>6 DEF Range
  <2> QED
    BY <1>5, <1>6, <2>1 DEF SoundQueue
<1>8. \A y : Lends(r, y) => Lends(q, y)
  BY <1>4 DEF Lends
<1>9. CASE t = l
  <2>1. \A y : \A i \in Nat : Gives(r, t, n, i, y) => Gives(q, l, n, i, y)
    BY <1>6, <1>9 DEF Gives
  <2> QED
    BY <1>7, <1>8, <1>9, <2>1 DEF Carries, r
<1>10. ASSUME NEW s, t = Append(l, s), Says(s.msg), s.msg.sig # "FINISH"
       PROVE  SoundList(t) /\ Carries(q, l, r, t, n, p, FALSE, 0, {})
  <2>1. Range(t) = Range(l) \cup {s} /\ IsSeq(t)
    BY <1>10, RangeAppended, Appending DEF SoundList
  <2>2. \A y : \A i \in Nat : Gives(r, t, n, i, y) => Gives(q, l, n, i, y)
    BY <1>6, <1>10, <2>1 DEF Gives
  <2> QED
    BY <1>8, <1>10, <2>1, <2>2 DEF Carries, SoundList
<1> QED
  BY <1>7, <1>9, <1>10 DEF r
-----------------------------------------------------------------------------
(* What the calls do to the whole network.                                   *)

\* One call after another.
LEMMA Following ==
  ASSUME NEW net, NEW r, NEW t, NEW n, NEW P, NEW k, NEW M, NEW K, NEW N,
         Goes(net, r, n, P, 0, M), Goes(r, t, n, P, k, K), k \in {0, 1},
         M = {} \/ k = 0, M \subseteq N, K \subseteq N
  PROVE  Goes(net, t, n, P, k, N)
<1> SUFFICES ASSUME NEW m \in Node, NEW q \in Node
             PROVE  Carries(net.inter[m][q], net.mail[q], t.inter[m][q],
                            t.mail[q], m, q, ~ (m = n /\ q \in P),
                            IF m = n /\ q \in P THEN k ELSE 0, N)
  BY DEF Goes
<1> DEFINE A == net.inter[m][q]
           B1 == r.inter[m][q]
           C == t.inter[m][q]
           a == net.mail[q]
           b == r.mail[q]
           c == t.mail[q]
           same == ~ (m = n /\ q \in P)
           j == IF m = n /\ q \in P THEN k ELSE 0
<1>1. Carries(A, a, B1, b, m, q, same, 0, M)
  BY DEF Goes
<1>2. Carries(B1, b, C, c, m, q, same, j, K)
  BY DEF Goes
<1>3. j \in {0, 1} /\ (M = {} \/ j = 0)
  OBVIOUS
<1> HIDE DEF A, B1, C, a, b, c, same, j
<1>4. Carries(A, a, C, c, m, q, same, j, N)
  <2>1. Range(a) \subseteq Range(c)
    BY <1>1, <1>2 DEF Carries
  <2>2. same /\ A # <<>> => C # <<>> /\ Head(C) = Head(A)
    BY <1>1, <1>2 DEF Carries
  <2>3. \A x : Lends(C, x) => (j = 0 /\ Lends(A, x)) \/ <<m, q, 1, x>> \in N
    BY <1>1, <1>2 DEF Carries
  <2>4. ASSUME NEW x, NEW i \in Nat, Gives(C, c, m, i, x)
        PROVE  Gives(A, a, m, i + j, x) \/ <<m, q, i, x>> \in N
    <3>1. CASE <<m, q, i, x>> \in K
      BY <3>1
    <3>2. CASE <<m, q, i, x>> \notin K
      <4>1. Gives(B1, b, m, i + j, x)
        BY <1>2, <2>4, <3>2 DEF Carries
      <4>2. i + j \in Nat
        BY <1>3
      <4>3. Gives(A, a, m, (i + j) + 0, x) \/ <<m, q, i + j, x>> \in M
        BY <1>1, <4>1, <4>2 DEF Carries
      <4>4. (i + j) + 0 = i + j /\ (j = 0 => i + j = i)
        BY <4>2
      <4> QED
        BY <1>3, <4>3, <4>4
    <3> QED
      BY <3>1, <3>2
  <2> QED
    BY <2>1, <2>2, <2>3, <2>4 DEF Carries
<1> QED
  BY <1>4 DEF A, C, a, c, same, j

LEMMA GoesSame ==
  ASSUME NEW net, Sound(net), NEW n, NEW P
  PROVE  Goes(net, net, n, P, 0, {})
<1> SUFFICES ASSUME NEW m \in Node, NEW q \in Node
             PROVE  Carries(net.inter[m][q], net.mail[q], net.inter[m][q],
                            net.mail[q], m, q, ~ (m = n /\ q \in P),
                            IF m = n /\ q \in P THEN 0 ELSE 0, {})
  BY DEF Goes
<1>1. IsSeq(net.mail[q])
  BY DEF Sound, SoundList
<1> QED
  BY <1>1, PairStays

\* A signal is sent.
LEMMA GoesSend ==
  ASSUME NEW net, Sound(net), NEW n \in Node, NEW p \in Node, NEW s, Says(s),
         s.sig # "FINISH", NEW r, Sends(net, r, n, p, s), NEW P
  PROVE  Sound(r) /\ Goes(net, r, n, P, 0, {})
<1> DEFINE u == [from |-> n, msg |-> s]
<1>1. /\ IsNet(r) /\ OnlyWith(net, r, n, p) /\ r.inter = net.inter
      /\ r.mail[p] = Append(net.mail[p], u)
  BY SendIs DEF Sound
<1>2. u.msg = s
  OBVIOUS
<1> HIDE DEF u
<1>3. \A m \in Node : IsSeq(net.mail[m]) /\ SoundList(net.mail[m])
  BY DEF Sound, SoundList
<1>4. SoundList(r.mail[p])
  <2>1. Range(r.mail[p]) = Range(net.mail[p]) \cup {u} /\ IsSeq(r.mail[p])
    BY <1>1, <1>3, RangeAppended, Appending
  <2> QED
    BY <1>2, <1>3, <2>1 DEF SoundList
<1>5. \A m \in Node : m # p => r.mail[m] = net.mail[m]
  BY <1>1 DEF OnlyWith
<1>6. Sound(r)
  BY <1>1, <1>3, <1>4, <1>5 DEF Sound
<1>7. ASSUME NEW m \in Node, NEW q \in Node, NEW same
      PROVE  Carries(net.inter[m][q], net.mail[q], net.inter[m][q], r.mail[q],
                     m, q, same, 0, {})
  <2>1. \/ r.mail[q] = net.mail[q]
        \/ r.mail[q] = Append(net.mail[q], u) /\ u.msg.sig # "FINISH"
    BY <1>1, <1>2, <1>5
  <2> QED
    BY <1>3, <2>1, PairStays
<1> QED
  BY <1>1, <1>6, <1>7 DEF Goes

\* The queue of n for p and the list of p change alone.
LEMMA GoesOne ==
  ASSUME NEW net, Sound(net), NEW r, IsNet(r), NEW n \in Node, NEW p \in Node,
         OnlyWith(net, r, n, p), SoundQueue(r.inter[n][p]), SoundList(r.mail[p]),
         \/ r.mail[p] = net.mail[p]
         \/ \E s : r.mail[p] = Append(net.mail[p], s) /\ s.from = n,
         NEW P, NEW k, NEW N,
         Carries(net.inter[n][p], net.mail[p], r.inter[n][p], r.mail[p], n, p,
                 p \notin P, IF p \in P THEN k ELSE 0, N),
         k = 0 \/ P = {p}
  PROVE  Sound(r) /\ Goes(net, r, n, P, k, N)
<1>1. /\ \A m \in Node : m # n => r.inter[m] = net.inter[m]
      /\ \A m \in Node : m # p =>
           r.inter[n][m] = net.inter[n][m] /\ r.mail[m] = net.mail[m]
  BY DEF OnlyWith
<1>2. Sound(r)
  <2>1. \A m \in Node : SoundList(r.mail[m])
    BY <1>1 DEF Sound
  <2>2. ASSUME NEW m \in Node, NEW q \in Node PROVE SoundQueue(r.inter[m][q])
    <3>1. CASE m = n /\ q = p
      BY <3>1
    <3>2. CASE ~ (m = n /\ q = p)
      BY <1>1, <3>2 DEF Sound
    <3> QED
      BY <3>1, <3>2
  <2> QED
    BY <2>1, <2>2 DEF Sound
<1>3. ASSUME NEW m \in Node, NEW q \in Node
      PROVE  Carries(net.inter[m][q], net.mail[q], r.inter[m][q], r.mail[q],
                     m, q, ~ (m = n /\ q \in P),
                     IF m = n /\ q \in P THEN k ELSE 0, N)
  <2>1. CASE m = n /\ q = p
    BY <2>1
  <2>2. CASE ~ (m = n /\ q = p)
    <3>1. r.inter[m][q] = net.inter[m][q] /\ IsSeq(net.mail[q])
      BY <1>1, <2>2 DEF Sound, SoundList
    <3>2. \/ r.mail[q] = net.mail[q]
          \/ \E s : r.mail[q] = Append(net.mail[q], s) /\ s.from # m
      BY <1>1, <2>2
    <3>3. Carries(net.inter[m][q], net.mail[q], net.inter[m][q], r.mail[q],
                  m, q, ~ (m = n /\ q \in P), 0, N)
      BY <3>1, <3>2, PairStays
    <3>4. (IF m = n /\ q \in P THEN k ELSE 0) = 0
      BY <2>2
    <3> QED
      BY <3>1, <3>3, <3>4
  <2> QED
    BY <2>1, <2>2
<1> QED
  BY <1>2, <1>3 DEF Goes

\* An interaction is begun.
LEMMA GoesPost ==
  ASSUME NEW net, Sound(net), NEW n \in Node, NEW p \in Node, NEW x,
         \/ x.type \in Waiting
         \/ net.inter[n][p] = <<>> /\ x.type = "REP_AGENT_REQ_CORES",
         Speaks(x), NEW N,
         x.type \in Offers \cup {"REMOVE_APP"} =>
           \A y \in x.cores : <<n, p, Len(net.inter[n][p]) + 1, y>> \in N,
         NEW r, Posts(net, r, n, p, x), NEW P
  PROVE  Sound(r) /\ Goes(net, r, n, P, 0, N)
<1> DEFINE q == net.inter[n][p]
           l == net.mail[p]
           s == [from |-> n, msg |-> SignalOf(x)]
<1>1. /\ IsNet(r) /\ OnlyWith(net, r, n, p) /\ r.inter[n][p] = Append(q, x)
      /\ r.mail[p] = IF q = <<>> THEN Append(l, s) ELSE l
  BY PostIs DEF Sound
<1>2. SoundQueue(q) /\ SoundList(l) /\ s.from = n
  BY DEF Sound
<1>3. \A same :
        /\ SoundQueue(r.inter[n][p]) /\ SoundList(r.mail[p])
        /\ Carries(q, l, r.inter[n][p], r.mail[p], n, p, same, 0, N)
  <2>1. /\ x.type \in Waiting \/ (q = <<>> /\ x.type = "REP_AGENT_REQ_CORES")
        /\ x.type \in Offers \cup {"REMOVE_APP"} =>
             \A y \in x.cores : <<n, p, Len(q) + 1, y>> \in N
    OBVIOUS
  <2> HIDE DEF q, l
  <2>2. \A t, same : t = (IF q = <<>> THEN Append(l, s) ELSE l) =>
          /\ SoundQueue(Append(q, x)) /\ SoundList(t)
          /\ Carries(q, l, Append(q, x), t, n, p, same, 0, N)
    BY <1>2, <2>1, PairPosts
  <2> QED
    BY <1>1, <2>2
<1> HIDE DEF s
<1>4. r.mail[p] = l \/ (r.mail[p] = Append(l, s) /\ s.from = n)
  BY <1>1, <1>2
<1>5. (IF p \in P THEN 0 ELSE 0) = 0
  OBVIOUS
<1>6. Carries(q, l, r.inter[n][p], r.mail[p], n, p, p \notin P,
              IF p \in P THEN 0 ELSE 0, N)
  BY <1>3, <1>5
<1> QED
  BY <1>1, <1>3, <1>4, <1>6, GoesOne

\* An interaction is over and the next one is sent.
Pops(net, r, n, p) == r = Pop(net, n, p)
LEMMA NextWaits ==
  ASSUME NEW q, SoundQueue(q), q # <<>>, NEW rest, rest = Tail(q), rest # <<>>
  PROVE  Head(rest).type \in Waiting
<1>1. /\ IsSeq(rest) /\ Len(q) \in Nat \ {0} /\ DOMAIN q = 1..Len(q)
      /\ DOMAIN rest = 1..(Len(q) - 1)
      /\ \A i \in 1..(Len(q) - 1) : rest[i] = q[i + 1]
  BY Shortening DEF SoundQueue
<1>2. Head(rest) = rest[1] /\ 1 \in DOMAIN rest
  BY <1>1, Shortening
<1>3. Head(rest) = q[2] /\ 2 \in DOMAIN q
  BY <1>1, <1>2
<1> QED
  BY <1>3 DEF SoundQueue

Popped(net, r, n, p, rest) ==
  /\ IsNet(r) /\ OnlyWith(net, r, n, p) /\ r.inter[n][p] = rest
  /\ r.mail[p] =
       IF rest # <<>>
       THEN Append(net.mail[p], [from |-> n, msg |-> SignalOf(Head(rest))])
       ELSE net.mail[p]
LEMMA PopParts ==
  ASSUME NEW net, Sound(net), NEW n \in Node, NEW p \in Node,
         net.inter[n][p] # <<>>, NEW r, Pops(net, r, n, p)
  PROVE  Popped(net, r, n, p, Tail(net.inter[n][p]))
<1> DEFINE q == net.inter[n][p]
           l == net.mail[p]
           rest == Tail(q)
           popped == [net EXCEPT !.inter[n][p] = rest]
           s == [from |-> n, msg |-> SignalOf(Head(rest))]
<1>1. SoundQueue(q)
  BY DEF Sound
<1>2. rest # <<>> => Head(rest).type \in SendsWhenNext
  <2>1. q # <<>>
    OBVIOUS
  <2> HIDE DEF q
  <2>2. rest # <<>> => Head(rest).type \in Waiting
    BY <1>1, <2>1, NextWaits
  <2> QED
    BY <2>2 DEF Waiting, Reports, SendsWhenNext
<1>3. r = IF rest # <<>> THEN Send(popped, n, p, SignalOf(Head(rest))) ELSE popped
  BY <1>2 DEF Pops, Pop
<1>4. Keeps(net, popped, n, p, rest)
  BY DEF Keeps
<1> HIDE DEF popped, rest
<1>5. /\ IsNet(popped) /\ OnlyWith(net, popped, n, p)
      /\ popped.mail = net.mail /\ popped.inter[n][p] = rest
  BY <1>4, SetIs DEF Sound
<1>6. ASSUME rest = <<>> PROVE Popped(net, r, n, p, rest)
  BY <1>3, <1>5, <1>6 DEF Popped
<1>7. ASSUME rest # <<>> PROVE Popped(net, r, n, p, rest)
  <2>1. Sends(popped, r, n, p, SignalOf(Head(rest)))
    BY <1>3, <1>7 DEF Sends
  <2>2. /\ IsNet(r) /\ OnlyWith(popped, r, n, p) /\ r.inter = popped.inter
        /\ r.mail[p] = Append(popped.mail[p], s)
    BY <1>5, <2>1, SendIs
  <2>3. OnlyWith(net, r, n, p) /\ r.inter[n][p] = rest
    BY <1>5, <2>2 DEF OnlyWith
  <2> QED
    BY <1>5, <1>7, <2>2, <2>3 DEF Popped
<1>8. Popped(net, r, n, p, rest)
  BY <1>6, <1>7
<1> QED
  BY <1>8 DEF rest

LEMMA GoesPop ==
  ASSUME NEW net, Sound(net), NEW n \in Node, NEW p \in Node,
         net.inter[n][p] # <<>>,
         \A s \in Range(net.mail[p]) : s.from = n => s.msg.sig # "FINISH",
         NEW r, Pops(net, r, n, p)
  PROVE  Sound(r) /\ Goes(net, r, n, {p}, 1, {})
<1> DEFINE q == net.inter[n][p]
           l == net.mail[p]
           rest == Tail(q)
           s == [from |-> n, msg |-> SignalOf(Head(rest))]
<1>1. SoundQueue(q) /\ SoundList(l) /\ s.from = n
  BY DEF Sound
<1>2. \A same :
        \A t : t = (IF rest # <<>> THEN Append(l, s) ELSE l) =>
          /\ SoundQueue(rest) /\ SoundList(t)
          /\ Carries(q, l, rest, t, n, p, FALSE, 1, {})
  <2>1. q # <<>> /\ \A u \in Range(l) : u.from = n => u.msg.sig # "FINISH"
    OBVIOUS
  <2> HIDE DEF q, l
  <2> QED
    BY <1>1, <2>1, PairPops
<1>3. /\ IsNet(r) /\ OnlyWith(net, r, n, p) /\ r.inter[n][p] = rest
      /\ r.mail[p] = IF rest # <<>> THEN Append(l, s) ELSE l
  <2>1. Popped(net, r, n, p, rest)
    BY PopParts
  <2> HIDE DEF rest
  <2> QED
    BY <2>1 DEF Popped
<1> HIDE DEF s, rest
<1>4. r.mail[p] = l \/ (r.mail[p] = Append(l, s) /\ s.from = n)
  BY <1>1, <1>3
<1>5. SoundQueue(r.inter[n][p]) /\ SoundList(r.mail[p])
  BY <1>2, <1>3
<1>6. Carries(q, l, r.inter[n][p], r.mail[p], n, p, p \notin {p},
              IF p \in {p} THEN 1 ELSE 0, {})
  BY <1>2, <1>3
<1> QED
  BY <1>3, <1>4, <1>5, <1>6, GoesOne

\* The head of a queue becomes x, without a signal.
Reheads(net, r, n, p, x) == r = Rehead(net, n, p, x)
LEMMA GoesRehead ==
  ASSUME NEW net, Sound(net), NEW n \in Node, NEW p \in Node,
         net.inter[n][p] # <<>>, NEW x, Speaks(x),
         x.type \in Offers => /\ Head(net.inter[n][p]).type \in Offers
                              /\ x.cores = Head(net.inter[n][p]).cores,
         NEW r, Reheads(net, r, n, p, x)
  PROVE  Sound(r) /\ Goes(net, r, n, {p}, 0, {})
<1> DEFINE q == net.inter[n][p]
           l == net.mail[p]
<1>1. /\ IsNet(r) /\ OnlyWith(net, r, n, p) /\ r.mail = net.mail
      /\ r.inter[n][p] = <<x>> \o Tail(q)
  BY ReheadIs DEF Sound, Reheads
<1>2. SoundQueue(q) /\ SoundList(l)
  BY DEF Sound
<1>3. SoundQueue(<<x>> \o Tail(q)) /\ SoundList(l)
      /\ Carries(q, l, <<x>> \o Tail(q), l, n, p, FALSE, 0, {})
  <2>1. q # <<>> /\ (x.type \in Offers =>
                       Head(q).type \in Offers /\ x.cores = Head(q).cores)
    OBVIOUS
  <2> HIDE DEF q, l
  <2> QED
    BY <1>2, <2>1, PairGoesOn
<1>4. Carries(q, l, r.inter[n][p], r.mail[p], n, p, p \notin {p},
              IF p \in {p} THEN 0 ELSE 0, {})
  BY <1>1, <1>3
<1> QED
  BY <1>1, <1>3, <1>4, GoesOne

\* What a node had to do with another is dropped.
LEMMA GoesClear ==
  ASSUME NEW net, Sound(net), NEW n \in Node, NEW p \in Node, NEW r,
         Keeps(net, r, n, p, <<>>)
  PROVE  Sound(r) /\ Goes(net, r, n, {p}, 0, {})
<1> DEFINE q == net.inter[n][p]
           l == net.mail[p]
           none == <<>>
<1>1. /\ IsNet(r) /\ OnlyWith(net, r, n, p) /\ r.mail = net.mail
      /\ r.inter[n][p] = none
  <2>1. Keeps(net, r, n, p, none)
    OBVIOUS
  <2> HIDE DEF none
  <2> QED
    BY <2>1, SetIs DEF Sound
<1>2. SoundQueue(none) /\ SoundList(l)
  BY DEF Sound, SoundQueue, IsSeq, Range
<1>3. Carries(q, l, none, l, n, p, FALSE, 0, {})
  BY DEF Carries, Lends, Gives
<1>4. Carries(q, l, r.inter[n][p], r.mail[p], n, p, p \notin {p},
              IF p \in {p} THEN 0 ELSE 0, {})
  BY <1>1, <1>3
<1> QED
  BY <1>1, <1>2, <1>4, GoesOne

\* Interactions with several nodes are begun.
LEMMA GoesSpread ==
  ASSUME NEW net, Sound(net), NEW n \in Node, NEW items,
         \A p \in DOMAIN items : items[p].type \in Waiting /\ Speaks(items[p]),
         NEW N,
         \A p \in DOMAIN items : items[p].type = "REMOVE_APP" =>
           \A y \in items[p].cores : <<n, p, Len(net.inter[n][p]) + 1, y>> \in N,
         NEW r, PostsAll(net, r, n, items), NEW P
  PROVE  Sound(r) /\ Goes(net, r, n, P, 0, N)
<1>1. /\ IsNet(r) /\ \A m \in Node : m # n => r.inter[m] = net.inter[m]
      /\ \A p \in Node : r.inter[n][p] =
           IF p \in DOMAIN items THEN Append(net.inter[n][p], items[p])
           ELSE net.inter[n][p]
      /\ \A p \in Node : r.mail[p] =
           IF p \in DOMAIN items /\ net.inter[n][p] = <<>>
           THEN Append(net.mail[p], [from |-> n, msg |-> SignalOf(items[p])])
           ELSE net.mail[p]
  BY PostAllParts DEF Sound, PostsAll
<1>2. ASSUME NEW p \in Node
      PROVE  /\ SoundQueue(r.inter[n][p]) /\ SoundList(r.mail[p])
             /\ \A same : Carries(net.inter[n][p], net.mail[p], r.inter[n][p],
                                  r.mail[p], n, p, same, 0, N)
             /\ \/ r.mail[p] = net.mail[p]
                \/ \E s : r.mail[p] = Append(net.mail[p], s) /\ s.from = n
  <2> DEFINE q == net.inter[n][p]
             l == net.mail[p]
  <2>1. SoundQueue(q) /\ SoundList(l)
    BY DEF Sound
  <2>2. CASE p \notin DOMAIN items
    <3>1. r.inter[n][p] = q /\ r.mail[p] = l
      BY <1>1, <2>2
    <3>2. \A same : Carries(q, l, q, l, n, p, same, 0, N)
      BY <2>1, PairStays DEF SoundList
    <3> QED
      BY <2>1, <3>1, <3>2
  <2>3. CASE p \in DOMAIN items
    <3> DEFINE x == items[p]
               s == [from |-> n, msg |-> SignalOf(x)]
    <3>1. /\ r.inter[n][p] = Append(q, x) /\ s.from = n
          /\ r.mail[p] = IF q = <<>> THEN Append(l, s) ELSE l
      BY <1>1, <2>3
    <3>2. /\ x.type \in Waiting /\ Speaks(x)
          /\ x.type \in Offers \cup {"REMOVE_APP"} =>
               \A y \in x.cores : <<n, p, Len(q) + 1, y>> \in N
      BY <2>3 DEF Waiting, Offers, Reports
    <3> HIDE DEF x, q, l
    <3>3. \A t, same : t = (IF q = <<>> THEN Append(l, s) ELSE l) =>
            /\ SoundQueue(Append(q, x)) /\ SoundList(t)
            /\ Carries(q, l, Append(q, x), t, n, p, same, 0, N)
      BY <2>1, <3>2, PairPosts
    <3>4. r.mail[p] = l \/ \E u : r.mail[p] = Append(l, u) /\ u.from = n
      BY <3>1
    <3> QED
      BY <3>1, <3>3, <3>4 DEF q, l
  <2> QED
    BY <2>2, <2>3
<1>3. Sound(r)
  <2>1. ASSUME NEW m \in Node, NEW q \in Node PROVE SoundQueue(r.inter[m][q])
    BY <1>1, <1>2 DEF Sound
  <2> QED
    BY <1>1, <1>2, <2>1 DEF Sound
<1>4. ASSUME NEW m \in Node, NEW q \in Node
      PROVE  Carries(net.inter[m][q], net.mail[q], r.inter[m][q], r.mail[q],
                     m, q, ~ (m = n /\ q \in P),
                     IF m = n /\ q \in P THEN 0 ELSE 0, N)
  <2>1. CASE m = n
    BY <1>2, <2>1
  <2>2. CASE m # n
    <3>1. r.inter[m][q] = net.inter[m][q] /\ IsSeq(net.mail[q])
      BY <1>1, <2>2 DEF Sound, SoundList
    <3>2. \/ r.mail[q] = net.mail[q]
          \/ \E s : r.mail[q] = Append(net.mail[q], s) /\ s.from # m
      BY <1>2, <2>2
    <3> QED
      BY <3>1, <3>2, PairStays
  <2> QED
    BY <2>1, <2>2
<1> QED
  BY <1>3, <1>4 DEF Goes

\* Offers are answered.
LEMMA GoesAnswers ==
  ASSUME NEW net, Sound(net), NEW n \in Node, NEW r, Replies(net, r, n),
         \A p \in Unanswered(n) : net.inter[n][p] # <<>>
  PROVE  Sound(r) /\ Goes(net, r, n, Unanswered(n), 0, {})
<1>1. /\ IsNet(r) /\ \A m \in Node : m # n => r.inter[m] = net.inter[m]
      /\ \A p \in Node : p \notin Unanswered(n) =>
           r.inter[n][p] = net.inter[n][p] /\ r.mail[p] = net.mail[p]
  BY DEF Replies
<1>2. ASSUME NEW p \in Node
      PROVE  /\ SoundQueue(r.inter[n][p]) /\ SoundList(r.mail[p])
             /\ Carries(net.inter[n][p], net.mail[p], r.inter[n][p],
                        r.mail[p], n, p, p \notin Unanswered(n), 0, {})
             /\ \/ r.mail[p] = net.mail[p]
                \/ \E s : r.mail[p] = Append(net.mail[p], s) /\ s.from = n
  <2> DEFINE q == net.inter[n][p]
             l == net.mail[p]
  <2>1. SoundQueue(q) /\ SoundList(l)
    BY DEF Sound
  <2>2. CASE p \notin Unanswered(n)
    <3>1. r.inter[n][p] = q /\ r.mail[p] = l
      BY <1>1, <2>2
    <3>2. Carries(q, l, q, l, n, p, p \notin Unanswered(n), 0, {})
      BY <2>1, PairStays DEF SoundList
    <3> QED
      BY <2>1, <3>1, <3>2
  <2>3. CASE p \in Unanswered(n)
    <3>1. PICK x : /\ x.type = "REP_AGENT_OFFER_SENT"
                   /\ r.inter[n][p] = <<x>> \o Tail(q)
                   /\ r.mail[p] = Append(l, [from |-> n, msg |-> SignalOf(x)])
      BY <2>3 DEF Replies
    <3> DEFINE s == [from |-> n, msg |-> SignalOf(x)]
    <3>2. s.from = n /\ s.msg.sig # "FINISH" /\ Says(s.msg)
      BY <3>1 DEF SignalOf, Says
    <3>3. Speaks(x) /\ x.type \notin Offers
      BY <3>1 DEF Speaks, Offers
    <3>4. q # <<>> /\ r.mail[p] = Append(l, s)
      BY <2>3, <3>1
    <3> HIDE DEF q, l, s
    <3>5. /\ SoundQueue(r.inter[n][p]) /\ SoundList(r.mail[p])
          /\ Carries(q, l, r.inter[n][p], r.mail[p], n, p, FALSE, 0, {})
      BY <2>1, <3>1, <3>2, <3>3, <3>4, PairGoesOn
    <3>6. Carries(q, l, r.inter[n][p], r.mail[p], n, p, p \notin Unanswered(n),
                  0, {})
      BY <2>3, <3>5 DEF Carries
    <3> QED
      BY <3>2, <3>4, <3>5, <3>6 DEF q, l
  <2> QED
    BY <2>2, <2>3
<1>3. Sound(r)
  <2>1. ASSUME NEW m \in Node, NEW q \in Node PROVE SoundQueue(r.inter[m][q])
    BY <1>1, <1>2 DEF Sound
  <2> QED
    BY <1>1, <1>2, <2>1 DEF Sound
<1>4. ASSUME NEW m \in Node, NEW q \in Node
      PROVE  Carries(net.inter[m][q], net.mail[q], r.inter[m][q], r.mail[q],
                     m, q, ~ (m = n /\ q \in Unanswered(n)),
                     IF m = n /\ q \in Unanswered(n) THEN 0 ELSE 0, {})
  <2>1. CASE m = n
    BY <1>2, <2>1 DEF Carries
  <2>2. CASE m # n
    <3>1. r.inter[m][q] = net.inter[m][q] /\ IsSeq(net.mail[q])
      BY <1>1, <2>2 DEF Sound, SoundList
    <3>2. \/ r.mail[q] = net.mail[q]
          \/ \E s : r.mail[q] = Append(net.mail[q], s) /\ s.from # m
      BY <1>2, <2>2
    <3> QED
      BY <3>1, <3>2, PairStays
  <2> QED
    BY <2>1, <2>2
<1> QED
  BY <1>3, <1>4 DEF Goes
-----------------------------------------------------------------------------
(* What a step of node n does, which changes what it has for the nodes of P. *)

Heads(n, P) ==
  \A m, q \in Node : inter[m][q] # <<>> /\ ~ (m = n /\ q \in P) =>
    inter'[m][q] # <<>> /\ Head(inter'[m][q]) = Head(inter[m][q])
Moves(n, P, k, N) ==
  \A m, q \in Node : \A x : \A i \in Nat : Lies(Net, m, q, i, x)' =>
    \/ <<m, q, i, x>> \in N
    \/ Lies(Net, m, q, IF m = n /\ q \in P THEN i + k ELSE i, x)
Offerings(n, P, k, N) ==
  \A m, q \in Node : \A x : Lends(inter'[m][q], x) =>
    \/ <<m, q, 1, x>> \in N
    \/ Lends(inter[m][q], x) /\ ~ (m = n /\ q \in P /\ k = 1)
Step(n, P, k, N) ==
  Sound(Net)' /\ Heads(n, P) /\ Moves(n, P, k, N) /\ Offerings(n, P, k, N)

OfferOver(n, p) == \A x : ~ Lends(inter'[n][p], x)

\* No manager offers a core to a manager that it did not offer before.
NoOffer ==
  \A m, q \in Agent : \A x : Lends(inter'[m][q], x) => Lends(inter[m][q], x)

LEMMA StepIs ==
  ASSUME NEW n, NEW P, NEW k \in {0, 1}, NEW N, NEW net, net.inter = inter,
         \A m \in Node : Range(net.mail[m]) \subseteq Range(mail[m]),
         \A m, q \in Node : Agreed(mail[m], q) =>
           Agreed(net.mail[m], q) \/ (m = n /\ q \in P /\ k = 1),
         NEW r, Sound(r), Goes(net, r, n, P, k, N), Becomes(r)
  PROVE  Step(n, P, k, N)
<1>1. /\ inter' = r.inter /\ mail' = r.mail /\ r = Net'
      /\ Net.inter = inter /\ Net.mail = mail
      /\ Net'.inter = inter' /\ Net'.mail = mail'
  BY DEF Becomes, Sound, IsNet, Net
<1>2. Sound(Net)'
  BY <1>1
<1>3. Heads(n, P)
  BY <1>1 DEF Heads, Goes, Carries
<1>4. ASSUME NEW m \in Node, NEW q \in Node, NEW x, NEW i \in Nat,
             Lies(Net, m, q, i, x)', <<m, q, i, x>> \notin N
      PROVE  Lies(Net, m, q, IF m = n /\ q \in P THEN i + k ELSE i, x)
  <2> DEFINE j == IF m = n /\ q \in P THEN k ELSE 0
  <2>1. Carries(inter[m][q], net.mail[q], inter'[m][q], mail'[q], m, q,
                ~ (m = n /\ q \in P), j, N)
    BY <1>1 DEF Goes
  <2>2. i + j = IF m = n /\ q \in P THEN i + k ELSE i
    OBVIOUS
  <2>3. CASE Gives(inter'[m][q], mail'[q], m, i, x)
    <3>1. Gives(inter[m][q], net.mail[q], m, i + j, x)
      BY <1>4, <2>1, <2>3 DEF Carries
    <3>2. Gives(inter[m][q], mail[q], m, i + j, x)
      BY <3>1 DEF Gives
    <3> QED
      BY <1>1, <2>2, <3>2 DEF Lies
  <2>4. CASE i = 1 /\ Lends(inter'[m][q], x) /\ ~ Agreed(mail'[m], q)
    <3>1. j = 0 /\ Lends(inter[m][q], x)
      BY <1>4, <2>1, <2>4 DEF Carries
    <3>2. ~ Agreed(mail[m], q)
      <4>1. Range(net.mail[m]) \subseteq Range(mail'[m])
        BY <1>1 DEF Goes, Carries
      <4>2. ~ Agreed(net.mail[m], q)
        BY <2>4, <4>1 DEF Agreed
      <4>3. ~ (m = n /\ q \in P /\ k = 1)
        BY <3>1
      <4> QED
        BY <4>2, <4>3
    <3>3. (IF m = n /\ q \in P THEN i + k ELSE i) = 1
      BY <2>2, <2>4, <3>1
    <3> QED
      BY <1>1, <3>1, <3>2, <3>3 DEF Lies
  <2> QED
    BY <1>1, <1>4, <2>3, <2>4 DEF Lies
<1>5. Moves(n, P, k, N)
  BY <1>4 DEF Moves
<1>6. ASSUME NEW m \in Node, NEW q \in Node, NEW x, Lends(inter'[m][q], x),
             <<m, q, 1, x>> \notin N
      PROVE  Lends(inter[m][q], x) /\ ~ (m = n /\ q \in P /\ k = 1)
  <2>1. Carries(inter[m][q], net.mail[q], inter'[m][q], mail'[q], m, q,
                ~ (m = n /\ q \in P), IF m = n /\ q \in P THEN k ELSE 0, N)
    BY <1>1 DEF Goes
  <2>2. /\ (IF m = n /\ q \in P THEN k ELSE 0) = 0
        /\ Lends(inter[m][q], x)
    BY <1>6, <2>1 DEF Carries
  <2> QED
    BY <2>2
<1>7. Offerings(n, P, k, N)
  BY <1>6 DEF Offerings
<1> QED
  BY <1>2, <1>3, <1>5, <1>7 DEF Step

\* A step of the program.
LEMMA ProgramMoves ==
  ASSUME NEW n, NEW P, NEW k \in {0, 1}, NEW N, NEW r, Sound(r),
         Goes(Net, r, n, P, k, N), Becomes(r)
  PROVE  Step(n, P, k, N)
BY StepIs DEF Net

\* A step that handles a signal.
LEMMA TakenSound ==
  ASSUME Shaped, Sound(Net), NEW n \in Node, mail[n] # <<>>
  PROVE  Sound(Taken(n)) /\ Taken(n).inter = inter
<1>1. /\ IsNet(Taken(n)) /\ Taken(n).inter = inter
      /\ Taken(n).mail[n] = Tail(mail[n])
      /\ \A m \in Node : m # n => Taken(n).mail[m] = mail[m]
  BY TakenIs
<1>2. /\ \A m \in Node : SoundList(mail[m])
      /\ \A m, q \in Node : SoundQueue(inter[m][q])
  BY DEF Sound, Net
<1>3. SoundList(Tail(mail[n]))
  BY <1>2, RangeTailed DEF SoundList
<1> QED
  BY <1>1, <1>2, <1>3 DEF Sound

LEMMA HandlerMoves ==
  ASSUME Shaped, Sound(Net), NEW n \in Node, mail[n] # <<>>, NEW P,
         NEW k \in {0, 1}, NEW N, NEW r, Sound(r),
         Goes(Taken(n), r, n, P, k, N), Becomes(r),
         \/ Head(mail[n]).msg.sig # "REP_OFFERS"
         \/ Head(mail[n]).msg.answer # 1
         \/ k = 1 /\ Peer(n) \in P
  PROVE  Step(n, P, k, N)
<1>1. /\ Taken(n).inter = inter /\ Taken(n).mail[n] = Tail(mail[n])
      /\ \A m \in Node : m # n => Taken(n).mail[m] = mail[m]
  BY TakenIs
<1>2. Range(mail[n]) = {Head(mail[n])} \cup Range(Tail(mail[n]))
  BY RangeTailed DEF Sound, SoundList, Net
<1>3. \A m \in Node : Range(Taken(n).mail[m]) \subseteq Range(mail[m])
  BY <1>1, <1>2
<1>4. ASSUME NEW m \in Node, NEW q \in Node, Agreed(mail[m], q),
             ~ Agreed(Taken(n).mail[m], q)
      PROVE  m = n /\ q \in P /\ k = 1
  <2>1. m = n
    BY <1>1, <1>4
  <2>2. Accepting(Head(mail[n]), q)
    BY <1>1, <1>2, <1>4, <2>1 DEF Agreed
  <2> QED
    BY <2>1, <2>2 DEF Accepting, Peer
<1>5. \A m, q \in Node : Agreed(mail[m], q) =>
        Agreed(Taken(n).mail[m], q) \/ (m = n /\ q \in P /\ k = 1)
  BY <1>4
<1> DEFINE net == Taken(n)
<1> HIDE DEF net
<1>6. /\ net.inter = inter
      /\ \A m \in Node : Range(net.mail[m]) \subseteq Range(mail[m])
      /\ \A m, q \in Node : Agreed(mail[m], q) =>
           Agreed(net.mail[m], q) \/ (m = n /\ q \in P /\ k = 1)
      /\ Goes(net, r, n, P, k, N)
  BY <1>1, <1>3, <1>5 DEF net
<1> QED
  BY <1>6, StepIs


\* A core that no call moves and nobody gets stays where it is.
LEMMA Stays ==
  ASSUME NEW x, OnePlace(x), NEW n \in Node, NEW P, NEW k \in {0, 1}, NEW N,
         Moves(n, P, k, N), k = 0 \/ n \notin P,
         \A m, q, i : <<m, q, i, x>> \notin N,
         \A m \in Node : Has(m, x)' => Has(m, x)
  PROVE  OnePlace(x)'
<1> DEFINE Was(m, q, i) == IF m = n /\ q \in P THEN i + k ELSE i
<1>1. ASSUME NEW m \in Node, NEW q \in Node, NEW i \in Nat, At(m, q, i, x)'
      PROVE  At(m, q, Was(m, q, i), x) /\ Was(m, q, i) \in Nat
  <2>1. CASE i = 0 /\ m = q /\ Has(m, x)'
    <3>1. Was(m, q, i) = 0
      BY <2>1
    <3> QED
      BY <2>1, <3>1 DEF At
  <2>2. CASE Lies(Net, m, q, i, x)'
    <3>1. Lies(Net, m, q, Was(m, q, i), x)
      BY <2>2 DEF Moves
    <3> QED
      BY <3>1 DEF At
  <2> QED
    BY <1>1, <2>1, <2>2 DEF At
<1>2. \A m, q : \A i, j \in Nat : Was(m, q, i) = Was(m, q, j) => i = j
  OBVIOUS
<1> HIDE DEF Was
<1> SUFFICES ASSUME NEW m \in Node, NEW q \in Node, NEW i \in Nat,
                    NEW l \in Node, NEW r \in Node, NEW j \in Nat,
                    At(m, q, i, x)', At(l, r, j, x)'
             PROVE  Same(m, q, i, l, r, j)
  BY DEF OnePlace, Same
<1>3. Same(m, q, Was(m, q, i), l, r, Was(l, r, j))
  BY <1>1 DEF OnePlace
<1> QED
  BY <1>2, <1>3 DEF Same

\* The places of a core after a step are an owner, new ones, or old ones.
LEMMA LaterPlaces ==
  ASSUME NEW x, NEW n \in Node, NEW P, NEW k, k \in {0, 1}, NEW N,
         Moves(n, P, k, N), NEW m \in Node, NEW q \in Node, NEW i \in Nat,
         At(m, q, i, x)'
  PROVE  \/ i = 0 /\ m = q /\ Has(m, x)'
         \/ <<m, q, i, x>> \in N
         \/ \E j \in Nat : /\ At(m, q, j, x) /\ i > 0 /\ Lies(Net, m, q, i, x)'
                           /\ j = IF m = n /\ q \in P THEN i + k ELSE i
<1>1. CASE i = 0 /\ m = q /\ Has(m, x)'
  BY <1>1
<1>2. CASE Lies(Net, m, q, i, x)'
  <2>1. \/ <<m, q, i, x>> \in N
        \/ Lies(Net, m, q, IF m = n /\ q \in P THEN i + k ELSE i, x)
    BY <1>2 DEF Moves
  <2>2. i > 0
    BY <1>2 DEF Lies, Gives
  <2> QED
    BY <1>2, <2>1, <2>2 DEF At
<1> QED
  BY <1>1, <1>2 DEF At

\* The cores of U leave place s.
Leaves(n, P, k, N, s1, s2, s3, U) ==
  \A x \in U :
    /\ At(s1, s2, s3, x) /\ (s3 = 0 => s1 = s2 /\ ~ Has(s1, x)')
    /\ s3 # 0 => \A i \in Nat : Lies(Net, s1, s2, i, x)' =>
         \/ <<s1, s2, i, x>> \in N
         \/ (IF s1 = n /\ s2 \in P THEN i + k ELSE i) # s3

\* Each core of U gets to one other place, and no other core does.
Arrives(N, U) ==
  /\ \A m, q, i, x : <<m, q, i, x>> \in N => x \in U
  /\ \A m \in Node : \A x : Has(m, x)' => Has(m, x) \/ x \in U
  /\ \A x \in U : \E t1, t2, t3 :
       /\ \A m, q, i : <<m, q, i, x>> \in N => Same(m, q, i, t1, t2, t3)
       /\ \A m \in Node : Has(m, x)' => Has(m, x) \/ Same(m, m, 0, t1, t2, t3)

LEMMA MovesOn ==
  ASSUME \A x \in Core : OnePlace(x), NEW n \in Node, NEW P, NEW k,
         k \in {0, 1}, NEW N, Moves(n, P, k, N), k = 0 \/ n \notin P,
         NEW s1 \in Node, NEW s2 \in Node, NEW s3 \in Nat, NEW U,
         Leaves(n, P, k, N, s1, s2, s3, U), Arrives(N, U)
  PROVE  \A x \in Core : OnePlace(x)'
<1>1. ASSUME NEW x \in Core, x \notin U PROVE OnePlace(x)'
  <2>1. /\ \A m, q, i : <<m, q, i, x>> \notin N
        /\ \A m \in Node : Has(m, x)' => Has(m, x)
    BY <1>1 DEF Arrives
  <2> QED
    BY <2>1, Stays
<1>2. ASSUME NEW x \in Core, x \in U PROVE OnePlace(x)'
  <2>1. /\ At(s1, s2, s3, x) /\ (s3 = 0 => s1 = s2 /\ ~ Has(s1, x)')
        /\ s3 # 0 => \A i \in Nat : Lies(Net, s1, s2, i, x)' =>
             \/ <<s1, s2, i, x>> \in N
             \/ (IF s1 = n /\ s2 \in P THEN i + k ELSE i) # s3
    BY <1>2 DEF Leaves
  <2>2. PICK t1, t2, t3 :
          /\ \A m, q, i : <<m, q, i, x>> \in N => Same(m, q, i, t1, t2, t3)
          /\ \A m \in Node : Has(m, x)' =>
               Has(m, x) \/ Same(m, m, 0, t1, t2, t3)
    BY <1>2 DEF Arrives
  <2>3. \A m, q \in Node : \A j \in Nat : At(m, q, j, x) =>
          Same(m, q, j, s1, s2, s3)
    BY <2>1 DEF OnePlace
  <2>4. ASSUME NEW m \in Node, NEW q \in Node, NEW i \in Nat, At(m, q, i, x)'
        PROVE  Same(m, q, i, t1, t2, t3)
    <3>1. CASE i = 0 /\ m = q /\ Has(m, x)'
      <4>1. CASE Has(m, x)
        <5>1. At(m, m, 0, x)
          BY <4>1 DEF At
        <5>2. Same(m, m, 0, s1, s2, s3)
          BY <2>3, <5>1
        <5> QED
          BY <2>1, <3>1, <5>2 DEF Same
      <4> QED
        BY <2>2, <3>1, <4>1
    <3>2. CASE <<m, q, i, x>> \in N
      BY <2>2, <3>2
    <3>3. ASSUME NEW j \in Nat, At(m, q, j, x), i > 0, Lies(Net, m, q, i, x)',
                 j = IF m = n /\ q \in P THEN i + k ELSE i
          PROVE  Same(m, q, i, t1, t2, t3)
      <4>1. m = s1 /\ q = s2 /\ j = s3 /\ j # 0
        BY <2>3, <3>3 DEF Same
      <4>2. <<m, q, i, x>> \in N
        BY <2>1, <3>3, <4>1
      <4> QED
        BY <2>2, <4>2
    <3> QED
      BY <2>4, <3>1, <3>2, <3>3, LaterPlaces
  <2> QED
    BY <2>4 DEF OnePlace, Same
<1> QED
  BY <1>1, <1>2

\* Signals from p are in the list of n.
Busy(n, p) ==
  \E s \in Range(mail[n]) : s.from = p /\ s.msg.sig # "APP_TERMINATED"

LEMMA NotBusy ==
  ASSUME NEW n, NEW p, NEW b, Line(mail[n], p, "none", b)
  PROVE  ~ Busy(n, p)
<1>1. From(mail[n], p) = {}
  BY DEF Line
<1> QED
  BY <1>1 DEF From, Busy, Range

\* A collected offer is fetched, and nothing is under way about it.
LEMMA Pending ==
  ASSUME IInv, NEW a \in Node, NEW s \in Node,
         HeadType(a, s) = "REP_AGENT_OFFER_PENDING"
  PROVE  HeadType(s, a) = "AGENT_OFFER_SENT" /\ ~ Busy(a, s) /\ ~ Busy(s, a)
<1>1. PICK i, j, c, d :
        /\ Line(mail[s], a, i, j) /\ Line(mail[a], s, c, d)
        /\ Talk(Stage(a, s), Stage(s, a), i, j, c, d, Blocked(a, s), Blocked(s, a))
  BY DEF IInv, Talked
<1>2. Stage(a, s) = "REP_AGENT_OFFER_PENDING"
  BY StageIs
<1>3. i = "none" /\ c = "none" /\ Stage(s, a) = "AGENT_OFFER_SENT"
  BY <1>1, <1>2 DEF Talk, Asks, Answered, Offering, Deciding, Refusing, Idle,
                    Reports, Call, Tells, Order
<1>4. HeadType(s, a) = "AGENT_OFFER_SENT"
  BY <1>3, StageIs
<1> QED
  BY <1>1, <1>3, <1>4, NotBusy

\* So it is with the cores in a data area.
LEMMA Loaded ==
  ASSUME IInv, NEW n \in Node, NEW d \in Range(data[n]), d.cores # {}
  PROVE  /\ d.from \in Node /\ d.from # n /\ d.from = waiting[n].from
         /\ data[n] = <<d>>
         /\ HeadType(d.from, n) = "AGENT_OFFER_SENT"
         /\ HeadType(n, d.from) = "SELFOPT_REQ_CORES"
         /\ ~ Busy(n, d.from) /\ ~ Busy(d.from, n)
<1>1. waiting[n] # NoSignal /\ data[n] = <<d>> /\ d.from = waiting[n].from
      /\ waiting[n].msg.body = "offers"
  <2>1. PICK e : /\ data[n] = <<e>> /\ e.from = waiting[n].from
                 /\ (waiting[n].msg.body = "offers") <=> (e.cores # {})
                 /\ waiting[n] # NoSignal
    BY DEF IInv, Area, Range
  <2>2. d = e
    BY <2>1 DEF Range
  <2> QED
    BY <2>1, <2>2
<1>2. PICK p : p = d.from
  OBVIOUS
<1>3. p \in Node /\ WaitsFor(n, p) /\ p # n /\ Blocked(n, p) = "cores"
  <2>1. p \in Node /\ WaitsFor(n, p)
    BY <1>1, <1>2 DEF IInv, Waits, WaitsFor
  <2> QED
    BY <1>1, <2>1, NotSelf DEF Blocked
<1>4. PICK i, j, c, e :
        /\ Line(mail[p], n, i, j) /\ Line(mail[n], p, c, e)
        /\ Talk(Stage(n, p), Stage(p, n), i, j, c, e, Blocked(n, p), Blocked(p, n))
  BY <1>3 DEF IInv, Talked
<1>5. /\ i = "none" /\ c = "none" /\ Stage(p, n) = "AGENT_OFFER_SENT"
      /\ Stage(n, p) = "SELFOPT_REQ_CORES"
  BY <1>3, <1>4 DEF Talk, Asks, Answered, Offering, Deciding, Refusing, Idle,
                    Reports, Call, Tells, Order
<1>6. HeadType(p, n) = "AGENT_OFFER_SENT" /\ HeadType(n, p) = "SELFOPT_REQ_CORES"
  BY <1>3, <1>5, StageIs
<1> QED
  BY <1>1, <1>2, <1>3, <1>4, <1>5, <1>6, NotBusy

\* The step leaves alone what others have collected.
Spares(n, P) ==
  \A p \in P : \/ HeadType(n, p) \notin {"REP_AGENT_OFFER_PENDING", "AGENT_OFFER_SENT"}
               \/ Busy(n, p)

LEMMA CollectedStays ==
  ASSUME IInv, NEW n \in Node, NEW P, Heads(n, P), NEW a \in Node,
         \/ Spares(n, P)
         \/ a # n /\ \A p \in P : HeadType(n, p) # "AGENT_OFFER_SENT",
         NEW offer, Collected(a, offer)
  PROVE  Collected(a, offer)'
<1>1. PICK s : s = offer.sender
  OBVIOUS
<1>2. /\ s \in Node /\ HeadType(a, s) = "REP_AGENT_OFFER_PENDING"
      /\ HeadType(s, a) = "AGENT_OFFER_SENT" /\ ~ Busy(a, s) /\ ~ Busy(s, a)
      /\ Head(inter[s][a]).cores = offer.cores
  BY <1>1, Pending DEF Collected, Fetched
<1>3. /\ inter[a][s] # <<>> /\ inter'[a][s] # <<>>
      /\ Head(inter'[a][s]) = Head(inter[a][s])
  BY <1>2 DEF Heads, Spares, HeadType
<1>4. /\ inter[s][a] # <<>> /\ inter'[s][a] # <<>>
      /\ Head(inter'[s][a]) = Head(inter[s][a])
  BY <1>2 DEF Heads, Spares, HeadType
<1> QED
  BY <1>1, <1>2, <1>3, <1>4 DEF Collected, Fetched, HeadType

LEMMA LoadedStays ==
  ASSUME IInv, Collecting, NEW n \in Node, NEW P, Heads(n, P),
         \A p \in P : HeadType(n, p) # "AGENT_OFFER_SENT" \/ Busy(n, p),
         NEW m \in Node, NEW d \in Range(data[m]), d.cores # {}
  PROVE  inter'[d.from][m] # <<>> /\ Fetched(d.from, m, d.cores)'
<1>1. PICK p, cores : p = d.from /\ cores = d.cores
  OBVIOUS
<1>2. /\ p \in Node /\ HeadType(p, m) = "AGENT_OFFER_SENT" /\ ~ Busy(p, m)
  BY <1>1, Loaded
<1>3. Fetched(p, m, cores)
  BY <1>1 DEF Collecting
<1>4. /\ inter[p][m] # <<>> /\ inter'[p][m] # <<>>
      /\ Head(inter'[p][m]) = Head(inter[p][m])
  BY <1>2, <1>3 DEF Heads, Spares, Fetched
<1> QED
  BY <1>1, <1>3, <1>4 DEF Fetched

\* New offers and data are as they should be.
News ==
  /\ \A a \in Agent :
       /\ IsSeq(selfopt_offers'[a])
       /\ \A offer \in Range(selfopt_offers'[a]) :
            offer \in Range(selfopt_offers[a]) \/ Collected(a, offer)'
  /\ \A m \in Node : \A d \in Range(data'[m]) :
       d \in Range(data[m]) \/ (d.cores # {} => Fetched(d.from, m, d.cores)')

LEMMA CollectingStays ==
  ASSUME OInv, NEW n \in Node, NEW P, Heads(n, P), Spares(n, P), News
  PROVE  Collecting'
<1>1. \A a \in Agent : \A offer \in Range(selfopt_offers[a]) : Collected(a, offer)'
  BY CollectedStays DEF OInv, Owned, Collecting, Node
<1>2. \A m \in Node : \A d \in Range(data[m]) :
        d.cores # {} => Fetched(d.from, m, d.cores)'
  BY LoadedStays DEF OInv, Owned, Spares
<1> QED
  BY <1>1, <1>2 DEF Collecting, News

\* A step that gives nobody a core and moves none.
LEMMA Keeping ==
  ASSUME OInv, NEW n \in Node, NEW P, NEW k, k \in {0, 1}, Step(n, P, k, {}),
         k = 0 \/ n \notin P, Spares(n, P), News, Holding',
         \A m \in Node, x \in Core : Has(m, x)' => Has(m, x)
  PROVE  Owned' /\ NoOffer
<1>1. \A x \in Core : OnePlace(x)'
  BY Stays DEF OInv, Owned, Step
<1>2. Collecting'
  BY CollectingStays DEF Step
<1>3. NoOffer
  BY DEF Step, Offerings, NoOffer, Node
<1> QED
  BY <1>1, <1>2, <1>3 DEF Owned, Step

\* No list and no book changes.
LEMMA Unmoved ==
  ASSUME OInv, NEW n \in Node, NEW P, NEW k, k \in {0, 1}, Step(n, P, k, {}),
         k = 0 \/ n \notin P, Spares(n, P), News,
         my_cores' = my_cores, book' = book, DOMAIN selfopt_offers' = Agent
  PROVE  Owned' /\ NoOffer
<1>1. Holding'
  BY DEF OInv, Owned, Holding
<1>2. \A m \in Node, x \in Core : Has(m, x)' => Has(m, x)
  BY DEF Has
<1> QED
  BY <1>1, <1>2, Keeping

LEMMA NoNews ==
  ASSUME OInv, selfopt_offers' = selfopt_offers, data' = data
  PROVE  News /\ DOMAIN selfopt_offers' = Agent
BY DEF OInv, Owned, Collecting, News, Holding

\* The network stays too.
LEMMA NothingMoves ==
  ASSUME OInv, UNCHANGED <<netVars, my_cores, book, selfopt_offers>>
  PROVE  Owned' /\ NoOffer
BY DEF OInv, Owned, Holding, Sound, Net, Collecting, Collected, Fetched,
       HeadType, OnePlace, At, Has, Lies, netVars, NoOffer
-----------------------------------------------------------------------------
(* Steps that move no core.                                                  *)

\* The report of an end is not on its way to a node that answers.
LEMMA NoEnd ==
  ASSUME NEW v, NEW w, NEW a, NEW b, NEW c, NEW d, NEW y,
         Talk(v, w, a, b, c, d, "no", y), c # "none",
         v \notin {"none"} \cup Reports \/ c = "ACK"
  PROVE  a # "FINISH" /\ b # "FINISH"
<1> USE DEF Talk, Asks, Answered, Offering, Deciding, Refusing, Idle, Reports,
            Call
<1>1. CASE ~ Tells(v, w, a, b, c, d)
  BY <1>1
<1>2. CASE Tells(v, w, a, b, c, d)
  BY <1>2 DEF Tells, Order
<1> QED
  BY <1>1, <1>2

\* Node n handles a signal of p.
Hears(n, p, sig) ==
  /\ p = Peer(n) /\ p \in Node /\ p # n /\ mail[n] # <<>> /\ Busy(n, p)
  /\ Head(mail[n]).msg.sig = sig

Unfinished(list, n) ==
  \A s \in Range(list) : s.from = n => s.msg.sig # "FINISH"

LEMMA Heard ==
  ASSUME IInv, NEW n \in Node, NEW sig, sig # "APP_TERMINATED", Receives(n, sig)
  PROVE  \E p :
           /\ Hears(n, p, sig)
           /\ HeadType(n, p) \notin {"none"} \cup Reports \/ sig = "ACK" =>
                Unfinished(mail[p], n)
           /\ \E a, b, d :
                /\ Line(mail[p], n, a, b) /\ Line(Tail(mail[n]), p, d, "none")
                /\ Talk(Stage(n, p), Stage(p, n), a, b, Kind(Head(mail[n]).msg),
                        d, "no", Blocked(p, n))
<1>1. waiting[n] = NoSignal /\ mail[n] # <<>> /\ Head(mail[n]).msg.sig = sig
  BY DEF Receives
<1>2. PICK p : p = Peer(n)
  OBVIOUS
<1>3. /\ p \in Node /\ p # n /\ Message(Head(mail[n]).msg)
      /\ \E a, b, d :
           /\ Line(mail[p], n, a, b) /\ Line(Tail(mail[n]), p, d, "none")
           /\ Talk(Stage(n, p), Stage(p, n), a, b, Kind(Head(mail[n]).msg),
                   d, "no", Blocked(p, n))
  BY <1>1, <1>2, Handled
<1>4. PICK a, b, d :
        /\ Line(mail[p], n, a, b) /\ Line(Tail(mail[n]), p, d, "none")
        /\ Talk(Stage(n, p), Stage(p, n), a, b, Kind(Head(mail[n]).msg),
                d, "no", Blocked(p, n))
  BY <1>3
<1>5. Hears(n, p, sig)
  <2>1. Head(mail[n]) \in Range(mail[n])
    BY <1>1, RangeTailed DEF IInv, Lists, Listed
  <2> QED
    BY <1>1, <1>2, <1>3, <2>1 DEF Hears, Busy, Peer
<1>6. ASSUME HeadType(n, p) \notin {"none"} \cup Reports \/ sig = "ACK"
      PROVE  Unfinished(mail[p], n)
  <2>1. Kind(Head(mail[n]).msg) # "none"
    BY <1>3 DEF Message, Sigs, Kind
  <2>2. Stage(n, p) \notin {"none"} \cup Reports \/ Kind(Head(mail[n]).msg) = "ACK"
    <3>1. CASE sig = "ACK"
      BY <1>1, <3>1 DEF Kind
    <3>2. CASE HeadType(n, p) \notin {"none"} \cup Reports
      BY <1>3, <3>2, StageIs DEF Reports
    <3> QED
      BY <1>6, <3>1, <3>2
  <2>3. a # "FINISH" /\ b # "FINISH"
    BY <1>4, <2>1, <2>2, NoEnd
  <2>4. ASSUME NEW s \in Range(mail[p]), s.from = n, s.msg.sig = "FINISH"
        PROVE  FALSE
    <3>1. PICK i \in DOMAIN mail[p] : s = mail[p][i]
      BY DEF Range
    <3>2. i \in From(mail[p], n) /\ Kind(mail[p][i].msg) = "FINISH"
      BY <2>4, <3>1 DEF From, Kind
    <3> QED
      BY <1>4, <2>3, <3>2 DEF Line
  <2> QED
    BY <2>4 DEF Unfinished
<1> QED
  BY <1>4, <1>5, <1>6

\* An answer, or none.
Answering(n, p, net) ==
  net = Taken(n) \/ \E k \in {"ACK", "REJECT"} :
                      Sends(Taken(n), net, n, p, [sig |-> k])

LEMMA AnswersMove ==
  ASSUME IInv, Sound(Net), NEW n \in Node, NEW p, NEW sig, Hears(n, p, sig),
         NEW net, Answering(n, p, net), NEW P
  PROVE  /\ Sound(net) /\ Goes(Taken(n), net, n, P, 0, {})
         /\ net.inter[n][p] = inter[n][p]
         /\ Unfinished(mail[p], n) => Unfinished(net.mail[p], n)
<1>1. /\ Sound(Taken(n)) /\ Taken(n).inter = inter
      /\ \A m \in Node : m # n => Taken(n).mail[m] = mail[m]
  BY TakenSound, TakenIs DEF Hears, IInv
<1> DEFINE taken == Taken(n)
<1> HIDE DEF taken
<1>2. /\ Sound(taken) /\ taken.inter = inter /\ taken.mail[p] = mail[p]
  BY <1>1 DEF taken, Hears
<1>3. CASE net = taken
  <2>1. Goes(taken, taken, n, P, 0, {})
    BY <1>2, GoesSame
  <2> QED
    BY <1>2, <1>3, <2>1 DEF taken
<1>4. ASSUME NEW k \in {"ACK", "REJECT"}, Sends(taken, net, n, p, [sig |-> k])
      PROVE  /\ Sound(net) /\ Goes(taken, net, n, P, 0, {})
             /\ net.inter[n][p] = inter[n][p]
             /\ Unfinished(mail[p], n) => Unfinished(net.mail[p], n)
  <2> DEFINE s == [sig |-> k]
  <2>1. Says(s) /\ s.sig # "FINISH"
    BY DEF Says
  <2>2. Sends(taken, net, n, p, s)
    BY <1>4
  <2> HIDE DEF s
  <2>3. Sound(net) /\ Goes(taken, net, n, P, 0, {})
    BY <1>2, <2>1, <2>2, GoesSend DEF Hears
  <2>4. /\ net.inter = taken.inter
        /\ net.mail[p] = Append(taken.mail[p], [from |-> n, msg |-> s])
    BY SMTT(30), <1>2, <2>2, SendIs DEF Sound, Hears
  <2>5. IsSeq(mail[p])
    BY <1>2 DEF Sound, SoundList, Hears
  <2>6. Unfinished(mail[p], n) => Unfinished(net.mail[p], n)
    BY <1>2, <2>1, <2>4, <2>5, RangeAppended DEF Unfinished
  <2> QED
    BY <1>2, <2>3, <2>4, <2>6
<1> QED
  BY <1>3, <1>4 DEF Answering, taken

\* The handler only answers.
LEMMA AnswerStep ==
  ASSUME IInv, Sound(Net), NEW n \in Node, NEW p, NEW sig, Hears(n, p, sig),
         sig # "REP_OFFERS", NEW net, Answering(n, p, net), Becomes(net)
  PROVE  Step(n, {}, 0, {})
<1>1. Sound(net) /\ Goes(Taken(n), net, n, {}, 0, {})
  BY AnswersMove
<1> QED
  BY <1>1, HandlerMoves DEF Hears, IInv

\* The handler answers and ends the interaction.
LEMMA EndStep ==
  ASSUME IInv, Sound(Net), NEW n \in Node, NEW p, NEW sig, Hears(n, p, sig),
         Unfinished(mail[p], n), inter[n][p] # <<>>, NEW net, Answering(n, p, net),
         NEW r, Pops(net, r, n, p), Becomes(r)
  PROVE  Step(n, {p}, 1, {}) /\ n \notin {p} /\ Spares(n, {p})
<1>1. /\ Sound(net) /\ Goes(Taken(n), net, n, {p}, 0, {})
      /\ net.inter[n][p] # <<>> /\ Unfinished(net.mail[p], n)
  BY AnswersMove
<1>2. Sound(r) /\ Goes(net, r, n, {p}, 1, {})
  BY <1>1, GoesPop DEF Hears, Unfinished
<1>3. Goes(Taken(n), r, n, {p}, 1, {})
  <2>1. PICK taken, P, N : taken = Taken(n) /\ P = {p} /\ N = {}
    OBVIOUS
  <2>2. Goes(taken, net, n, P, 0, N) /\ Goes(net, r, n, P, 1, N)
    BY <1>1, <1>2, <2>1
  <2>3. Goes(taken, r, n, P, 1, N)
    BY <2>1, <2>2, Following
  <2> QED
    BY <2>1, <2>3
<1>4. Step(n, {p}, 1, {})
  BY <1>2, <1>3, HandlerMoves DEF Hears, IInv
<1> QED
  BY <1>4 DEF Hears, Spares
-----------------------------------------------------------------------------
(* The actions that move no core.                                            *)

\* Handlers that only answer, or end an interaction.
LEMMA OnlyAnswered ==
  ASSUME OInv, NEW n \in Node, NEW p, NEW sig, Hears(n, p, sig),
         NEW net, Answering(n, p, net),
         \/ sig # "REP_OFFERS" /\ Becomes(net)
         \/ /\ Unfinished(mail[p], n) /\ inter[n][p] # <<>>
            /\ \E r : Pops(net, r, n, p) /\ Becomes(r),
         UNCHANGED <<data, my_cores, book, selfopt_offers>>
  PROVE  Owned' /\ NoOffer
<1>1. News /\ DOMAIN selfopt_offers' = Agent
  BY NoNews
<1>2. IInv /\ Sound(Net)
  BY DEF OInv, Owned
<1>3. CASE sig # "REP_OFFERS" /\ Becomes(net)
  <2>1. Step(n, {}, 0, {})
    BY <1>2, <1>3, AnswerStep
  <2>2. PICK P, N : P = {} /\ N = {}
    OBVIOUS
  <2>3. Step(n, P, 0, {}) /\ Spares(n, P)
    BY <2>1, <2>2 DEF Spares
  <2> QED
    BY <1>1, <2>3, Unmoved
<1>4. CASE /\ Unfinished(mail[p], n) /\ inter[n][p] # <<>>
           /\ \E r : Pops(net, r, n, p) /\ Becomes(r)
  <2>1. Step(n, {p}, 1, {}) /\ n \notin {p} /\ Spares(n, {p})
    BY <1>2, <1>4, EndStep
  <2> QED
    BY <1>1, <2>1, Unmoved
<1> QED
  BY <1>3, <1>4

LEMMA ReqCoresOwned ==
  ASSUME OInv, NEW n \in Node, ReqCores(n)
  PROVE  Owned' /\ NoOffer
<1>1. Receives(n, "REQ_CORES") /\ UNCHANGED <<data, my_cores, book, selfopt_offers>>
  BY DEF ReqCores, agentVars
<1>2. PICK p : /\ Hears(n, p, "REQ_CORES")
               /\ HeadType(n, p) \notin {"none"} \cup Reports => Unfinished(mail[p], n)
  BY <1>1, Heard DEF OInv
<1>3. PICK branch : branch = ReqBranch(n, p, Brings(Head(mail[n]).msg))
  OBVIOUS
<1>4. Becomes(
        CASE branch \in {"offer", "collect"} -> Send(Taken(n), n, p, Ack)
          [] branch = "reject" -> Send(Taken(n), n, p, Reject)
          [] branch = "stray" -> Pop(Send(Taken(n), n, p, Reject), n, p)
          [] branch = "nothing offered" -> Pop(Send(Taken(n), n, p, Ack), n, p)
          [] branch = "crossed" -> Pop(Taken(n), n, p))
  BY <1>2, <1>3 DEF ReqCores, Hears
<1>5. /\ branch \in {"stray", "nothing offered", "crossed"} =>
           HeadType(n, p) \in {"SELFOPT_REQ_CORES", "SELFOPT_REQ_CORES_PENDING"}
      /\ branch \in {"offer", "reject", "stray", "collect", "nothing offered",
                     "crossed"}
  BY <1>3 DEF ReqBranch
<1>6. \/ \E net : Answering(n, p, net) /\ Becomes(net)
      \/ \E net, r : /\ Answering(n, p, net) /\ Pops(net, r, n, p) /\ Becomes(r)
                     /\ branch \in {"stray", "nothing offered", "crossed"}
  <2> DEFINE ack == Send(Taken(n), n, p, Ack)
             reject == Send(Taken(n), n, p, Reject)
             taken == Taken(n)
  <2>1. Answering(n, p, ack) /\ Answering(n, p, reject) /\ Answering(n, p, taken)
    BY DEF Answering, Ack, Reject, Sends
  <2> HIDE DEF ack, reject, taken
  <2>2. CASE branch \in {"offer", "collect", "reject"}
    <3>1. Becomes(ack) \/ Becomes(reject)
      BY <1>4, <2>2 DEF ack, reject
    <3> QED
      BY <2>1, <3>1
  <2>3. CASE branch \in {"stray", "nothing offered", "crossed"}
    <3>1. \/ Becomes(Pop(reject, n, p)) \/ Becomes(Pop(ack, n, p))
          \/ Becomes(Pop(taken, n, p))
      BY <1>4, <2>3 DEF ack, reject, taken
    <3> QED
      BY <2>1, <2>3, <3>1 DEF Pops
  <2> QED
    BY <1>5, <2>2, <2>3
<1>7. branch \in {"stray", "nothing offered", "crossed"} =>
        Unfinished(mail[p], n) /\ inter[n][p] # <<>>
  BY <1>2, <1>5 DEF Reports, HeadType
<1>8. ASSUME NEW net, Answering(n, p, net), Becomes(net)
      PROVE  Owned' /\ NoOffer
  BY <1>1, <1>2, <1>8, OnlyAnswered
<1>9. ASSUME NEW net, NEW r, Answering(n, p, net), Pops(net, r, n, p), Becomes(r),
             branch \in {"stray", "nothing offered", "crossed"}
      PROVE  Owned' /\ NoOffer
  BY <1>1, <1>2, <1>7, <1>9, OnlyAnswered
<1> QED
  BY <1>6, <1>8, <1>9

LEMMA AckClearOwned ==
  ASSUME OInv, NEW n \in Node, AckClear(n)
  PROVE  Owned' /\ NoOffer
<1>1. Receives(n, "ACK") /\ UNCHANGED <<data, my_cores, book, selfopt_offers>>
  BY DEF AckClear, agentVars
<1>2. PICK p : Hears(n, p, "ACK") /\ Unfinished(mail[p], n)
  BY <1>1, Heard DEF OInv
<1>3. IF HeadType(n, p) = "none" THEN Becomes(Taken(n))
      ELSE Becomes(Pop(Taken(n), n, p))
  BY <1>2 DEF AckClear, Hears
<1>4. PICK net : net = Taken(n) /\ Answering(n, p, net)
  BY DEF Answering
<1>5. \/ Becomes(net)
      \/ inter[n][p] # <<>> /\ \E r : Pops(net, r, n, p) /\ Becomes(r)
  BY <1>3, <1>4 DEF HeadType, Pops
<1> QED
  BY <1>1, <1>2, <1>4, <1>5, OnlyAnswered

LEMMA RejectRequestOwned ==
  ASSUME OInv, NEW n \in Node, RejectRequest(n)
  PROVE  Owned' /\ NoOffer
<1>1. Receives(n, "REJECT") /\ UNCHANGED <<data, my_cores, book, selfopt_offers>>
  BY DEF RejectRequest, agentVars
<1>2. PICK p : /\ Hears(n, p, "REJECT")
               /\ HeadType(n, p) \notin {"none"} \cup Reports => Unfinished(mail[p], n)
  BY <1>1, Heard DEF OInv
<1>3. IF HeadType(n, p) = "SELFOPT_REQ_CORES_PENDING"
      THEN Becomes(Pop(Taken(n), n, p)) ELSE Becomes(Taken(n))
  BY <1>2 DEF RejectRequest, Hears
<1>4. PICK net : net = Taken(n) /\ Answering(n, p, net)
  BY DEF Answering
<1>5. \/ Becomes(net)
      \/ /\ inter[n][p] # <<>> /\ Unfinished(mail[p], n)
         /\ \E r : Pops(net, r, n, p) /\ Becomes(r)
  BY <1>2, <1>3, <1>4 DEF HeadType, Pops, Reports
<1> QED
  BY <1>1, <1>2, <1>4, <1>5, OnlyAnswered

\* The end of another application is told.
LEMMA AppTerminatedOwned ==
  ASSUME OInv, NEW c \in Controller, AppTerminated(c)
  PROVE  Owned' /\ NoOffer
<1>1. /\ Becomes(Taken(c)) /\ mail[c] # <<>> /\ c \in Node
      /\ Head(mail[c]).msg.sig # "REP_OFFERS"
      /\ UNCHANGED <<data, my_cores, book, selfopt_offers>>
  BY DEF AppTerminated, Receives, agentVars, Node
<1>2. IInv /\ Shaped /\ Sound(Net)
  BY DEF OInv, Owned, IInv
<1>3. PICK net : net = Taken(c)
  OBVIOUS
<1>4. Sound(net) /\ Goes(Taken(c), net, c, {}, 0, {})
  BY <1>1, <1>2, <1>3, TakenSound, GoesSame
<1>5. PICK P : P = {}
  OBVIOUS
<1>6. Step(c, P, 0, {})
  BY <1>1, <1>2, <1>3, <1>4, <1>5, HandlerMoves
<1>7. Spares(c, P) /\ News /\ DOMAIN selfopt_offers' = Agent
  BY <1>1, <1>5, NoNews DEF Spares
<1> QED
  BY <1>1, <1>6, <1>7, Unmoved

\* A handler writes data for its peer.
LEMMA AckDataOwned ==
  ASSUME OInv, NEW n \in Node, AckData(n)
  PROVE  Owned' /\ NoOffer
<1>1. /\ Receives(n, "ACK") /\ UNCHANGED <<my_cores, book, selfopt_offers>>
      /\ IInv /\ Sound(Net)
  BY DEF AckData, agentVars, OInv, Owned
<1>2. PICK p : Hears(n, p, "ACK")
  BY <1>1, Heard DEF OInv
<1> DEFINE offer == HeadType(n, p) = "REP_AGENT_REQ_CORES"
           some == IF offer THEN Head(inter[n][p]).cores ELSE {}
<1>3. PICK cores : cores = some
  OBVIOUS
<1>4. PICK x : x = IF offer THEN [type |-> "AGENT_OFFER_SENT", cores |-> cores]
                   ELSE [type |-> "SELFOPT_REQ_CORES"]
  OBVIOUS
<1>5. PICK d : d = [from |-> n, cores |-> cores]
  OBVIOUS
<1>6. /\ Becomes(Rehead(Taken(n), n, p, x)) /\ PeerWaits(n, p)
      /\ data' = [data EXCEPT ![p] = Append(@, d)]
  BY <1>2, <1>3, <1>4, <1>5 DEF AckData, Hears
<1>7. PICK taken, r : taken = Taken(n) /\ r = Rehead(taken, n, p, x)
  OBVIOUS
<1>8. /\ Sound(taken) /\ taken.inter = inter /\ inter[n][p] # <<>>
      /\ Reheads(taken, r, n, p, x) /\ Becomes(r)
  <2>1. Sound(taken) /\ taken.inter = inter
    BY <1>1, <1>2, <1>7, TakenSound DEF IInv, Hears
  <2>2. inter[n][p] # <<>>
    BY <1>6 DEF PeerWaits, HeadType
  <2> QED
    BY <1>6, <1>7, <2>1, <2>2 DEF Reheads
<1>9. offer => /\ Head(inter[n][p]).type = "REP_AGENT_REQ_CORES"
               /\ cores = Head(inter[n][p]).cores /\ cores \subseteq Core
               /\ x.type = "AGENT_OFFER_SENT" /\ x.cores = cores
  <2> SUFFICES ASSUME offer
               PROVE  /\ Head(inter[n][p]).type = "REP_AGENT_REQ_CORES"
                      /\ cores \subseteq Core
    BY <1>3, <1>4
  <2>1. Head(inter[n][p]).type = "REP_AGENT_REQ_CORES"
    BY <1>8 DEF HeadType
  <2>2. Head(inter[n][p]) \in Range(inter[n][p]) /\ SoundQueue(inter[n][p])
    BY <1>1, <1>2, <1>8, RangeTailed DEF Sound, Net, SoundQueue, Hears
  <2> QED
    BY <1>3, <2>1, <2>2 DEF SoundQueue, Speaks, Offers
<1>10. ~ offer => x.type = "SELFOPT_REQ_CORES" /\ cores = {}
  BY <1>3, <1>4
<1> HIDE DEF offer, some
<1>11. /\ Speaks(x)
       /\ x.type \in Offers =>
            Head(inter[n][p]).type \in Offers /\ x.cores = Head(inter[n][p]).cores
  BY <1>9, <1>10 DEF Speaks, Offers
<1>12. Sound(r) /\ Goes(taken, r, n, {p}, 0, {})
  BY <1>2, <1>8, <1>11, GoesRehead DEF Hears
<1>13. Step(n, {p}, 0, {})
  BY <1>1, <1>2, <1>7, <1>8, <1>12, HandlerMoves DEF Hears, IInv
<1>14. Spares(n, {p})
  BY <1>2 DEF Spares, Hears
<1>15. cores # {} => Fetched(n, p, cores)'
  <2> SUFFICES ASSUME offer PROVE Fetched(n, p, cores)'
    BY <1>10
  <2>1. r.inter[n][p] = <<x>> \o Tail(inter[n][p])
    <3>1. taken.inter[n][p] = inter[n][p]
      BY <1>8
    <3>2. r.inter[n][p] = <<x>> \o Tail(taken.inter[n][p])
      BY SMTT(30), <1>2, <1>7, <1>8, ReheadIs DEF Sound, Hears
    <3> QED
      BY <3>1, <3>2
  <2>2. IsSeq(inter[n][p])
    BY <1>1, <1>2 DEF Sound, Net, SoundQueue, Hears
  <2>3. inter'[n][p] # <<>> /\ Head(inter'[n][p]) = x
    <3>1. Queued(inter[n][p], n, p)
      BY <1>1, <1>2, StageIs DEF Hears
    <3>2. PICK q : q = inter[n][p]
      OBVIOUS
    <3>3. PICK S : Tail(q) \in Seq(S)
      BY <1>8, <2>2, <3>2, RangeTailed DEF IsSeq
    <3>4. Len(<<x>> \o Tail(q)) = Len(Tail(q)) + 1 /\ (<<x>> \o Tail(q))[1] = x
          /\ Len(Tail(q)) \in Nat /\ <<x>> \o Tail(q) \in Seq(S \cup {x})
      BY <3>3
    <3>5. <<x>> \o Tail(q) # <<>> /\ Head(<<x>> \o Tail(q)) = x
      BY <3>4
    <3> QED
      BY <1>8, <2>1, <3>2, <3>5 DEF Becomes
  <2> QED
    BY <1>9, <2>3 DEF Fetched
<1>16. News
  <2>1. ASSUME NEW m \in Node, NEW e \in Range(data'[m])
        PROVE  e \in Range(data[m]) \/ (e.cores # {} => Fetched(e.from, m, e.cores)')
    <3>1. DOMAIN data = Node
      BY <1>1 DEF IInv, Shaped
    <3>2. CASE m # p
      BY <1>6, <2>1, <3>1, <3>2
    <3>3. CASE m = p
      <4>1. IsSeq(data[p])
        <5>1. data[p] = <<>> \/ \E e1 : data[p] = <<e1>>
          <6>1. Area(m)
            BY <1>1 DEF IInv
          <6> QED
            BY <3>3, <6>1 DEF Area
        <5>2. \A e1 : <<e1>> \in Seq({e1}) /\ <<>> \in Seq({e1})
          OBVIOUS
        <5> QED
          BY <5>1, <5>2 DEF IsSeq
      <4>2. Range(data'[p]) = Range(data[p]) \cup {d}
        BY <1>6, <3>1, <3>3, <4>1, RangeAppended
      <4>3. d.from = n /\ d.cores = cores
        BY <1>5
      <4> QED
        BY <1>15, <2>1, <3>3, <4>2, <4>3
    <3> QED
      BY <3>2, <3>3
  <2> QED
    BY <1>1, <2>1 DEF News, OInv, Owned, Collecting
<1>17. DOMAIN selfopt_offers' = Agent
  BY <1>1 DEF OInv, Owned, Holding
<1> QED
  BY <1>1, <1>13, <1>14, <1>16, <1>17, Unmoved

\* Steps of a manager that only change what it is up to.
LEMMA UnseenOwned ==
  ASSUME OInv, NEW a \in Agent,
         \/ SelfOptStart(a) \/ AppFinishes(a) \/ LeaveAtTop(a) \/ Leave(a)
         \/ Timer(a) \/ InitManChkOffers(a)
  PROVE  Owned' /\ NoOffer
<1>1. UNCHANGED <<netVars, my_cores, book, selfopt_offers>>
  BY DEF SelfOptStart, AppFinishes, LeaveAtTop, Leave, Timer, InitManChkOffers
<1> QED
  BY <1>1, NothingMoves

LEMMA DiscoveryDoneOwned ==
  ASSUME OInv, NEW a \in Agent, DiscoveryDone(a)
  PROVE  Owned' /\ NoOffer
<1>1. /\ a \in Node /\ UNCHANGED <<data, my_cores, book, selfopt_offers>>
      /\ Sound(Net)
  BY DEF DiscoveryDone, Node, OInv, Owned
<1>2. PICK items, r :
        /\ \A p \in DOMAIN items : items[p].type = "SELFOPT_REQ_CORES_PENDING"
        /\ PostsAll(Net, r, a, items) /\ Becomes(r)
  <2>1. PICK targets :
          Becomes(PostAll(Net, a, [t \in targets |->
                            [type |-> "SELFOPT_REQ_CORES_PENDING"]]))
    BY DEF DiscoveryDone
  <2>2. PICK items : items = [t \in targets |->
                                [type |-> "SELFOPT_REQ_CORES_PENDING"]]
    OBVIOUS
  <2>3. \A p \in DOMAIN items : items[p].type = "SELFOPT_REQ_CORES_PENDING"
    BY <2>2
  <2>4. Becomes(PostAll(Net, a, items))
    BY <2>1, <2>2
  <2> QED
    BY <2>3, <2>4 DEF PostsAll
<1>3. /\ \A p \in DOMAIN items :
           /\ items[p].type \in Waiting /\ items[p].type # "REMOVE_APP"
           /\ Speaks(items[p])
  BY <1>2 DEF Waiting, Speaks, Offers
<1>4. PICK net, P, N : net = Net /\ P = {} /\ N = {}
  OBVIOUS
<1>5. Sound(net) /\ PostsAll(net, r, a, items)
  BY <1>1, <1>2, <1>4
<1>6. Sound(r) /\ Goes(net, r, a, P, 0, N)
  BY <1>1, <1>3, <1>5, GoesSpread
<1>7. Step(a, P, 0, {})
  BY <1>1, <1>2, <1>4, <1>6, ProgramMoves
<1>8. Spares(a, P) /\ News /\ DOMAIN selfopt_offers' = Agent
  BY <1>1, <1>4, NoNews DEF Spares
<1> QED
  BY <1>1, <1>7, <1>8, Unmoved

\* Core 0 is told of an end, or nothing happens.
Tells0(net, r, a) ==
  r = net \/ Sends(net, r, a, Zero, [sig |-> "APP_TERMINATED"])
LEMMA GoesTelling ==
  ASSUME NEW net, Sound(net), NEW a \in Agent, NEW r, Tells0(net, r, a), NEW P
  PROVE  Sound(r) /\ Goes(net, r, a, P, 0, {})
<1>1. a \in Node /\ Zero \in Node
  BY Controlled
<1>2. CASE r = net
  BY <1>2, GoesSame
<1>3. CASE Sends(net, r, a, Zero, [sig |-> "APP_TERMINATED"])
  <2>1. PICK s : s = [sig |-> "APP_TERMINATED"]
    OBVIOUS
  <2>2. Says(s) /\ s.sig # "FINISH" /\ Sends(net, r, a, Zero, s)
    BY <1>3, <2>1 DEF Says
  <2> QED
    BY <1>1, <2>2, GoesSend
<1> QED
  BY <1>2, <1>3 DEF Tells0

LEMMA AgentZombieOwned ==
  ASSUME OInv, NEW a \in Agent, AgentZombie(a)
  PROVE  Owned' /\ NoOffer
<1>1. /\ a \in Node /\ UNCHANGED <<data, my_cores, book, selfopt_offers>>
      /\ Sound(Net)
  BY DEF AgentZombie, Node, OInv, Owned
<1>2. PICK net, r : net = Net /\ Tells0(net, r, a) /\ Becomes(r)
  <2>1. PICK next_state : Becomes(TellZero(Net, a, next_state))
    BY DEF AgentZombie
  <2> QED
    BY <2>1 DEF TellZero, Sends, Tells0
<1>3. PICK P : P = {}
  OBVIOUS
<1>4. Sound(net)
  BY <1>1, <1>2
<1>5. Sound(r) /\ Goes(net, r, a, P, 0, {})
  BY <1>2, <1>4, GoesTelling
<1>6. Step(a, P, 0, {})
  BY <1>1, <1>2, <1>5, ProgramMoves
<1>7. Spares(a, P) /\ News /\ DOMAIN selfopt_offers' = Agent
  BY <1>1, <1>3, NoNews DEF Spares
<1> QED
  BY <1>1, <1>6, <1>7, Unmoved
-----------------------------------------------------------------------------
(* What controllers hear.                                                    *)

\* With other cores, x is a report of the same kind.
Passes(x) ==
  /\ x.type \in Reports
  /\ \A cores : LET y == [x EXCEPT !.cores = cores]
                IN  y.type = x.type /\ y.cores = cores /\ Speaks(y)

LEMMA GoesForward ==
  ASSUME NEW net, Sound(net), NEW c \in Controller, NEW x, Passes(x), NEW N,
         x.type = "REMOVE_APP" => \A d \in Controller \ {c} :
           \A y \in InCluster(d, x.cores) :
             <<c, d, Len(net.inter[c][d]) + 1, y>> \in N,
         NEW r, Forwards(net, r, c, x), NEW P
  PROVE  Sound(r) /\ Goes(net, r, c, P, 0, N)
<1> DEFINE others == {d \in Controller \ {c} : InCluster(d, x.cores) # {}}
<1>1. PICK items : items = [d \in others |->
                              [x EXCEPT !.cores = InCluster(d, x.cores)]]
  OBVIOUS
<1>2. PostsAll(net, r, c, items)
  BY <1>1 DEF Forwards, Forward, PostsAll
<1>3. ASSUME NEW d \in DOMAIN items
      PROVE  /\ d \in Controller \ {c} /\ items[d].type = x.type
             /\ items[d].cores = InCluster(d, x.cores) /\ Speaks(items[d])
  <2>1. d \in others
    BY <1>1
  <2>2. PICK cores : cores = InCluster(d, x.cores)
    OBVIOUS
  <2>3. PICK y : y = [x EXCEPT !.cores = cores]
    OBVIOUS
  <2>4. items[d] = y
    BY <1>1, <2>1, <2>2, <2>3
  <2>5. y.type = x.type /\ y.cores = cores /\ Speaks(y)
    BY <2>3 DEF Passes
  <2> QED
    BY <2>1, <2>2, <2>4, <2>5
<1>4. /\ \A d \in DOMAIN items : items[d].type \in Waiting /\ Speaks(items[d])
      /\ \A d \in DOMAIN items : items[d].type = "REMOVE_APP" =>
           \A y \in items[d].cores : <<c, d, Len(net.inter[c][d]) + 1, y>> \in N
  BY <1>3 DEF Passes, Waiting
<1>5. c \in Node
  BY DEF Node
<1> QED
  BY <1>2, <1>4, <1>5, GoesSpread

\* A book that says of no cores but those of S that they are free again.
Marked(c, b, S) ==
  /\ "offered_to" \in DOMAIN b
  /\ DOMAIN b.offered_to = DOMAIN book[c].offered_to
  /\ \A x \in DOMAIN b.offered_to : b.offered_to[x] = NotOffered =>
       book[c].offered_to[x] = NotOffered \/ x \in S

LEMMA HoldingBook ==
  ASSUME Holding, my_cores' = my_cores, DOMAIN selfopt_offers' = Agent,
         NEW c \in Controller, NEW b, NEW S, Marked(c, b, S),
         book' = [book EXCEPT ![c] = b]
  PROVE  /\ Holding'
         /\ \A m \in Node : \A x :
              Has(m, x)' => Has(m, x) \/ (m = c /\ x \in S)
<1>1. DOMAIN book' = Controller /\ book'[c] = b
      /\ \A d \in Controller : d # c => book'[d] = book[d]
  BY DEF Holding
<1>2. Holding'
  <2>1. ASSUME NEW d \in Controller
        PROVE  /\ "offered_to" \in DOMAIN book'[d]
               /\ DOMAIN book'[d].offered_to \subseteq Core
    <3>1. CASE d = c
      BY <1>1, <3>1 DEF Holding, Marked
    <3>2. CASE d # c
      BY <1>1, <3>2 DEF Holding
    <3> QED
      BY <3>1, <3>2
  <2>2. DOMAIN my_cores' = Agent /\ \A a \in Agent : Listing(my_cores'[a])
    BY DEF Holding
  <2> QED
    BY <1>1, <2>1, <2>2 DEF Holding
<1>3. ASSUME NEW m \in Node, NEW x, Has(m, x)'
      PROVE  Has(m, x) \/ (m = c /\ x \in S)
  <2>1. CASE m = c
    BY <1>1, <1>3, <2>1 DEF Has, Marked
  <2>2. CASE m # c
    BY <1>1, <1>3, <2>2 DEF Has
  <2> QED
    BY <2>1, <2>2
<1> QED
  BY <1>2, <1>3

\* So it is with a list.
Relisted(a, l, S) ==
  /\ Listing(l)
  /\ \A i \in DOMAIN l : l[i].offered_to = NotOffered =>
       \/ l[i].core \in S
       \/ \E j \in DOMAIN my_cores[a] :
            /\ my_cores[a][j].core = l[i].core
            /\ my_cores[a][j].offered_to = NotOffered

LEMMA HoldingList ==
  ASSUME Holding, book' = book, DOMAIN selfopt_offers' = Agent,
         NEW a \in Agent, NEW l, NEW S, Relisted(a, l, S),
         my_cores' = [my_cores EXCEPT ![a] = l]
  PROVE  /\ Holding'
         /\ \A m \in Node : \A x :
              Has(m, x)' => Has(m, x) \/ (m = a /\ x \in S)
<1>1. DOMAIN my_cores' = Agent /\ my_cores'[a] = l
      /\ \A b \in Agent : b # a => my_cores'[b] = my_cores[b]
  BY DEF Holding
<1>2. Holding'
  <2>1. \A b \in Agent : Listing(my_cores'[b])
    BY <1>1 DEF Holding, Relisted
  <2> QED
    BY <1>1, <2>1 DEF Holding
<1>3. ASSUME NEW m \in Node, NEW x, Has(m, x)'
      PROVE  Has(m, x) \/ (m = a /\ x \in S)
  <2>1. a \notin Controller
    BY Controlled
  <2>2. CASE m = a
    BY <1>1, <1>3, <2>1, <2>2 DEF Has, Relisted
  <2>3. CASE m # a
    BY <1>1, <1>3, <2>3 DEF Has, Node
  <2> QED
    BY <2>2, <2>3
<1> QED
  BY <1>2, <1>3

\* A controller is told who has a core now, and passes it on.
LEMMA BookOwned ==
  ASSUME OInv, NEW c \in Controller, NEW p, NEW sig, Hears(c, p, sig),
         sig # "REP_OFFERS", NEW x, Passes(x), x.type # "REMOVE_APP",
         NEW net, Sends(Taken(c), net, c, p, Ack),
         NEW r, r = net \/ Forwards(net, r, c, x), Becomes(r),
         UNCHANGED <<data, my_cores, selfopt_offers>>,
         NEW b, Marked(c, b, {}), book' = [book EXCEPT ![c] = b]
  PROVE  Owned' /\ NoOffer
<1>1. /\ c \in Node /\ IInv /\ Shaped /\ Sound(Net) /\ Holding
      /\ mail[c] # <<>> /\ Head(mail[c]).msg.sig = sig
  BY DEF OInv, Owned, IInv, Node, Hears
<1>2. PICK P : P = {}
  OBVIOUS
<1>3. Sound(net) /\ Goes(Taken(c), net, c, P, 0, {})
  <2>1. Answering(c, p, net)
    BY DEF Answering, Ack
  <2> QED
    BY <1>1, <2>1, AnswersMove
<1>4. Sound(r) /\ Goes(net, r, c, P, 0, {})
  <2>1. CASE r = net
    BY <1>3, <2>1, GoesSame
  <2>2. CASE Forwards(net, r, c, x)
    BY <1>3, <2>2, GoesForward
  <2> QED
    BY <2>1, <2>2
<1>5. Goes(Taken(c), r, c, P, 0, {})
  <2>1. PICK taken, M : taken = Taken(c) /\ M = {}
    OBVIOUS
  <2>2. Goes(taken, net, c, P, 0, M) /\ Goes(net, r, c, P, 0, M)
    BY <1>3, <1>4, <2>1
  <2>3. Goes(taken, r, c, P, 0, M)
    BY <2>1, <2>2, Following
  <2> QED
    BY <2>1, <2>3
<1>6. Step(c, P, 0, {})
  BY <1>1, <1>4, <1>5, HandlerMoves
<1>7. Spares(c, P) /\ News /\ DOMAIN selfopt_offers' = Agent
  BY <1>2, NoNews DEF Spares
<1>8. PICK S : S = {}
  OBVIOUS
<1>9. Marked(c, b, S)
  BY <1>8
<1>10. /\ Holding'
       /\ \A m \in Node : \A y : Has(m, y)' => Has(m, y) \/ (m = c /\ y \in S)
  BY <1>1, <1>7, <1>9, HoldingBook
<1>11. \A m \in Node, y \in Core : Has(m, y)' => Has(m, y)
  BY <1>8, <1>10
<1> QED
  BY <1>1, <1>6, <1>7, <1>10, <1>11, Keeping

\* What the signal that a controller handles says.
LEMMA SaidSound ==
  ASSUME OInv, NEW n \in Node, mail[n] # <<>>
  PROVE  Says(Head(mail[n]).msg)
<1>1. SoundList(mail[n])
  BY DEF OInv, Owned, Sound, Net
<1>2. Head(mail[n]) \in Range(mail[n])
  BY <1>1, RangeTailed DEF SoundList
<1> QED
  BY <1>1, <1>2 DEF SoundList

LEMMA AddCoresDDSOwned ==
  ASSUME OInv, NEW c \in Controller, AddCoresDDS(c)
  PROVE  Owned' /\ NoOffer
<1>1. /\ Receives(c, "ADD_CORES_DDS") /\ c \in Node /\ Holding
      /\ UNCHANGED <<data, my_cores, selfopt_offers>>
  BY DEF AddCoresDDS, agentVars, Node, OInv, Owned
<1>2. PICK p : Hears(c, p, "ADD_CORES_DDS")
  BY <1>1, Heard DEF OInv
<1>3. PICK s : s = Head(mail[c]).msg
  OBVIOUS
<1>4. p \in Node /\ p # NotOffered /\ s.agent # NotOffered
  BY <1>1, <1>2, <1>3, SaidSound, ClusterAssumption DEF Hears, Says
<1>5. PICK x : x = [type |-> "IDAG_ADD_CORES_DDS", cores |-> s.cores, agent |-> p]
  OBVIOUS
<1>6. Passes(x) /\ x.type # "REMOVE_APP"
  BY <1>4, <1>5 DEF Passes, Speaks, Reports, Offers
<1>7. PICK net : Sends(Taken(c), net, c, p, Ack)
  BY DEF Sends
<1>8. PICK r : (r = net \/ Forwards(net, r, c, x)) /\ Becomes(r)
  <2>1. Becomes(net) \/ Becomes(Forward(net, c, x))
    BY <1>2, <1>3, <1>5, <1>7 DEF AddCoresDDS, Hears, Sends
  <2> QED
    BY <2>1 DEF Forwards
<1>9. PICK b : book' = [book EXCEPT ![c] = b] /\ Marked(c, b, {})
  <2>1. ASSUME NEW cores, NEW agent, agent # NotOffered, NEW cnt
        PROVE  Marked(c, B!AddCores(book[c], cores, agent, cnt), {})
    BY <2>1 DEF Marked, B!AddCores
  <2>2. Marked(c, book[c], {})
    BY <1>1 DEF Marked, Holding
  <2> DEFINE own == InCluster(c, s.cores)
             b == IF p \in Controller
                  THEN B!AddCores(book[c], s.cores, s.agent, Cardinality(s.cores))
                  ELSE IF own = {} THEN book[c]
                  ELSE B!AddCores(book[c], own, p, AddCount(own, s.cores))
  <2>3. book' = [book EXCEPT ![c] = b]
    BY <1>2, <1>3 DEF AddCoresDDS, Hears
  <2>4. Marked(c, b, {})
    BY <1>4, <2>1, <2>2
  <2> QED
    BY <2>3, <2>4
<1> QED
  BY <1>1, <1>2, <1>6, <1>7, <1>8, <1>9, BookOwned

LEMMA RemCoresDDSOwned ==
  ASSUME OInv, NEW c \in Controller, RemCoresDDS(c)
  PROVE  Owned' /\ NoOffer
<1>1. /\ Receives(c, "REM_CORES_DDS") /\ c \in Node /\ Holding
      /\ UNCHANGED <<data, my_cores, selfopt_offers>>
  BY DEF RemCoresDDS, agentVars, Node, OInv, Owned
<1>2. PICK p : Hears(c, p, "REM_CORES_DDS")
  BY <1>1, Heard DEF OInv
<1>3. PICK s : s = Head(mail[c]).msg
  OBVIOUS
<1>4. p \in Node /\ s.new # NotOffered
  BY <1>1, <1>2, <1>3, SaidSound DEF Hears, Says
<1>5. PICK x : x = [type |-> "IDAG_REM_CORES_DDS", cores |-> s.cores,
                    old |-> p, new |-> s.new]
  OBVIOUS
<1>6. Passes(x) /\ x.type # "REMOVE_APP"
  BY <1>4, <1>5 DEF Passes, Speaks, Reports, Offers
<1>7. PICK net : Sends(Taken(c), net, c, p, Ack)
  BY DEF Sends
<1>8. PICK r : (r = net \/ Forwards(net, r, c, x)) /\ Becomes(r)
  <2>1. Becomes(net) \/ Becomes(Forward(net, c, x))
    BY <1>2, <1>3, <1>5, <1>7 DEF RemCoresDDS, Hears, Sends
  <2> QED
    BY <2>1 DEF Forwards
<1>9. PICK b : book' = [book EXCEPT ![c] = b] /\ Marked(c, b, {})
  <2>1. ASSUME NEW cores, NEW old, NEW cnt
        PROVE  Marked(c, B!RemCores(book[c], cores, old, s.new, cnt), {})
    <3> DEFINE k == book[c]
               o == k.offered_to
               mark(y) == CASE y \in cores /\ o[y] = NotOffered -> s.new
                            [] y \in cores /\ o[y] = old -> Elsewhere
                            [] OTHER -> o[y]
               g == [y \in DOMAIN o |-> mark(y)]
               h == B!TakeFromEntry(k.dds, old, cnt)
    <3>1. "offered_to" \in DOMAIN k
      BY <1>1 DEF Holding
    <3>2. B!RemCores(k, cores, old, s.new, cnt) =
            [k EXCEPT !.offered_to = g, !.dds = h]
      BY DEF B!RemCores
    <3>3. \A y : mark(y) = NotOffered => o[y] = NotOffered
      BY <1>4, ClusterAssumption
    <3> HIDE DEF h, k, mark
    <3>4. /\ [k EXCEPT !.offered_to = g, !.dds = h].offered_to = g
          /\ "offered_to" \in DOMAIN [k EXCEPT !.offered_to = g, !.dds = h]
      BY <3>1
    <3> QED
      BY <3>2, <3>3, <3>4 DEF Marked, k
  <2>2. Marked(c, book[c], {})
    BY <1>1 DEF Marked, Holding
  <2> DEFINE own == InCluster(c, s.cores)
             b == IF p \in Controller
                  THEN B!RemCores(book[c], s.cores, s.old, s.new,
                                  Cardinality(s.cores))
                  ELSE IF own = {} THEN book[c]
                  ELSE B!RemCores(book[c], own, p, s.new, Cardinality(own))
  <2>3. book' = [book EXCEPT ![c] = b]
    BY <1>2, <1>3 DEF RemCoresDDS, Hears
  <2>4. Marked(c, b, {})
    BY <2>1, <2>2
  <2> QED
    BY <2>3, <2>4
<1> QED
  BY <1>1, <1>2, <1>6, <1>7, <1>8, <1>9, BookOwned
-----------------------------------------------------------------------------
(* A manager gives cores away.                                               *)

\* The members of a finite set of numbers stand in an order: the rank of one
\* is the number of those up to it.
LEMMA Ordered ==
  ASSUME NEW S \in SUBSET Int, IsFiniteSet(S)
  PROVE  \E f \in [1..Cardinality(S) -> S] :
           \A i, j \in DOMAIN f : i < j => f[i] < f[j]
<1> DEFINE upto(i) == {j \in S : j <= i}
           n == Cardinality(S)
           r == [i \in S |-> Cardinality(upto(i))]
<1>1. n \in Nat
  BY FS_CardinalityType
<1>2. ASSUME NEW i \in S PROVE r[i] \in 1..n
  <2>1. IsFiniteSet(upto(i)) /\ Cardinality(upto(i)) <= n
    BY FS_Subset
  <2>2. Cardinality(upto(i)) \in Nat
    BY <2>1, FS_CardinalityType
  <2>3. Cardinality(upto(i)) # 0
    <3>1. i \in upto(i)
      OBVIOUS
    <3> QED
      BY <2>1, <3>1, FS_EmptySet
  <2> QED
    BY <1>1, <2>1, <2>2, <2>3
<1>3. ASSUME NEW i \in S, NEW j \in S, i < j PROVE r[i] < r[j]
  <2>1. /\ IsFiniteSet(upto(j)) /\ upto(i) \in SUBSET upto(j)
        /\ j \in upto(j) /\ j \notin upto(i)
    <3>1. IsFiniteSet(upto(j))
      BY FS_Subset
    <3>2. \A k \in S : k \in Int
      OBVIOUS
    <3>3. ASSUME NEW k \in S, k <= i PROVE k <= j
      BY <1>3, <3>2, <3>3
    <3>4. j <= j /\ ~ (j <= i)
      BY <1>3, <3>2
    <3> QED
      BY <3>1, <3>3, <3>4
  <2>2. /\ Cardinality(upto(i)) <= Cardinality(upto(j))
        /\ Cardinality(upto(j)) = Cardinality(upto(i)) => upto(j) = upto(i)
    BY <2>1, FS_Subset
  <2>3. r[i] \in Int /\ r[j] \in Int /\ r[i] = Cardinality(upto(i))
        /\ r[j] = Cardinality(upto(j))
    BY <1>1, <1>2
  <2>4. upto(j) # upto(i)
    BY <2>1
  <2> HIDE DEF upto, r
  <2> QED
    BY <2>2, <2>3, <2>4
<1> HIDE DEF upto
<1>4. r \in Injection(S, 1..n)
  <2>1. r \in [S -> 1..n]
    BY <1>2
  <2> HIDE DEF r
  <2>2. ASSUME NEW i \in S, NEW j \in S, r[i] = r[j] PROVE i = j
    <3>1. r[i] \in Int /\ r[j] \in Int /\ i \in Int /\ j \in Int
      BY <1>1, <1>2
    <3> QED
      BY <1>3, <2>2, <3>1
  <2> QED
    BY <2>1, <2>2 DEF Injection, IsInjective
<1>5. \A k \in 1..n : \E i \in S : r[i] = k
  <2>1. IsFiniteSet(1..n) /\ Cardinality(1..n) = n
    BY <1>1, FS_Interval
  <2>2. r \in Surjection(S, 1..n)
    BY <1>4, <2>1, FS_Injection
  <2> QED
    BY <2>2 DEF Surjection
<1> HIDE DEF r
<1> DEFINE f == [k \in 1..n |-> CHOOSE i \in S : r[i] = k]
<1>6. ASSUME NEW k \in 1..n PROVE f[k] \in S /\ r[f[k]] = k
  BY <1>5
<1>7. f \in [1..n -> S]
  BY <1>6
<1> HIDE DEF f
<1>8. ASSUME NEW i \in 1..n, NEW j \in 1..n, i < j PROVE f[i] < f[j]
  <2>1. f[i] \in S /\ f[j] \in S /\ r[f[i]] = i /\ r[f[j]] = j
    BY <1>6
  <2>2. CASE f[i] = f[j]
    BY <1>1, <1>8, <2>1, <2>2
  <2>4. f[i] \in Int /\ f[j] \in Int
    BY <2>1
  <2>3. CASE f[j] < f[i]
    <3>1. j < i
      BY <1>3, <2>1, <2>3
    <3> QED
      BY <1>1, <1>8, <3>1
  <2> QED
    BY <2>2, <2>3, <2>4
<1> QED
  BY <1>7, <1>8

\* What is left of a list was in it.
LEMMA WithoutIs ==
  ASSUME NEW l, Listing(l), NEW cores, NEW r, r = Without(l, cores)
  PROVE  /\ Listing(r) /\ \A i \in DOMAIN r : r[i].core \notin cores
         /\ \E order \in [DOMAIN r -> DOMAIN l] :
              /\ \A i \in DOMAIN r : r[i] = l[order[i]]
              /\ \A i, j \in DOMAIN r : i < j => order[i] < order[j]
              /\ \A k \in DOMAIN l : l[k].core \notin cores =>
                   \E i \in DOMAIN r : order[i] = k
<1> DEFINE left == {i \in DOMAIN l : l[i].core \notin cores}
           n == Cardinality(left)
           Up(f) == \A i, j \in DOMAIN f : i < j => f[i] < f[j]
<1>1. DOMAIN l = 1..Len(l) /\ Len(l) \in Nat
  BY DEF Listing, IsSeq
<1>2. left \in SUBSET Int /\ IsFiniteSet(left) /\ n \in Nat
  <2>1. IsFiniteSet(1..Len(l)) /\ left \in SUBSET (1..Len(l))
    BY <1>1, FS_Interval
  <2>2. IsFiniteSet(left)
    BY <2>1, FS_Subset
  <2> QED
    BY <1>1, <2>1, <2>2, FS_CardinalityType
<1>3. PICK order : /\ order \in [1..n -> left]
                   /\ Up(order)
                   /\ r = [i \in DOMAIN order |-> l[order[i]]]
  <2>1. \E f \in [1..n -> left] : Up(f)
    BY <1>2, Ordered
  <2>2. PICK order : order = CHOOSE f \in [1..n -> left] : Up(f)
    OBVIOUS
  <2>3. order \in [1..n -> left] /\ Up(order)
    BY <2>1, <2>2
  <2>4. r = [i \in DOMAIN order |-> l[order[i]]]
    BY <2>2 DEF Without
  <2> HIDE DEF left, n
  <2> QED
    BY <2>3, <2>4
<1>4. /\ DOMAIN r = 1..n
      /\ \A i \in 1..n : order[i] \in DOMAIN l /\ r[i] = l[order[i]]
  BY <1>3
<1>5. IsSeq(r)
  <2>1. r = [i \in 1..n |-> l[order[i]]]
    BY <1>3
  <2>2. PICK R : R = Range(l)
    OBVIOUS
  <2>3. r \in [1..n -> R]
    BY <1>4, <2>1, <2>2 DEF Range
  <2>4. n \in Nat
    BY <1>2
  <2> HIDE DEF n
  <2>5. r \in Seq(R)
    BY <2>3, <2>4
  <2> QED
    BY <2>5 DEF IsSeq
<1>6. order \in Surjection(1..n, left)
  <2>1. IsFiniteSet(1..n) /\ Cardinality(1..n) = n
    BY <1>2, FS_Interval
  <2>2. ASSUME NEW i \in 1..n, NEW j \in 1..n, order[i] = order[j] PROVE i = j
    <3>1. order[i] \in Int /\ i \in Int /\ j \in Int
      BY <1>2, <1>3
    <3>2. ~ (i < j) /\ ~ (j < i)
      BY <1>3, <2>2, <3>1
    <3> QED
      BY <3>1, <3>2
  <2>3. order \in Injection(1..n, left)
    BY <1>3, <2>2 DEF Injection, IsInjective
  <2> QED
    BY <1>2, <2>1, <2>3, FS_Injection
<1>7. /\ order \in [DOMAIN r -> DOMAIN l]
      /\ \A i \in DOMAIN r : r[i] = l[order[i]]
      /\ \A i, j \in DOMAIN r : i < j => order[i] < order[j]
      /\ \A k \in DOMAIN l : l[k].core \notin cores =>
           \E i \in DOMAIN r : order[i] = k
  <2>1. \A k \in left : \E i \in 1..n : order[i] = k
    BY <1>6 DEF Surjection
  <2>2. order \in [1..n -> DOMAIN l]
    BY <1>3
  <2>3. \A i, j \in 1..n : i < j => order[i] < order[j]
    BY <1>3
  <2>4. \A k \in DOMAIN l : l[k].core \notin cores => k \in left
    OBVIOUS
  <2> HIDE DEF left, n, Up
  <2>5. \A k \in DOMAIN l : l[k].core \notin cores =>
          \E i \in 1..n : order[i] = k
    BY <2>1, <2>4
  <2> QED
    BY <1>4, <2>2, <2>3, <2>5
<1>8. Listing(r)
  BY <1>4, <1>5 DEF Listing
<1>9. \A i \in DOMAIN r : r[i].core \notin cores
  BY <1>3, <1>4
<1> HIDE DEF left, n, Up
<1> QED
  BY <1>7, <1>8, <1>9

LEMMA RepOffersYesOwned ==
  ASSUME OInv, NEW n \in Node, RepOffersYes(n)
  PROVE  Owned' /\ NoOffer /\ OfferOver(n, Peer(n))
<1>1. /\ Receives(n, "REP_OFFERS") /\ UNCHANGED <<data, selfopt_offers>>
      /\ IInv /\ Shaped /\ Sound(Net) /\ Holding
  BY DEF RepOffersYes, OInv, Owned, IInv
<1>2. PICK p : /\ Hears(n, p, "REP_OFFERS")
               /\ HeadType(n, p) \notin {"none"} \cup Reports => Unfinished(mail[p], n)
  BY <1>1, Heard DEF OInv
<1>3. /\ HeadType(n, p) = "AGENT_OFFER_SENT" /\ p \in Node /\ p # n
      /\ inter[n][p] # <<>> /\ Unfinished(mail[p], n) /\ mail[n] # <<>>
      /\ p = Peer(n)
  BY <1>2 DEF RepOffersYes, Hears, HeadType, Reports
<1>4. PICK taken, acked, cores, M :
        /\ taken = Taken(n) /\ acked = Send(taken, n, p, Ack)
        /\ cores = Head(inter[n][p]).cores /\ M = {}
  OBVIOUS
<1>5. /\ Sound(acked) /\ Goes(taken, acked, n, {p}, 0, M)
      /\ acked.inter[n][p] = inter[n][p] /\ Unfinished(acked.mail[p], n)
  <2>1. Answering(n, p, acked)
    BY <1>4 DEF Answering, Ack, Sends
  <2> QED
    BY <1>1, <1>2, <1>3, <1>4, <2>1, AnswersMove
<1>6. ASSUME NEW posted, Sound(posted), Goes(acked, posted, n, {p}, 0, M),
             posted.inter[n][p] # <<>>, Unfinished(posted.mail[p], n),
             NEW r, Pops(posted, r, n, p), Becomes(r)
      PROVE  Step(n, {p}, 1, {}) /\ OfferOver(n, Peer(n))
  <2>1. PICK P : P = {p}
    OBVIOUS
  <2>2. Goes(taken, acked, n, P, 0, M) /\ Goes(acked, posted, n, P, 0, M)
    BY <1>5, <1>6, <2>1
  <2>3. Goes(taken, posted, n, P, 0, M)
    BY <1>4, <2>2, Following
  <2>4. Sound(r) /\ Goes(posted, r, n, {p}, 1, {})
    BY <1>3, <1>6, GoesPop DEF Unfinished
  <2>5. Goes(taken, r, n, P, 1, M)
    <3>1. Goes(posted, r, n, P, 1, M)
      BY <1>4, <2>1, <2>4
    <3> QED
      BY <1>4, <2>3, <3>1, Following
  <2>6. Step(n, P, 1, M)
    <3>1. Goes(Taken(n), r, n, P, 1, M) /\ Sound(r) /\ Peer(n) \in P
      BY <1>3, <1>4, <2>1, <2>4, <2>5
    <3>2. PICK k : k = 1
      OBVIOUS
    <3>3. k \in {0, 1} /\ Goes(Taken(n), r, n, P, k, M) /\ k = 1
      BY <3>1, <3>2
    <3>4. Step(n, P, k, M)
      BY <1>1, <1>3, <1>6, <3>1, <3>3, HandlerMoves
    <3> QED
      BY <3>2, <3>4
  <2>7. OfferOver(n, Peer(n))
    BY <1>3, <1>4, <2>1, <2>6 DEF Step, Offerings, OfferOver
  <2> QED
    BY <1>4, <2>1, <2>6, <2>7
<1>7. News /\ DOMAIN selfopt_offers' = Agent
  BY <1>1, NoNews
<1>8. n \notin {p} /\ Spares(n, {p})
  BY <1>2, <1>3 DEF Spares, Hears
<1>9. CASE n \in Controller
  <2>1. /\ book' = [book EXCEPT ![n] = B!OfferAccepted(@, cores)]
        /\ my_cores' = my_cores /\ Becomes(Pop(acked, n, p))
    BY <1>3, <1>4, <1>9 DEF RepOffersYes
  <2>2. Step(n, {p}, 1, {}) /\ OfferOver(n, Peer(n))
    <3>1. Goes(acked, acked, n, {p}, 0, M)
      BY <1>4, <1>5, GoesSame
    <3> QED
      BY <1>3, <1>5, <1>6, <2>1, <3>1 DEF Pops
  <2>3. PICK b, S : /\ b = B!OfferAccepted(book[n], cores) /\ S = {}
    OBVIOUS
  <2>4. Marked(n, b, S) /\ book' = [book EXCEPT ![n] = b]
    BY <1>1, <1>9, <2>1, <2>3 DEF Marked, Holding, B!OfferAccepted
  <2>5. /\ Holding'
        /\ \A m \in Node : \A y : Has(m, y)' => Has(m, y) \/ (m = n /\ y \in S)
    BY <1>1, <1>7, <1>9, <2>1, <2>4, HoldingBook
  <2>6. \A m \in Node, y \in Core : Has(m, y)' => Has(m, y)
    BY <2>3, <2>5
  <2> QED
    BY <1>7, <1>8, <2>2, <2>5, <2>6, Keeping
<1>10. CASE n \notin Controller
  <2>1. PICK x, c : /\ x = [type |-> "IDAG_REM_CORES_DDS", cores |-> cores,
                            old |-> n, new |-> p]
                    /\ c = idag_mask[n]
    OBVIOUS
  <2>2. PICK posted, l : /\ posted = Post(acked, n, c, x)
                         /\ l = Without(my_cores[n], cores)
    OBVIOUS
  <2>3. /\ my_cores' = [my_cores EXCEPT ![n] = l] /\ book' = book
        /\ Becomes(Pop(posted, n, p))
    BY <1>3, <1>4, <1>10, <2>1, <2>2 DEF RepOffersYes
  <2>4. n \in Agent /\ c \in Node
    BY <1>10, <2>1, Controlled DEF Node
  <2>5. /\ x.type \in Waiting /\ x.type \notin Offers \cup {"REMOVE_APP"}
        /\ Speaks(x)
    BY <1>3, <2>1, ClusterAssumption DEF Waiting, Reports, Offers, Speaks
  <2>6. Posts(acked, posted, n, c, x)
    BY <2>2 DEF Posts
  <2>7. Sound(posted) /\ Goes(acked, posted, n, {p}, 0, M)
    BY <1>5, <2>4, <2>5, <2>6, GoesPost
  <2>8. posted.inter[n][p] # <<>> /\ Unfinished(posted.mail[p], n)
    <3>1. IsNet(acked)
      BY <1>5 DEF Sound
    <3>2. /\ OnlyWith(acked, posted, n, c)
          /\ posted.inter[n][c] = Append(acked.inter[n][c], x)
          /\ posted.mail[c] =
               IF acked.inter[n][c] = <<>>
               THEN Append(acked.mail[c], [from |-> n, msg |-> SignalOf(x)])
               ELSE acked.mail[c]
      BY <2>4, <2>6, <3>1, PostIs
    <3>3. CASE p # c
      BY <1>3, <1>5, <3>2, <3>3 DEF OnlyWith
    <3>4. CASE p = c
      <4>1. acked.inter[n][p] # <<>> /\ SoundQueue(acked.inter[n][p])
        BY <1>3, <1>5 DEF Sound
      <4>2. posted.inter[n][p] = Append(acked.inter[n][p], x)
            /\ posted.mail[p] = acked.mail[p]
        BY <3>2, <3>4, <4>1
      <4>3. IsSeq(posted.inter[n][p])
            /\ x \in Range(posted.inter[n][p])
        BY <4>1, <4>2, RangeAppended, Appending DEF SoundQueue
      <4>4. posted.inter[n][p] # <<>>
        BY <4>3 DEF Range, IsSeq
      <4> QED
        BY <1>5, <4>2, <4>4
    <3> QED
      BY <3>3, <3>4
  <2>9. Step(n, {p}, 1, {}) /\ OfferOver(n, Peer(n))
    BY <1>6, <2>3, <2>7, <2>8 DEF Pops
  <2>10. PICK S : S = {}
    OBVIOUS
  <2>11. Relisted(n, l, S)
    <3>1. Listing(my_cores[n])
      BY <1>1, <2>4 DEF Holding
    <3>2. Listing(l) /\ \A i \in DOMAIN l : \E j \in DOMAIN my_cores[n] :
                          l[i] = my_cores[n][j]
      BY <2>2, <3>1, WithoutIs
    <3> QED
      BY <3>2 DEF Relisted
  <2>12. /\ Holding'
         /\ \A m \in Node : \A y : Has(m, y)' => Has(m, y) \/ (m = n /\ y \in S)
    BY <1>1, <1>7, <2>3, <2>4, <2>11, HoldingList
  <2>13. \A m \in Node, y \in Core : Has(m, y)' => Has(m, y)
    BY <2>10, <2>12
  <2> QED
    BY <1>7, <1>8, <2>9, <2>12, <2>13, Keeping
<1> QED
  BY <1>9, <1>10
-----------------------------------------------------------------------------
(* An offer is collected.                                                    *)

LEMMA Single ==
  ASSUME NEW d
  PROVE  \E q : q = <<d>> /\ Head(q) = d /\ Tail(q) = <<>> /\ Range(q) = {d}
<1>1. PICK q : q = <<d>>
  OBVIOUS
<1>2. q \in Seq({d}) /\ Len(q) = 1 /\ q[1] = d /\ Tail(q) = <<>>
  BY <1>1
<1>3. Head(q) = d /\ DOMAIN q = {1}
  BY <1>2
<1> QED
  BY <1>1, <1>2, <1>3 DEF Range

LEMMA Inserted ==
  ASSUME NEW l, IsSeq(l), NEW o, NEW r, r = InsertOffer(l, o)
  PROVE  IsSeq(r) /\ Range(r) \subseteq Range(l) \cup {o}
<1> DEFINE bigger == {i \in DOMAIN l :
                        Cardinality(l[i].cores) >= Cardinality(o.cores)}
<1>1. DOMAIN l = 1..Len(l) /\ Len(l) \in Nat
  BY DEF IsSeq
<1>2. PICK k \in Nat : k = Cardinality(bigger) /\ k <= Len(l)
  <2>1. IsFiniteSet(1..Len(l)) /\ Cardinality(1..Len(l)) = Len(l)
    <3>1. PICK N \in Nat : N = Len(l)
      BY <1>1
    <3>2. IsFiniteSet(1..N) /\ Cardinality(1..N) = N
      BY FS_Interval
    <3> QED
      BY <3>1, <3>2
  <2>2. bigger \in SUBSET (1..Len(l))
    BY <1>1
  <2>3. IsFiniteSet(bigger) /\ Cardinality(bigger) <= Cardinality(1..Len(l))
    BY <2>1, <2>2, FS_Subset
  <2>4. Cardinality(bigger) \in Nat
    BY <2>3, FS_CardinalityType
  <2> QED
    BY <2>1, <2>3, <2>4
<1>3. r = SubSeq(l, 1, k) \o <<o>> \o SubSeq(l, k + 1, Len(l))
  <2>1. r = InsertAt(l, Cardinality(bigger) + 1, o)
    BY DEF InsertOffer
  <2>2. PICK j : j = k + 1
    OBVIOUS
  <2>5. j - 1 = k
    BY <1>2, <2>2
  <2>3. r = InsertAt(l, j, o)
    BY <1>2, <2>1, <2>2
  <2>4. r = SubSeq(l, 1, j - 1) \o <<o>> \o SubSeq(l, j, Len(l))
    BY <2>3 DEF InsertAt
  <2> QED
    BY <2>2, <2>4, <2>5
<1>4. PICK S : S = Range(l) \cup {o}
  OBVIOUS
<1>5. \A i \in 1..Len(l) : l[i] \in S
  BY <1>1, <1>4 DEF Range
<1>6. SubSeq(l, 1, k) \in Seq(S)
  <2>1. \A i \in 1..k : l[i] \in S
    BY <1>1, <1>2, <1>5
  <2>2. 1 \in Int /\ k \in Int
    BY <1>2
  <2> QED
    BY <2>1, <2>2, SubSeqProperties
<1>7. SubSeq(l, k + 1, Len(l)) \in Seq(S)
  <2>1. \A i \in (k + 1)..Len(l) : l[i] \in S
    BY <1>1, <1>2, <1>5
  <2>2. k + 1 \in Int /\ Len(l) \in Int
    BY <1>1, <1>2
  <2> QED
    BY <2>1, <2>2, SubSeqProperties
<1>8. r \in Seq(S)
  <2>1. PICK u, v : u = SubSeq(l, 1, k) /\ v = SubSeq(l, k + 1, Len(l))
    OBVIOUS
  <2>2. u \in Seq(S) /\ v \in Seq(S) /\ o \in S
    BY <1>4, <1>6, <1>7, <2>1
  <2> QED
    BY <1>3, <2>1, <2>2
<1> QED
  BY <1>4, <1>8 DEF IsSeq, Range

LEMMA CollectOfferOwned ==
  ASSUME OInv, NEW n \in Node, CollectOffer(n)
  PROVE  Owned' /\ NoOffer
<1>1. /\ waiting[n] # NoSignal /\ data[n] # <<>> /\ my_cores' = my_cores
      /\ book' = book /\ waiting' = [waiting EXCEPT ![n] = NoSignal]
      /\ data' = [data EXCEPT ![n] = Tail(@)]
      /\ IInv /\ Shaped /\ Sound(Net) /\ Collecting /\ Holding
  BY DEF CollectOffer, OInv, Owned, IInv
<1>2. PICK p \in Node : /\ p = waiting[n].from /\ p # n
                        /\ Blocked(n, p) \in {"request", "cores"}
  BY <1>1, DataCome
<1>3. PICK d : /\ data[n] = <<d>> /\ d.from = p
               /\ waiting[n].msg.body = "offers" => d.cores # {}
  BY <1>1, <1>2 DEF IInv, Area
<1>18. Head(data[n]) = d /\ Tail(data[n]) = <<>> /\ Range(data[n]) = {d}
  <2>1. PICK q : q = <<d>> /\ Head(q) = d /\ Tail(q) = <<>> /\ Range(q) = {d}
    BY Single
  <2> QED
    BY <1>3, <2>1
<1>4. PICK x, o : /\ x = [type |-> "REP_AGENT_OFFER_PENDING"]
                  /\ o = [sender |-> p, cores |-> d.cores]
  OBVIOUS
<1>5. PICK net, r : net = Net /\ r = Rehead(net, n, p, x)
  OBVIOUS
<1>6. /\ HeadType(n, p) = "SELFOPT_REQ_CORES" /\ Becomes(r)
      /\ selfopt_offers' = [selfopt_offers EXCEPT ![n] = InsertOffer(@, o)]
  <2>1. Head(data[n]) = d
    BY <1>18
  <2> QED
    BY <1>2, <1>4, <1>5, <2>1 DEF CollectOffer
<1>7. d.cores # {} /\ HeadType(p, n) = "AGENT_OFFER_SENT"
  <2>1. PICK a, b, c, e, k :
          /\ Talk("SELFOPT_REQ_CORES", Stage(p, n), a, b, c, e, k, Blocked(p, n))
          /\ k \in {"request", "cores"} /\ k = Blocked(n, p)
    BY <1>1, <1>2, <1>6, StageIs DEF IInv, Talked
  <2>2. k = "cores"
    BY <2>1, CoresCome
  <2>3. waiting[n].msg.body = "offers"
    BY <1>1, <1>2, <2>1, <2>2 DEF Blocked, IInv, Waits
  <2>4. d \in Range(data[n])
    BY <1>18
  <2> QED
    BY <1>1, <1>3, <2>3, <2>4, Loaded
<1>8. Fetched(p, n, d.cores)
  <2>1. d \in Range(data[n])
    BY <1>18
  <2> QED
    BY <1>1, <1>3, <1>7, <2>1 DEF Collecting
<1>9. /\ Sound(net) /\ inter[n][p] # <<>> /\ net.inter[n][p] # <<>>
      /\ net.inter = inter
  BY <1>1, <1>5, <1>6 DEF HeadType, Net
<1>10. Speaks(x) /\ x.type \notin Offers
  BY <1>4 DEF Speaks, Offers
<1>11. Sound(r) /\ Goes(net, r, n, {p}, 0, {})
  BY <1>2, <1>5, <1>9, <1>10, GoesRehead DEF Reheads
<1>12. PICK P : P = {p}
  OBVIOUS
<1>13. Step(n, P, 0, {})
  BY <1>5, <1>6, <1>11, <1>12, ProgramMoves
<1>14. Spares(n, P)
  BY <1>6, <1>12 DEF Spares
<1>15. Collected(n, o)'
  <2>1. /\ r.inter[n][p] = <<x>> \o Tail(inter[n][p]) /\ inter' = r.inter
        /\ \A m \in Node : m # n => r.inter[m] = inter[m]
    <3>1. IsNet(net)
      BY <1>9 DEF Sound
    <3>2. /\ r.inter[n][p] = <<x>> \o Tail(net.inter[n][p])
          /\ OnlyWith(net, r, n, p)
      <4>1. p \in Node /\ n \in Node
        BY <1>2
      <4> QED
        BY <1>5, <3>1, <4>1, ReheadIs
    <3> QED
      BY <1>6, <1>9, <3>2 DEF OnlyWith, Becomes
  <2>2. HeadType(n, p)' = "REP_AGENT_OFFER_PENDING"
    <3>1. IsSeq(inter[n][p])
      BY <1>1, <1>2 DEF Sound, Net, SoundQueue
    <3>2. PICK q, S : q = inter[n][p] /\ Tail(q) \in Seq(S)
      BY <1>9, <3>1, RangeTailed DEF IsSeq
    <3>3. /\ Len(<<x>> \o Tail(q)) = Len(Tail(q)) + 1 /\ (<<x>> \o Tail(q))[1] = x
          /\ Len(Tail(q)) \in Nat /\ <<x>> \o Tail(q) \in Seq(S \cup {x})
      BY <3>2
    <3>4. <<x>> \o Tail(q) # <<>> /\ Head(<<x>> \o Tail(q)) = x
      BY <3>3
    <3>5. inter'[n][p] # <<>> /\ Head(inter'[n][p]) = x
      BY <2>1, <3>2, <3>4
    <3> QED
      BY <1>4, <3>5 DEF HeadType
  <2>3. Fetched(p, n, d.cores)'
    <3>1. PICK cores : cores = d.cores
      OBVIOUS
    <3>2. inter'[p][n] = inter[p][n]
      BY <1>2, <2>1
    <3>3. Fetched(p, n, cores)'
      BY <1>8, <3>1, <3>2 DEF Fetched
    <3> QED
      BY <3>1, <3>3
  <2>4. o.sender = p /\ o.cores = d.cores
    BY <1>4
  <2> QED
    BY <1>2, <2>2, <2>3, <2>4 DEF Collected
<1>16. DOMAIN selfopt_offers' = Agent
  BY <1>1, <1>6 DEF Holding
<1>17. News
  <2>1. ASSUME NEW a \in Agent
        PROVE  /\ IsSeq(selfopt_offers'[a])
               /\ \A offer \in Range(selfopt_offers'[a]) :
                    offer \in Range(selfopt_offers[a]) \/ Collected(a, offer)'
    <3>1. CASE a # n
      BY <1>1, <1>6, <3>1 DEF Collecting, Holding
    <3>2. CASE a = n
      <4>1. PICK l, t : /\ l = selfopt_offers[n] /\ t = InsertOffer(l, o)
                        /\ selfopt_offers'[n] = t /\ IsSeq(l)
        BY <1>1, <1>6, <3>2 DEF Collecting, Holding
      <4>2. IsSeq(t) /\ Range(t) \subseteq Range(l) \cup {o}
        BY <4>1, Inserted
      <4> QED
        BY <1>15, <3>2, <4>1, <4>2
    <3> QED
      BY <3>1, <3>2
  <2>2. ASSUME NEW m \in Node, NEW e \in Range(data'[m])
        PROVE  e \in Range(data[m])
    <3>1. CASE m # n
      BY <1>1, <2>2, <3>1 DEF Shaped
    <3>2. CASE m = n
      <4>1. data'[n] = Tail(data[n])
        BY <1>1 DEF Shaped
      <4>2. Tail(data[n]) = <<>>
        BY <1>18
      <4> QED
        BY <2>2, <3>2, <4>1, <4>2 DEF Range
    <3> QED
      BY <3>1, <3>2
  <2> QED
    BY <2>1, <2>2 DEF News
<1> QED
  BY <1>1, <1>13, <1>14, <1>16, <1>17, Unmoved
-----------------------------------------------------------------------------
(* The actions that move cores.                                              *)

\* A step that moves the cores of U from place s.
LEMMA Moving ==
  ASSUME OInv, NEW n \in Node, NEW P, NEW k, k \in {0, 1}, NEW N,
         Step(n, P, k, N), k = 0 \/ n \notin P, Spares(n, P), News, Holding',
         NEW s1 \in Node, NEW s2 \in Node, NEW s3 \in Nat, NEW U,
         Leaves(n, P, k, N, s1, s2, s3, U), Arrives(N, U)
  PROVE  Owned'
<1>1. \A x \in Core : OnePlace(x)'
  <2>1. (\A x \in Core : OnePlace(x)) /\ Moves(n, P, k, N)
    BY DEF OInv, Owned, Step
  <2> QED
    BY <2>1, MovesOn
<1>2. Collecting'
  BY CollectingStays DEF Step
<1> QED
  BY <1>1, <1>2 DEF Owned, Step

\* Data are taken from an area.
LEMMA Consumed ==
  ASSUME OInv, NEW n \in Node, data[n] # <<>>, selfopt_offers' = selfopt_offers,
         data' = [data EXCEPT ![n] = Tail(@)]
  PROVE  News /\ DOMAIN selfopt_offers' = Agent
<1>1. Area(n) /\ Shaped /\ Collecting /\ Holding
  BY DEF OInv, IInv, Owned
<1>2. PICK d : data[n] = <<d>>
  BY <1>1 DEF Area
<1>3. PICK q : q = <<d>> /\ Head(q) = d /\ Tail(q) = <<>> /\ Range(q) = {d}
  BY Single
<1>4. data'[n] = <<>> /\ \A m \in Node : m # n => data'[m] = data[m]
  BY <1>1, <1>2, <1>3 DEF Shaped
<1> QED
  BY <1>1, <1>4 DEF News, Collecting, Holding, Range

LEMMA MarkIs ==
  ASSUME NEW l, Listing(l), NEW cores, NEW old, NEW m, NEW r,
         r = Mark(l, cores, old, m)
  PROVE  /\ Listing(r) /\ DOMAIN r = DOMAIN l
         /\ \A i \in DOMAIN r :
              /\ r[i].core = l[i].core
              /\ r[i].offered_to =
                   IF l[i].core \in cores /\ l[i].offered_to \in old THEN m
                   ELSE l[i].offered_to
<1>1. /\ DOMAIN r = DOMAIN l
      /\ \A i \in DOMAIN l : r[i] =
           IF l[i].core \in cores /\ l[i].offered_to \in old
           THEN [l[i] EXCEPT !.offered_to = m] ELSE l[i]
  BY DEF Mark
<1>2. ASSUME NEW i \in DOMAIN l
      PROVE  /\ r[i] = [core |-> r[i].core, offered_to |-> r[i].offered_to]
             /\ r[i].core = l[i].core /\ r[i].core \in Core
             /\ r[i].offered_to =
                  IF l[i].core \in cores /\ l[i].offered_to \in old THEN m
                  ELSE l[i].offered_to
  <2>1. PICK x, o : l[i] = [core |-> x, offered_to |-> o] /\ x \in Core
    BY DEF Listing
  <2>2. r[i] = IF x \in cores /\ o \in old
               THEN [core |-> x, offered_to |-> m]
               ELSE [core |-> x, offered_to |-> o]
    <3>1. [[core |-> x, offered_to |-> o] EXCEPT !.offered_to = m] =
            [core |-> x, offered_to |-> m]
      OBVIOUS
    <3> QED
      BY <1>1, <2>1, <3>1
  <2> QED
    BY <2>1, <2>2
<1>3. IsSeq(r)
  <2>1. DOMAIN l = 1..Len(l) /\ Len(l) \in Nat
    BY DEF Listing, IsSeq
  <2>2. PICK N \in Nat : DOMAIN r = 1..N
    BY <1>1, <2>1
  <2>3. PICK R : R = Range(r)
    OBVIOUS
  <2>4. r = [i \in 1..N |-> r[i]]
    BY <1>1, <2>2 DEF Mark
  <2>5. r \in [1..N -> R]
    BY <2>2, <2>3, <2>4 DEF Range
  <2>6. r \in Seq(R)
    BY <2>5
  <2> QED
    BY <2>6 DEF IsSeq
<1> QED
  BY <1>1, <1>2, <1>3 DEF Listing

\* A controller or a manager marks cores.
LEMMA OfferMarks ==
  ASSUME Holding, DOMAIN selfopt_offers' = Agent, NEW n \in Node, NEW p \in Node,
         NEW cores,
         IF n \in Controller
         THEN /\ book' = [book EXCEPT ![n] = B!OfferTo(@, cores, p)]
              /\ my_cores' = my_cores
         ELSE /\ my_cores' = [my_cores EXCEPT ![n] = Mark(@, cores, AnyMark, p)]
              /\ book' = book
  PROVE  /\ Holding' /\ \A m \in Node : \A x : Has(m, x)' => Has(m, x)
         /\ \A x \in cores : ~ Has(n, x)'
<1>1. PICK S : S = {}
  OBVIOUS
<1>2. p # NotOffered
  BY ClusterAssumption
<1>3. CASE n \in Controller
  <2>1. PICK b : b = B!OfferTo(book[n], cores, p)
    OBVIOUS
  <2>2. /\ book' = [book EXCEPT ![n] = b] /\ book'[n] = b
        /\ b.offered_to = [x \in DOMAIN book[n].offered_to |->
                             IF x \in cores THEN p ELSE book[n].offered_to[x]]
        /\ "offered_to" \in DOMAIN b
    BY <1>3, <2>1 DEF Holding, B!OfferTo
  <2>3. Marked(n, b, S)
    BY <1>2, <2>2 DEF Marked
  <2>4. /\ Holding'
        /\ \A m \in Node : \A x : Has(m, x)' => Has(m, x) \/ (m = n /\ x \in S)
    BY <1>3, <2>2, <2>3, HoldingBook
  <2>5. ASSUME NEW x \in cores, Has(n, x)' PROVE FALSE
    BY <1>2, <1>3, <2>2, <2>5 DEF Has
  <2> QED
    BY <1>1, <2>4, <2>5
<1>4. CASE n \notin Controller
  <2>1. PICK l : l = Mark(my_cores[n], cores, AnyMark, p)
    OBVIOUS
  <2>2. n \in Agent /\ Listing(my_cores[n])
    BY <1>4 DEF Holding, Node
  <2>3. /\ my_cores' = [my_cores EXCEPT ![n] = l] /\ my_cores'[n] = l
    BY <1>4, <2>1, <2>2 DEF Holding
  <2>4. /\ DOMAIN l = DOMAIN my_cores[n]
        /\ \A i \in DOMAIN l :
             /\ l[i].core = my_cores[n][i].core
             /\ l[i].offered_to = NotOffered =>
                  /\ my_cores[n][i].offered_to = NotOffered
                  /\ l[i].core \notin cores
    BY <1>2, <2>1, <2>2, MarkIs DEF AnyMark
  <2>5. Listing(l)
    BY <2>1, <2>2, MarkIs
  <2>6. Relisted(n, l, S)
    BY <2>4, <2>5 DEF Relisted
  <2>7. /\ Holding'
        /\ \A m \in Node : \A x : Has(m, x)' => Has(m, x) \/ (m = n /\ x \in S)
    BY <1>4, <2>2, <2>3, <2>6, HoldingList
  <2>8. ASSUME NEW x \in cores, Has(n, x)' PROVE FALSE
    BY <1>4, <2>3, <2>4, <2>8 DEF Has
  <2> QED
    BY <1>1, <2>7, <2>8
<1> QED
  BY <1>3, <1>4

\* What may be offered is there.
LEMMA CandidatesHad ==
  ASSUME Holding, NEW n \in Node, NEW x \in Candidates(n)
  PROVE  x \in Core /\ Has(n, x)
<1>1. CASE n \in Controller
  BY <1>1 DEF Candidates, Has, Holding
<1>2. CASE n \notin Controller
  <2>1. n \in Agent /\ Listing(my_cores[n])
    BY <1>2 DEF Holding, Node
  <2>2. PICK i \in 3..Len(my_cores[n]) :
          /\ x = my_cores[n][i].core
          /\ x \notin {my_cores[n][j].core : j \in Offered(n)}
    BY <1>2 DEF Candidates
  <2>3. i \in DOMAIN my_cores[n]
    BY <2>1, <2>2 DEF Listing, IsSeq
  <2>4. i \notin Offered(n)
    BY <2>2
  <2>5. my_cores[n][i].offered_to = NotOffered
    BY <2>3, <2>4 DEF Offered
  <2> QED
    BY <1>2, <2>1, <2>2, <2>3, <2>5 DEF Has, Listing
<1> QED
  BY <1>1, <1>2

\* Only n offers what was not on offer before, and only this to p.
OffersTo(n, p, cores) ==
  \A m, q \in Agent : \A x :
    Lends(inter'[m][q], x) =>
      Lends(inter[m][q], x) \/ (m = n /\ q = p /\ x \in cores)

\* Cores are put on offer: from the list of n into the offer.
LEMMA OfferCoresOwned ==
  ASSUME OInv, NEW n \in Node, OfferCores(n)
  PROVE  /\ Owned'
         /\ \E p \in Node : \E cores \in SUBSET Candidates(n) :
              /\ OffersTo(n, p, cores)
              /\ n \notin Controller =>
                   my_cores' = [my_cores EXCEPT ![n] =
                                  Mark(@, cores, AnyMark, p)]
              /\ n \in Controller => my_cores' = my_cores
<1>1. /\ waiting[n] # NoSignal /\ data[n] # <<>> /\ selfopt_offers' = selfopt_offers
      /\ waiting' = [waiting EXCEPT ![n] = NoSignal]
      /\ data' = [data EXCEPT ![n] = Tail(@)]
      /\ IInv /\ Sound(Net) /\ Holding
  BY DEF OfferCores, OInv, Owned
<1>2. PICK p \in Node : p = waiting[n].from /\ p # n
  BY <1>1, DataCome
<1>3. News /\ DOMAIN selfopt_offers' = Agent
  BY <1>1, Consumed
<1>4. PICK cores \in SUBSET Candidates(n) :
        /\ HeadType(n, p) = "none"
        /\ Becomes(Post(Net, n, p, [type |-> "REP_AGENT_REQ_CORES",
                                    cores |-> cores]))
        /\ IF n \in Controller
           THEN /\ book' = [book EXCEPT ![n] = B!OfferTo(@, cores, p)]
                /\ my_cores' = my_cores
           ELSE /\ my_cores' = [my_cores EXCEPT ![n] =
                                  Mark(@, cores, AnyMark, p)]
                /\ book' = book
  BY <1>2 DEF OfferCores
<1>5. \A x \in cores : x \in Core /\ Has(n, x)
  BY <1>1, CandidatesHad
<1>6. /\ Holding' /\ \A m \in Node : \A x : Has(m, x)' => Has(m, x)
      /\ \A x \in cores : ~ Has(n, x)'
  BY <1>1, <1>3, <1>4, OfferMarks
<1>7. PICK x : x = [type |-> "REP_AGENT_REQ_CORES", cores |-> cores]
  OBVIOUS
<1>8. PICK net, r : net = Net /\ r = Post(net, n, p, x)
  OBVIOUS
<1>9. /\ Becomes(r) /\ net.inter[n][p] = <<>> /\ Sound(net)
      /\ Speaks(x) /\ x.type = "REP_AGENT_REQ_CORES" /\ x.cores = cores
  <2>1. Becomes(r)
    BY <1>4, <1>7, <1>8
  <2>2. inter[n][p] = <<>>
    <3>1. HeadType(n, p) \in {"none"}
      BY <1>4
    <3> QED
      BY <1>1, <1>4, StageIs
  <2>3. Speaks(x) /\ x.type = "REP_AGENT_REQ_CORES" /\ x.cores = cores
    BY <1>5, <1>7 DEF Speaks
  <2> QED
    BY <1>1, <1>8, <2>1, <2>2, <2>3 DEF Net
<1>10. PICK P, N : P = {} /\ N = {<<n, p, 1, y>> : y \in cores}
  OBVIOUS
<1>11. Sound(r) /\ Goes(net, r, n, P, 0, N)
  <2>1. Len(net.inter[n][p]) + 1 = 1
    BY <1>9
  <2>2. \A y \in x.cores : <<n, p, Len(net.inter[n][p]) + 1, y>> \in N
    BY <1>9, <1>10, <2>1
  <2> QED
    BY <1>8, <1>9, <2>2, GoesPost DEF Posts
<1>12. Step(n, P, 0, N) /\ Spares(n, P)
  BY <1>8, <1>9, <1>10, <1>11, ProgramMoves DEF Spares
<1>13. Leaves(n, P, 0, N, n, n, 0, cores)
  BY <1>5, <1>6 DEF Leaves, At
<1>14. Arrives(N, cores)
  <2>1. \A m, q, i, y : <<m, q, i, y>> \in N =>
          m = n /\ q = p /\ i = 1 /\ y \in cores
    BY <1>10
  <2> QED
    BY <1>6, <2>1 DEF Arrives, Same
<1>15. OffersTo(n, p, cores)
  <2>1. ASSUME NEW m \in Agent, NEW q \in Agent, NEW y, Lends(inter'[m][q], y)
        PROVE  Lends(inter[m][q], y) \/ (m = n /\ q = p /\ y \in cores)
    <3>1. \/ <<m, q, 1, y>> \in N
          \/ Lends(inter[m][q], y) /\ ~ (m = n /\ q \in P /\ 0 = 1)
      BY <1>12, <2>1 DEF Step, Offerings, Node
    <3> QED
      BY <1>10, <3>1
  <2> QED
    BY <2>1 DEF OffersTo
<1>16. Owned'
  BY <1>3, <1>6, <1>12, <1>13, <1>14, Moving
<1> QED
  BY <1>4, <1>15, <1>16

\* Beside the answer to an offer there is no other.
LEMMA OneAnswer ==
  ASSUME NEW v, NEW w, NEW a, NEW b, NEW c, NEW d, NEW y,
         Talk(v, w, a, b, c, d, "no", y), c \in {"REP_OFFERS", "REJECT"}
  PROVE  d # "REP_OFFERS"
<1> USE DEF Talk, Asks, Answered, Offering, Deciding, Refusing, Idle, Reports,
            Call
<1>1. CASE ~ Tells(v, w, a, b, c, d)
  BY <1>1
<1>2. CASE Tells(v, w, a, b, c, d)
  BY <1>2 DEF Tells, Order
<1> QED
  BY <1>1, <1>2

\* An offer comes back: its cores get from the offer into the list of n.
LEMMA Returned ==
  ASSUME OInv, NEW n \in Node, NEW sig \in {"REP_OFFERS", "REJECT"},
         Receives(n, sig), sig = "REP_OFFERS" => Head(mail[n]).msg.answer # 1,
         HeadType(n, Peer(n)) \in Offers, UNCHANGED <<data, selfopt_offers>>,
         NEW net, Answering(n, Peer(n), net),
         NEW r, Pops(net, r, n, Peer(n)), Becomes(r),
         NEW cores, cores = Head(inter[n][Peer(n)]).cores, Holding',
         \A m \in Node : \A x : Has(m, x)' => Has(m, x) \/ (m = n /\ x \in cores)
  PROVE  Owned' /\ NoOffer /\ OfferOver(n, Peer(n))
<1>1. PICK p : /\ Hears(n, p, sig)
               /\ HeadType(n, p) \notin {"none"} \cup Reports => Unfinished(mail[p], n)
               /\ \E a, b, d :
                    /\ Line(Tail(mail[n]), p, d, "none")
                    /\ Talk(Stage(n, p), Stage(p, n), a, b,
                            Kind(Head(mail[n]).msg), d, "no", Blocked(p, n))
  BY Heard DEF OInv
<1>2. /\ p = Peer(n) /\ p \in Node /\ p # n /\ mail[n] # <<>>
      /\ Head(mail[n]).msg.sig = sig /\ IInv /\ Sound(Net)
  BY <1>1 DEF Hears, OInv, Owned
<1>3. inter[n][p] # <<>> /\ Unfinished(mail[p], n) /\ Head(inter[n][p]).type \in Offers
  BY <1>1, <1>2 DEF HeadType, Reports, Offers
<1>4. Step(n, {p}, 1, {}) /\ n \notin {p} /\ Spares(n, {p})
  BY <1>1, <1>2, <1>3, EndStep
<1>5. ~ Agreed(mail[n], p)
  <2>1. PICK a, b, d :
          /\ Line(Tail(mail[n]), p, d, "none")
          /\ Talk(Stage(n, p), Stage(p, n), a, b, sig, d, "no", Blocked(p, n))
    BY <1>1, <1>2 DEF Kind
  <2>2. d # "REP_OFFERS"
    BY <2>1, OneAnswer
  <2>3. ASSUME NEW s \in Range(mail[n]), Accepting(s, p) PROVE FALSE
    <3>1. IsSeq(mail[n])
      BY <1>2 DEF Sound, Net, SoundList
    <3>2. s \in Range(Tail(mail[n]))
      BY <1>2, <2>3, <3>1, RangeTailed DEF Accepting
    <3>3. PICK i \in DOMAIN Tail(mail[n]) : s = Tail(mail[n])[i]
      BY <3>2 DEF Range
    <3>4. i \in From(Tail(mail[n]), p) /\ Kind(Tail(mail[n])[i].msg) = "REP_OFFERS"
      BY <2>3, <3>3 DEF From, Accepting, Kind
    <3> QED
      BY <2>1, <2>2, <3>4 DEF Line
  <2> QED
    BY <2>3 DEF Agreed
<1>6. PICK P, N : P = {p} /\ N = {}
  OBVIOUS
<1>7. Leaves(n, P, 1, N, n, p, 1, cores)
  <2>1. ASSUME NEW x \in cores
        PROVE  /\ At(n, p, 1, x)
               /\ \A i \in Nat : Lies(Net, n, p, i, x)' => i + 1 # 1
    <3>1. Lends(inter[n][p], x)
      BY <1>2, <1>3, <2>1 DEF Lends
    <3>2. At(n, p, 1, x)
      BY <1>2, <1>5, <3>1 DEF At, Lies, Net
    <3>3. ~ Lies(Net, n, p, 0, x)'
      BY DEF Lies, Gives
    <3> QED
      BY <3>2, <3>3
  <2> QED
    BY <1>6, <2>1 DEF Leaves
<1>8. Arrives(N, cores)
  BY <1>6 DEF Arrives, Same
<1>9. News
  BY NoNews
<1>10. Step(n, P, 1, N) /\ n \notin P /\ Spares(n, P)
  BY <1>4, <1>6
<1>11. PICK k, i : k = 1 /\ i = 1
  OBVIOUS
<1>12. /\ k \in {0, 1} /\ i \in Nat /\ Step(n, P, k, N)
       /\ Leaves(n, P, k, N, n, p, i, cores)
  BY <1>7, <1>10, <1>11
<1>13. NoOffer /\ OfferOver(n, Peer(n))
  BY <1>2, <1>6, <1>10 DEF Step, Offerings, NoOffer, OfferOver, Node
<1> QED
  BY <1>2, <1>8, <1>9, <1>10, <1>12, <1>13, Moving

LEMMA RepOffersNoOwned ==
  ASSUME OInv, NEW n \in Node, RepOffersNo(n)
  PROVE  Owned' /\ NoOffer /\ OfferOver(n, Peer(n))
<1>1. /\ Receives(n, "REP_OFFERS") /\ Head(mail[n]).msg.answer # 1
      /\ HeadType(n, Peer(n)) \in Offers /\ UNCHANGED <<data, selfopt_offers>>
      /\ Holding
  BY DEF RepOffersNo, Offers, OInv, Owned
<1>2. PICK p, cores : p = Peer(n) /\ cores = Head(inter[n][p]).cores
  OBVIOUS
<1>3. PICK net, r : /\ Answering(n, Peer(n), net) /\ Pops(net, r, n, Peer(n))
                    /\ Becomes(r)
  BY DEF RepOffersNo, Answering, Pops, Sends, Ack
<1>4. News /\ DOMAIN selfopt_offers' = Agent
  BY <1>1, NoNews
<1>5. /\ Holding'
      /\ \A m \in Node : \A x : Has(m, x)' => Has(m, x) \/ (m = n /\ x \in cores)
  <2>1. CASE n \in Controller
    <3>1. PICK b : b = B!OfferRefused(book[n], cores, p)
      OBVIOUS
    <3>2. book' = [book EXCEPT ![n] = b] /\ my_cores' = my_cores
      BY <1>2, <2>1, <3>1 DEF RepOffersNo
    <3>3. Marked(n, b, cores)
      BY <1>1, <2>1, <3>1 DEF Marked, Holding, B!OfferRefused
    <3> QED
      BY <1>1, <1>4, <2>1, <3>2, <3>3, HoldingBook
  <2>2. CASE n \notin Controller
    <3>1. PICK l : l = Mark(my_cores[n], cores, {p}, NotOffered)
      OBVIOUS
    <3>2. my_cores' = [my_cores EXCEPT ![n] = l] /\ book' = book
      BY <1>2, <2>2, <3>1 DEF RepOffersNo
    <3>3. n \in Agent /\ Listing(my_cores[n])
      BY <1>1, <2>2 DEF Holding, Node
    <3>4. Relisted(n, l, cores)
      <4>1. /\ Listing(l) /\ DOMAIN l = DOMAIN my_cores[n]
            /\ \A i \in DOMAIN l :
                 /\ l[i].core = my_cores[n][i].core
                 /\ l[i].offered_to =
                      IF /\ my_cores[n][i].core \in cores
                         /\ my_cores[n][i].offered_to \in {p}
                      THEN NotOffered ELSE my_cores[n][i].offered_to
        BY <3>1, <3>3, MarkIs
      <4> QED
        BY <4>1 DEF Relisted
    <3> QED
      BY <1>1, <1>4, <3>2, <3>3, <3>4, HoldingList
  <2> QED
    BY <2>1, <2>2
<1> QED
  BY <1>1, <1>2, <1>3, <1>5, Returned

LEMMA RejectOfferOwned ==
  ASSUME OInv, NEW n \in Node, RejectOffer(n)
  PROVE  Owned' /\ NoOffer /\ OfferOver(n, Peer(n))
<1>1. /\ Receives(n, "REJECT") /\ HeadType(n, Peer(n)) \in Offers
      /\ UNCHANGED <<data, selfopt_offers>> /\ Holding
  BY DEF RejectOffer, Offers, OInv, Owned
<1>2. PICK p, cores : p = Peer(n) /\ cores = Head(inter[n][p]).cores
  OBVIOUS
<1>3. PICK net, r : /\ Answering(n, Peer(n), net) /\ Pops(net, r, n, Peer(n))
                    /\ Becomes(r)
  BY DEF RejectOffer, Answering, Pops
<1>4. News /\ DOMAIN selfopt_offers' = Agent
  BY <1>1, NoNews
<1>5. /\ Holding'
      /\ \A m \in Node : \A x : Has(m, x)' => Has(m, x) \/ (m = n /\ x \in cores)
  <2>1. CASE n \in Controller
    <3>1. PICK b : b = B!OfferRejected(book[n], cores)
      OBVIOUS
    <3>2. book' = [book EXCEPT ![n] = b] /\ my_cores' = my_cores
      BY <1>2, <2>1, <3>1 DEF RejectOffer
    <3>3. Marked(n, b, cores)
      BY <1>1, <2>1, <3>1 DEF Marked, Holding, B!OfferRejected
    <3> QED
      BY <1>1, <1>4, <2>1, <3>2, <3>3, HoldingBook
  <2>2. CASE n \notin Controller
    <3>1. PICK l : l = Mark(my_cores[n], cores, AnyMark, NotOffered)
      OBVIOUS
    <3>2. my_cores' = [my_cores EXCEPT ![n] = l] /\ book' = book
      BY <1>2, <2>2, <3>1 DEF RejectOffer
    <3>3. n \in Agent /\ Listing(my_cores[n])
      BY <1>1, <2>2 DEF Holding, Node
    <3>4. Relisted(n, l, cores)
      <4>1. /\ Listing(l) /\ DOMAIN l = DOMAIN my_cores[n]
            /\ \A i \in DOMAIN l :
                 /\ l[i].core = my_cores[n][i].core
                 /\ l[i].offered_to =
                      IF /\ my_cores[n][i].core \in cores
                         /\ my_cores[n][i].offered_to \in AnyMark
                      THEN NotOffered ELSE my_cores[n][i].offered_to
        BY <3>1, <3>3, MarkIs
      <4> QED
        BY <4>1 DEF Relisted
    <3> QED
      BY <1>1, <1>4, <3>2, <3>3, <3>4, HoldingList
  <2> QED
    BY <2>1, <2>2
<1> QED
  BY <1>1, <1>2, <1>3, <1>5, Returned
-----------------------------------------------------------------------------
(* An application ends: its cores get from the list into the report.         *)

\* The first two cores of a list are not on offer, nor in it again.
Leading(l) ==
  \A i, j \in DOMAIN l : i <= 2 =>
    l[i].offered_to = NotOffered /\ (l[i].core = l[j].core => i = j)

LEMMA AgentEndsOwned ==
  ASSUME OInv, NEW a \in Agent, Leading(my_cores[a]), AgentEnds(a)
  PROVE  Owned' /\ NoOffer
<1>1. /\ a \in Node /\ a \notin Controller /\ book' = book /\ Sound(Net) /\ Holding
      /\ UNCHANGED <<data, selfopt_offers>> /\ Listing(my_cores[a])
      /\ my_cores' = [my_cores EXCEPT ![a] = <<>>]
  BY Controlled DEF AgentEnds, Node, OInv, Owned, Holding
<1>2. PICK U, c : U = Cores(a) /\ c = idag_mask[a] /\ c \in Node
  BY <1>1, Controlled
<1>3. \A x \in U : Has(a, x) /\ x \in Core
  <2>1. ASSUME NEW i \in DOMAIN my_cores[a] PROVE my_cores[a][i].offered_to = NotOffered
    <3>1. i = 1 \/ i \notin Offered(a)
      BY DEF AgentEnds
    <3> QED
      BY <2>1, <3>1 DEF Leading, Offered
  <2> QED
    BY <1>1, <1>2, <2>1 DEF Has, Cores, Listing
<1>4. PICK x : x = [type |-> "REMOVE_APP", cores |-> U, agent |-> a]
  OBVIOUS
<1>5. PICK net, posted : net = Net /\ posted = Post(net, a, c, x)
  OBVIOUS
<1>6. PICK r : Tells0(posted, r, a) /\ Becomes(r)
  <2>1. PICK next_state : Becomes(TellZero(posted, a, next_state))
    BY <1>2, <1>4, <1>5 DEF AgentEnds
  <2> QED
    BY <2>1 DEF TellZero, Sends, Tells0
<1>7. PICK e, P, N, M : /\ e = Len(net.inter[a][c]) + 1 /\ P = {} /\ M = {}
                        /\ N = {<<a, c, e, y>> : y \in U}
  OBVIOUS
<1>8. Sound(posted) /\ Goes(net, posted, a, P, 0, N)
  <2>1. x.type \in Waiting /\ Speaks(x) /\ x.cores = U
    BY <1>4 DEF Waiting, Reports, Speaks, Offers
  <2>2. \A y \in x.cores : <<a, c, Len(net.inter[a][c]) + 1, y>> \in N
    BY <1>7, <2>1
  <2> QED
    BY <1>1, <1>2, <1>5, <2>1, <2>2, GoesPost DEF Posts
<1>9. Sound(r) /\ Goes(posted, r, a, P, 0, M)
  BY <1>6, <1>7, <1>8, GoesTelling
<1>10. Goes(net, r, a, P, 0, N)
  <2>1. PICK k : k = 0
    OBVIOUS
  <2>2. Goes(net, posted, a, P, 0, N) /\ Goes(posted, r, a, P, k, M)
    BY <1>8, <1>9, <2>1
  <2>3. k \in {0, 1} /\ k = 0 /\ N \subseteq N /\ M \subseteq N
    BY <1>7, <2>1
  <2>4. Goes(net, r, a, P, k, N)
    BY <2>2, <2>3, Following
  <2> QED
    BY <2>1, <2>4
<1>11. Step(a, P, 0, N) /\ Spares(a, P)
  BY <1>5, <1>6, <1>7, <1>9, <1>10, ProgramMoves DEF Spares
<1>12. News /\ DOMAIN selfopt_offers' = Agent
  BY <1>1, NoNews
<1>13. PICK l : l = <<>> /\ IsSeq(l) /\ DOMAIN l = {}
  <2>1. <<>> \in Seq({}) /\ DOMAIN <<>> = {}
    OBVIOUS
  <2> QED
    BY <2>1 DEF IsSeq
<1>14. /\ Holding'
       /\ \A m \in Node : \A y : Has(m, y)' => Has(m, y)
  <2>1. PICK S : S = {}
    OBVIOUS
  <2>2. Relisted(a, l, S) /\ my_cores' = [my_cores EXCEPT ![a] = l]
    BY <1>1, <1>13 DEF Relisted, Listing
  <2>3. /\ Holding'
        /\ \A m \in Node : \A y : Has(m, y)' => Has(m, y) \/ (m = a /\ y \in S)
    BY <1>1, <1>12, <2>2, HoldingList
  <2> QED
    BY <2>1, <2>3
<1>15. \A y : ~ Has(a, y)'
  <2>1. my_cores'[a] = l
    BY <1>1, <1>13 DEF Holding
  <2> QED
    BY <1>1, <1>13, <2>1 DEF Has
<1>16. Leaves(a, P, 0, N, a, a, 0, U)
  BY <1>1, <1>3, <1>15 DEF Leaves, At
<1>17. Arrives(N, U)
  <2>1. \A m, q, i, y : <<m, q, i, y>> \in N => m = a /\ q = c /\ i = e /\ y \in U
    BY <1>7
  <2> QED
    BY <1>14, <2>1 DEF Arrives, Same
<1>18. NoOffer
  <2>1. \A m, q, i, y : <<m, q, i, y>> \in N => q \notin Agent
    BY <1>2, <1>7, Controlled, ClusterAssumption
  <2> QED
    BY <1>11, <2>1 DEF Step, Offerings, NoOffer, Node
<1> QED
  BY <1>1, <1>18, <1>11, <1>12, <1>14, <1>16, <1>17, Moving

\* Beside the report of an end there is no other of the same node.
LEMMA OneEnd ==
  ASSUME NEW v, NEW w, NEW a, NEW b, NEW d, NEW y,
         Talk(v, w, a, b, "FINISH", d, "no", y)
  PROVE  w = "REMOVE_APP" /\ d # "FINISH"
<1> USE DEF Talk, Asks, Answered, Offering, Deciding, Refusing, Idle, Reports,
            Call
<1>1. CASE ~ Tells(v, w, a, b, "FINISH", d)
  BY <1>1
<1>2. CASE Tells(v, w, a, b, "FINISH", d)
  BY <1>2 DEF Tells, Order
<1> QED
  BY <1>1, <1>2

\* The report is handled: the cores get to the controllers of their clusters,
\* into the own book or into reports to the others.
LEMMA FinishOwned ==
  ASSUME OInv, NEW c \in Controller, Finish(c)
  PROVE  Owned' /\ NoOffer
<1>1. /\ Receives(c, "FINISH") /\ c \in Node /\ Holding /\ IInv /\ Sound(Net)
      /\ Shaped /\ UNCHANGED <<data, my_cores, selfopt_offers>>
  BY DEF Finish, agentVars, Node, OInv, Owned, IInv
<1>2. PICK p : /\ Hears(c, p, "FINISH")
               /\ \E a, b, d :
                    /\ Line(Tail(mail[c]), p, d, "none")
                    /\ Talk(Stage(c, p), Stage(p, c), a, b,
                            Kind(Head(mail[c]).msg), d, "no", Blocked(p, c))
  BY <1>1, Heard
<1>3. /\ p = Peer(c) /\ p \in Node /\ p # c /\ mail[c] # <<>>
      /\ Head(mail[c]).msg.sig = "FINISH" /\ Spares(c, {p})
  BY <1>2 DEF Hears, Spares
<1>4. PICK s, cores, agent : /\ s = Head(mail[c]).msg /\ cores = s.cores
                             /\ agent = s.agent
  OBVIOUS
<1>5. PICK P, M, taken : P = {p} /\ M = {} /\ taken = Taken(c)
  OBVIOUS
<1>6. Sound(taken) /\ taken.inter = inter /\ taken.mail[c] = Tail(mail[c])
  BY <1>1, <1>3, <1>5, TakenSound, TakenIs
<1>7. PICK base, acked :
        /\ base = IF p \notin Controller
                  THEN [taken EXCEPT !.inter[c][p] = <<>>] ELSE taken
        /\ acked = Send(base, c, p, Ack)
  OBVIOUS
<1>8. Sound(base) /\ Goes(taken, base, c, P, 0, M)
  <2>1. CASE base = taken
    BY <1>5, <1>6, <2>1, GoesSame
  <2>2. CASE base = [taken EXCEPT !.inter[c][p] = <<>>]
    <3>1. Keeps(taken, base, c, p, <<>>)
      BY <2>2 DEF Keeps
    <3> QED
      BY <1>1, <1>3, <1>5, <1>6, <3>1, GoesClear
  <2> QED
    BY <1>7, <2>1, <2>2
<1>9. Sound(acked) /\ Goes(taken, acked, c, P, 0, M)
  <2>1. Says(Ack) /\ Ack.sig # "FINISH"
    BY DEF Says, Ack
  <2>2. Sound(acked) /\ Goes(base, acked, c, P, 0, M)
    <3>1. PICK k : k = Ack
      OBVIOUS
    <3>2. Sends(base, acked, c, p, k) /\ Says(k) /\ k.sig # "FINISH"
      BY <1>7, <2>1, <3>1 DEF Sends
    <3> QED
      BY <1>1, <1>3, <1>5, <1>8, <3>2, GoesSend
  <2> QED
    BY <1>5, <1>8, <2>2, Following
<1>10. PICK x : x = [type |-> "REMOVE_APP", cores |-> cores, agent |-> p]
  OBVIOUS
<1>11. PICK r : /\ r = IF p \notin Controller THEN Forward(acked, c, x) ELSE acked
                /\ Becomes(r)
  BY <1>3, <1>4, <1>5, <1>7, <1>10 DEF Finish
<1>12. PICK N : /\ \A m, q, i, y : <<m, q, i, y>> \in N =>
                     /\ m = c /\ q \in Controller \ {c} /\ idag_mask[y] = q
                     /\ y \in cores /\ i = Len(acked.inter[c][q]) + 1
                /\ \A q \in Controller \ {c} : \A y \in InCluster(q, cores) :
                     <<c, q, Len(acked.inter[c][q]) + 1, y>> \in N
  <2> DEFINE K(q) == {<<c, q, Len(acked.inter[c][q]) + 1, y>> :
                        y \in InCluster(q, cores)}
             L == UNION {K(q) : q \in Controller \ {c}}
  <2>1. ASSUME NEW m, NEW q, NEW i, NEW y, <<m, q, i, y>> \in L
        PROVE  /\ m = c /\ q \in Controller \ {c} /\ idag_mask[y] = q
               /\ y \in cores /\ i = Len(acked.inter[c][q]) + 1
    BY <2>1 DEF InCluster
  <2>2. \A q \in Controller \ {c} : \A y \in InCluster(q, cores) :
          <<c, q, Len(acked.inter[c][q]) + 1, y>> \in L
    OBVIOUS
  <2> QED
    BY <2>1, <2>2
<1>13. /\ \A m, q, i, y : <<m, q, i, y>> \in N =>
            /\ m = c /\ q \in Controller \ {c} /\ idag_mask[y] = q /\ y \in cores
            /\ i = Len(acked.inter[c][q]) + 1
       /\ \A q \in Controller \ {c} : \A y \in InCluster(q, cores) :
            <<c, q, Len(acked.inter[c][q]) + 1, y>> \in N
  BY <1>12
<1>14. Sound(r) /\ Goes(taken, r, c, P, 0, N)
  <2>1. CASE p \notin Controller
    <3>1. Forwards(acked, r, c, x)
      BY <1>11, <2>1 DEF Forwards
    <3>2. Passes(x) /\ x.cores = cores
      BY <1>10 DEF Passes, Reports, Speaks, Offers
    <3>3. Sound(r) /\ Goes(acked, r, c, P, 0, N)
      BY <1>9, <1>13, <3>1, <3>2, GoesForward
    <3>4. PICK k : k = 0
      OBVIOUS
    <3>5. k \in {0, 1} /\ k = 0 /\ M \subseteq N /\ N \subseteq N
      BY <1>5, <3>4
    <3>6. Goes(taken, acked, c, P, 0, M) /\ Goes(acked, r, c, P, k, N)
      BY <1>9, <3>3, <3>4
    <3>7. Goes(taken, r, c, P, k, N)
      BY <3>5, <3>6, Following
    <3> QED
      BY <3>3, <3>4, <3>7
  <2>2. CASE p \in Controller
    <3>1. r = acked
      BY <1>11, <2>2
    <3>2. \A q, l, t, u, m, y, same, k : Carries(q, l, t, u, m, y, same, k, M) =>
            Carries(q, l, t, u, m, y, same, k, N)
      BY <1>5 DEF Carries
    <3> QED
      BY <1>9, <3>1, <3>2 DEF Goes
  <2> QED
    BY <2>1, <2>2
<1>15. Step(c, P, 0, N)
  <2>1. PICK k : k = 0 /\ k \in {0, 1}
    OBVIOUS
  <2>2. Goes(Taken(c), r, c, P, k, N) /\ Head(mail[c]).msg.sig # "REP_OFFERS"
    BY <1>3, <1>5, <1>14, <2>1
  <2>3. Step(c, P, k, N)
    BY <1>1, <1>3, <1>11, <1>14, <2>1, <2>2, HandlerMoves
  <2> QED
    BY <2>1, <2>3
<1>16. PICK b, S : /\ b = B!RemoveApp(book[c], InCluster(c, cores), agent)
                   /\ S = InCluster(c, cores)
  OBVIOUS
<1>17. News /\ DOMAIN selfopt_offers' = Agent /\ Spares(c, P)
  BY <1>1, <1>3, <1>5, NoNews
<1>18. /\ Holding'
       /\ \A m \in Node : \A y : Has(m, y)' => Has(m, y) \/ (m = c /\ y \in S)
  <2>1. book' = [book EXCEPT ![c] = b]
    BY <1>4, <1>16 DEF Finish
  <2>2. Marked(c, b, S)
    BY <1>16 DEF Marked, B!RemoveApp
  <2> QED
    BY <1>1, <1>17, <2>1, <2>2, HoldingBook
<1>19. Leaves(c, P, 0, N, p, c, 1, cores)
  <2>1. PICK a, k, d :
          /\ Line(Tail(mail[c]), p, d, "none")
          /\ Talk(Stage(c, p), Stage(p, c), a, k, "FINISH", d, "no",
                  Blocked(p, c))
    BY <1>2, <1>3 DEF Kind
  <2>2. Stage(p, c) = "REMOVE_APP" /\ d # "FINISH"
    BY <2>1, OneEnd
  <2>3. Head(inter[p][c]).type \notin Offers
    <3>1. HeadType(p, c) = "REMOVE_APP"
      BY <1>1, <1>3, <2>2, StageIs
    <3> QED
      BY <3>1 DEF HeadType, Offers
  <2>4. ASSUME NEW t \in Range(Tail(mail[c])), t.from = p, t.msg.sig = "FINISH"
        PROVE  FALSE
    <3>1. PICK i \in DOMAIN Tail(mail[c]) : t = Tail(mail[c])[i]
      BY DEF Range
    <3>2. i \in From(Tail(mail[c]), p) /\ Kind(Tail(mail[c])[i].msg) = "FINISH"
      BY <2>4, <3>1 DEF From, Kind
    <3> QED
      BY <2>1, <2>2, <3>2 DEF Line
  <2>5. ASSUME NEW y, NEW i \in Nat, Lies(Net, p, c, i, y)' PROVE i # 1
    <3>1. Carries(inter[p][c], Tail(mail[c]), r.inter[p][c], r.mail[c], p, c,
                  TRUE, 0, N)
      BY <1>1, <1>3, <1>5, <1>6, <1>14 DEF Goes
    <3>2. Lends(r.inter[p][c], y) \/ Gives(r.inter[p][c], r.mail[c], p, i, y)
      BY <1>11, <2>5 DEF Lies, Net, Becomes
    <3>3. \A j : <<p, c, j, y>> \notin N
      BY <1>3, <1>13
    <3>4. Lends(inter[p][c], y) \/ Gives(inter[p][c], Tail(mail[c]), p, i, y)
      <4>1. CASE Lends(r.inter[p][c], y)
        BY <3>1, <3>3, <4>1 DEF Carries
      <4>2. CASE Gives(r.inter[p][c], r.mail[c], p, i, y)
        <5>1. Gives(inter[p][c], Tail(mail[c]), p, i + 0, y)
          BY <3>1, <3>3, <4>2 DEF Carries
        <5>2. i + 0 = i
          OBVIOUS
        <5> QED
          BY <5>1, <5>2
      <4> QED
        BY <3>2, <4>1, <4>2
    <3> QED
      BY <2>3, <2>4, <3>4 DEF Lends, Gives
  <2>6. ASSUME NEW y \in cores PROVE At(p, c, 1, y)
    <3>1. Head(mail[c]) \in Range(mail[c])
      BY <1>1, <1>3, RangeTailed DEF Sound, SoundList, Net
    <3>2. /\ Head(mail[c]).from = p /\ Head(mail[c]).msg.sig = "FINISH"
          /\ y \in Head(mail[c]).msg.cores
      BY <1>3, <1>4, <2>6 DEF Peer
    <3>3. Gives(Net.inter[p][c], Net.mail[c], p, 1, y)
      BY <3>1, <3>2 DEF Gives, Net
    <3> QED
      BY <3>3 DEF At, Lies
  <2> QED
    BY <1>3, <1>5, <2>5, <2>6 DEF Leaves
<1>20. Arrives(N, cores)
  <2>1. S \subseteq cores /\ \A y \in S : idag_mask[y] = c
    BY <1>16 DEF InCluster
  <2>2. ASSUME NEW y \in cores
        PROVE  \E t1, t2, t3 :
                 /\ \A m, q, i : <<m, q, i, y>> \in N => Same(m, q, i, t1, t2, t3)
                 /\ \A m \in Node :
                      Has(m, y)' => Has(m, y) \/ Same(m, m, 0, t1, t2, t3)
    <3>1. CASE idag_mask[y] = c
      <4>1. \A m, q, i : <<m, q, i, y>> \notin N
        BY <1>13, <3>1
      <4>2. \A m \in Node : Has(m, y)' => Has(m, y) \/ Same(m, m, 0, c, c, 0)
        BY <1>18 DEF Same
      <4> QED
        BY <4>1, <4>2
    <3>2. CASE idag_mask[y] # c
      <4>1. PICK q, e : q = idag_mask[y] /\ e = Len(acked.inter[c][q]) + 1
        OBVIOUS
      <4>2. \A m, k, i : <<m, k, i, y>> \in N => Same(m, k, i, c, q, e)
        BY <1>13, <4>1 DEF Same
      <4>3. \A m \in Node : Has(m, y)' => Has(m, y)
        BY <1>18, <2>1, <3>2
      <4> QED
        BY <4>2, <4>3
    <3> QED
      BY <3>1, <3>2
  <2>3. \A m, q, j, y : <<m, q, j, y>> \in N => y \in cores
    BY <1>13
  <2>4. \A m \in Node : \A y : Has(m, y)' => Has(m, y) \/ y \in cores
    BY <1>18, <2>1
  <2> QED
    BY <2>2, <2>3, <2>4 DEF Arrives
<1>21. PICK k, i : k = 0 /\ i = 1
  OBVIOUS
<1>22. /\ k \in {0, 1} /\ k = 0 /\ i \in Nat /\ Step(c, P, k, N)
       /\ Leaves(c, P, k, N, p, c, i, cores)
  BY <1>15, <1>19, <1>21
<1>23. NoOffer
  <2>1. \A m, q, j, y : <<m, q, j, y>> \in N => m \notin Agent
    BY <1>13, Controlled
  <2> QED
    BY <1>15, <2>1 DEF Step, Offerings, NoOffer, Node
<1> QED
  BY <1>1, <1>3, <1>23, <1>17, <1>18, <1>20, <1>22, Moving
-----------------------------------------------------------------------------
(* An offer is accepted: its cores get from the offer into the list.         *)

\* Cores join a list, one entry for each.
Joined(l, S, r) ==
  /\ Listing(r) /\ Len(l) <= Len(r) /\ Len(r) = Len(l) + Cardinality(S)
  /\ \A i \in DOMAIN l : i \in DOMAIN r /\ r[i] = l[i]
  /\ \A i \in DOMAIN r \ DOMAIN l :
       r[i].core \in S /\ r[i].offered_to = NotOffered
  /\ \A i, j \in DOMAIN r \ DOMAIN l : r[i].core = r[j].core => i = j

LEMMA JoinedIs ==
  ASSUME NEW l, Listing(l), NEW S \in SUBSET Core, NEW r,
         r = l \o Entries(SetToSeq(S))
  PROVE  Joined(l, S, r)
<1>1. IsFiniteSet(S)
  BY ClusterAssumption, FS_Subset
<1>2. PICK n \in Nat : n = Cardinality(S)
  BY <1>1, FS_CardinalityType
<1>3. PICK q : /\ q = SetToSeq(S) /\ q \in [1..n -> S]
               /\ \A i, j \in 1..n : q[i] = q[j] => i = j
  <2>1. \E f \in [1..n -> S] : IsInjective(f)
    <3>1. PICK m \in Nat : ExistsBijection(1..m, S)
      BY <1>1, FS_NatBijection
    <3>2. m = n
      BY <1>2, <3>1, FS_CountingElements
    <3> QED
      BY <3>1, <3>2 DEF ExistsBijection, Bijection, Injection
  <2>2. PICK q : q = SetToSeq(S)
    OBVIOUS
  <2>3. q \in [1..n -> S] /\ IsInjective(q)
    BY <1>2, <2>1, <2>2 DEF SetToSeq
  <2>4. \A i, j \in 1..n : q[i] = q[j] => i = j
    BY <2>3 DEF IsInjective
  <2> QED
    BY <2>2, <2>3, <2>4
<1>4. PICK t : /\ t = Entries(q) /\ DOMAIN t = 1..n
               /\ t = [i \in 1..n |-> t[i]]
               /\ \A i \in 1..n : t[i] = [core |-> q[i], offered_to |-> NotOffered]
  <2>1. PICK t : t = Entries(q)
    OBVIOUS
  <2>2. DOMAIN q = 1..n
    BY <1>3
  <2>3. t = [i \in 1..n |-> [core |-> q[i], offered_to |-> NotOffered]]
    BY <2>1, <2>2 DEF Entries
  <2> QED
    BY <2>1, <2>3
<1>5. PICK R : l \in Seq(R) /\ t \in Seq(R)
  <2>1. PICK L : l \in Seq(L)
    BY DEF Listing, IsSeq
  <2>2. PICK T : T = Range(t) \cup L
    OBVIOUS
  <2>3. l \in Seq(T)
    BY <2>1, <2>2
  <2>5. t \in [1..n -> T]
    BY <1>4, <2>2 DEF Range
  <2>6. t \in Seq(T)
    BY <2>5
  <2> QED
    BY <2>3, <2>6
<1>6. /\ r \in Seq(R) /\ Len(r) = Len(l) + n /\ Len(l) \in Nat
      /\ DOMAIN l = 1..Len(l) /\ DOMAIN r = 1..(Len(l) + n)
      /\ \A i \in 1..Len(l) : r[i] = l[i]
      /\ \A i \in (Len(l) + 1)..(Len(l) + n) : r[i] = t[i - Len(l)]
  <2>1. r = l \o t
    BY <1>3, <1>4
  <2>2. Len(t) = n
    BY <1>4, <1>5
  <2>3. PICK k : k = Len(l) /\ k \in Nat /\ DOMAIN l = 1..k
    BY <1>5
  <2>4. r \in Seq(R) /\ Len(r) = k + n
    <3>1. l \o t \in Seq(R) /\ Len(l \o t) = Len(l) + Len(t)
      BY <1>5
    <3> QED
      BY <2>1, <2>2, <2>3, <3>1
  <2>5. DOMAIN r = 1..(k + n)
    BY <2>4
  <2>6. \A i \in 1..k : r[i] = l[i]
    BY <1>5, <2>1, <2>2, <2>3
  <2>7. \A i \in (k + 1)..(k + n) : r[i] = t[i - k]
    BY <1>5, <2>1, <2>2, <2>3
  <2> QED
    BY <2>3, <2>4, <2>5, <2>6, <2>7
<1>7. ASSUME NEW i \in DOMAIN r \ DOMAIN l
      PROVE  /\ i - Len(l) \in 1..n
             /\ r[i] = [core |-> q[i - Len(l)], offered_to |-> NotOffered]
             /\ r[i].core = q[i - Len(l)] /\ r[i].offered_to = NotOffered
  <2>1. i \in (Len(l) + 1)..(Len(l) + n) /\ i - Len(l) \in 1..n
    BY <1>6
  <2>2. PICK c : c = q[i - Len(l)]
    OBVIOUS
  <2>3. r[i] = t[i - Len(l)]
    BY <1>6, <2>1
  <2>4. t[i - Len(l)] = [core |-> c, offered_to |-> NotOffered]
    BY <1>4, <2>1, <2>2
  <2>5. r[i] = [core |-> c, offered_to |-> NotOffered]
    BY <2>3, <2>4
  <2> QED
    BY <2>1, <2>2, <2>5
<1>8. ASSUME NEW i \in DOMAIN r
      PROVE  /\ r[i] = [core |-> r[i].core, offered_to |-> r[i].offered_to]
             /\ r[i].core \in Core
  <2>1. CASE i \in DOMAIN l
    BY <1>6, <2>1 DEF Listing
  <2>2. CASE i \notin DOMAIN l
    <3>1. PICK c : c = q[i - Len(l)] /\ c \in Core
      BY <1>3, <1>7, <2>2
    <3>2. r[i] = [core |-> c, offered_to |-> NotOffered]
      BY <1>7, <2>2, <3>1
    <3> QED
      BY <3>1, <3>2
  <2> QED
    BY <2>1, <2>2
<1>9. ASSUME NEW i \in DOMAIN r \ DOMAIN l, NEW j \in DOMAIN r \ DOMAIN l,
             r[i].core = r[j].core
      PROVE  i = j
  <2>1. q[i - Len(l)] = q[j - Len(l)]
    BY <1>7, <1>9
  <2>2. i - Len(l) = j - Len(l)
    BY <1>3, <1>7, <2>1
  <2> QED
    BY <1>6, <2>2
<1>10. \A i \in DOMAIN r \ DOMAIN l : r[i].core \in S /\ r[i].offered_to = NotOffered
  BY <1>3, <1>7
<1>11. /\ Listing(r) /\ Len(l) <= Len(r) /\ Len(r) = Len(l) + Cardinality(S)
       /\ \A i \in DOMAIN l : i \in DOMAIN r /\ r[i] = l[i]
  BY <1>2, <1>6, <1>8 DEF Listing, IsSeq
<1> QED
  BY <1>9, <1>10, <1>11 DEF Joined

\* What an accepting manager takes, and from whom.
LEMMA Took ==
  ASSUME OInv, NEW a \in Agent, SelfChkOffers(a)
  PROVE  \E s, taken, l, r :
           /\ s \in Node /\ taken \in SUBSET Core
           /\ my_cores' = [my_cores EXCEPT ![a] = l]
           /\ my_cores_count' = [my_cores_count EXCEPT ![a] = @ + Cardinality(taken)]
           /\ Joined(my_cores[a], taken, l)
           /\ Becomes(r) /\ Sound(r) /\ Goes(Net, r, a, Unanswered(a), 0, {})
           /\ \A x \in taken : /\ At(s, a, 1, x) /\ ~ Busy(a, s)
                               /\ Agreed(r.mail[s], a)
<1>1. /\ a \in Node /\ IInv /\ Sound(Net) /\ Holding /\ Collecting
      /\ Listing(my_cores[a]) /\ IsSeq(selfopt_offers[a])
  BY DEF OInv, Owned, Node, Holding, Collecting
<1>2. PICK s, taken :
        /\ taken = IF Accepts(a) THEN Head(selfopt_offers[a]).cores ELSE {}
        /\ s = IF Accepts(a) THEN Head(selfopt_offers[a]).sender ELSE a
  OBVIOUS
<1>3. PICK l : l = my_cores[a] \o Entries(SetToSeq(taken))
  OBVIOUS
<1>4. PICK told, r, c, x :
        /\ c = idag_mask[a]
        /\ x = [type |-> "IDAG_ADD_CORES_DDS", cores |-> taken, agent |-> a]
        /\ told = IF ~ Accepts(a) THEN Net ELSE Post(Net, a, c, x)
        /\ r = AnswerOffers(told, a)
  OBVIOUS
<1>5. /\ my_cores' = [my_cores EXCEPT ![a] = l] /\ Becomes(r)
      /\ my_cores_count' = [my_cores_count EXCEPT ![a] = @ + Cardinality(taken)]
  BY <1>1, <1>2, <1>3, <1>4 DEF SelfChkOffers
<1>6. ASSUME Accepts(a)
      PROVE  /\ s \in Unanswered(a) /\ Answer(a, s) = 1
             /\ inter[s][a] # <<>> /\ Head(inter[s][a]).type \in Offers
             /\ Head(inter[s][a]).cores = taken /\ taken \subseteq Core
             /\ ~ Busy(a, s) /\ ~ Busy(s, a)
  <2>1. PICK offer : offer = Head(selfopt_offers[a])
    OBVIOUS
  <2>2. offer \in Range(selfopt_offers[a])
    BY <1>1, <1>6, <2>1, RangeTailed DEF Accepts
  <2>3. Collected(a, offer) /\ s = offer.sender /\ taken = offer.cores
    BY <1>1, <1>2, <1>6, <2>1, <2>2 DEF Collecting
  <2>4. s \in Node /\ HeadType(a, s) = "REP_AGENT_OFFER_PENDING"
        /\ Fetched(s, a, taken)
    BY <2>3 DEF Collected
  <2>5. ~ Busy(a, s) /\ ~ Busy(s, a)
    BY <1>1, <2>4, Pending
  <2>6. /\ inter[s][a] # <<>> /\ Head(inter[s][a]).type \in Offers
        /\ Head(inter[s][a]).cores = taken
    BY <2>4 DEF Fetched, Offers
  <2>7. taken \subseteq Core
    <3>1. SoundQueue(inter[s][a])
      BY <1>1, <2>4 DEF Sound, Net
    <3>2. Speaks(Head(inter[s][a]))
      BY <2>6, <3>1, RangeTailed DEF SoundQueue
    <3> QED
      BY <2>6, <3>2 DEF Speaks
  <2>8. s \in Unanswered(a) /\ Answer(a, s) = 1
    BY <1>2, <1>6, <2>2, <2>3, <2>4 DEF Unanswered, Answer
  <2> QED
    BY <2>5, <2>6, <2>7, <2>8
<1>7. s \in Node /\ taken \in SUBSET Core
  BY <1>1, <1>2, <1>6 DEF Unanswered
<1>8. Joined(my_cores[a], taken, l)
  BY <1>1, <1>3, <1>7, JoinedIs
<1>9. PICK P, M, net : P = Unanswered(a) /\ M = {} /\ net = Net
  OBVIOUS
<1>10. /\ Sound(told) /\ Goes(net, told, a, P, 0, M)
       /\ \A p \in Unanswered(a) : told.inter[a][p] # <<>>
  <2>1. \A p \in Unanswered(a) : p \in Node /\ inter[a][p] # <<>>
    BY DEF Unanswered, HeadType
  <2>2. net.inter = inter /\ Sound(net)
    BY <1>1, <1>9 DEF Net
  <2>3. CASE ~ Accepts(a)
    <3>1. told = net
      BY <1>4, <1>9, <2>3
    <3> QED
      BY <1>9, <2>1, <2>2, <3>1, GoesSame
  <2>4. CASE Accepts(a)
    <3>1. Posts(net, told, a, c, x)
      BY <1>4, <1>9, <2>4 DEF Posts
    <3>2. c \in Node /\ x.type \in Waiting /\ x.type \notin Offers \cup {"REMOVE_APP"}
          /\ Speaks(x)
      <4>1. c \in Node /\ a # NotOffered
        BY <1>1, <1>4, Controlled, ClusterAssumption
      <4> QED
        BY <1>4, <4>1 DEF Waiting, Reports, Offers, Speaks
    <3>3. Sound(told) /\ Goes(net, told, a, P, 0, M)
      BY <1>1, <2>2, <3>1, <3>2, GoesPost
    <3>4. ASSUME NEW p \in Unanswered(a) PROVE told.inter[a][p] # <<>>
      <4>1. p \in Node /\ net.inter[a][p] # <<>>
        BY <2>1, <2>2
      <4>2. /\ OnlyWith(net, told, a, c)
            /\ told.inter[a][c] = Append(net.inter[a][c], x)
            /\ told.mail[c] =
                 IF net.inter[a][c] = <<>>
                 THEN Append(net.mail[c], [from |-> a, msg |-> SignalOf(x)])
                 ELSE net.mail[c]
        <5>1. IsNet(net) /\ a \in Node /\ c \in Node
          BY <1>1, <2>2, <3>2 DEF Sound
        <5> QED
          BY <3>1, <5>1, PostIs
      <4>3. CASE p # c
        BY <1>1, <4>1, <4>2, <4>3 DEF OnlyWith
      <4>4. CASE p = c
        <5>1. SoundQueue(net.inter[a][p])
          BY <1>1, <2>2, <4>1 DEF Sound
        <5>2. DOMAIN told.inter[a][p] = 1..(Len(net.inter[a][p]) + 1)
              /\ Len(net.inter[a][p]) \in Nat
          BY <4>2, <4>4, <5>1, Appending DEF SoundQueue
        <5> QED
          BY <5>2
      <4> QED
        BY <4>3, <4>4
    <3> QED
      BY <3>3, <3>4
  <2> QED
    BY <2>3, <2>4
<1>11. Replies(told, r, a)
  BY <1>1, <1>4, <1>10, AnswerOffersIs DEF Answers, Sound
<1>12. Sound(r) /\ Goes(told, r, a, P, 0, M)
  BY <1>1, <1>9, <1>10, <1>11, GoesAnswers
<1>13. Goes(net, r, a, P, 0, M)
  <2>1. PICK k : k = 0
    OBVIOUS
  <2>2. /\ Goes(net, told, a, P, 0, M) /\ Goes(told, r, a, P, k, M)
        /\ k \in {0, 1} /\ k = 0 /\ M \subseteq M
    BY <1>10, <1>12, <2>1
  <2>3. Goes(net, r, a, P, k, M)
    BY <2>2, Following
  <2> QED
    BY <2>1, <2>3
<1>14. ASSUME NEW y \in taken
       PROVE  At(s, a, 1, y) /\ ~ Busy(a, s) /\ Agreed(r.mail[s], a)
  <2>1. Accepts(a)
    BY <1>2, <1>14
  <2>2. ~ Agreed(mail[s], a)
    BY <1>6, <2>1 DEF Agreed, Accepting, Busy
  <2>3. At(s, a, 1, y)
    BY <1>6, <1>14, <2>1, <2>2 DEF At, Lies, Net, Lends
  <2>4. PICK z : /\ z.type = "REP_AGENT_OFFER_SENT" /\ z.answer = Answer(a, s)
                 /\ r.mail[s] = Append(told.mail[s],
                                       [from |-> a, msg |-> SignalOf(z)])
    BY <1>6, <1>11, <2>1 DEF Replies
  <2>5. PICK t : /\ t = [from |-> a, msg |-> SignalOf(z)]
                 /\ r.mail[s] = Append(told.mail[s], t)
    BY <2>4
  <2>6. Accepting(t, a)
    BY <1>6, <2>1, <2>4, <2>5 DEF Accepting, SignalOf
  <2>7. t \in Range(r.mail[s])
    BY <1>7, <1>10, <2>5, RangeAppended DEF Sound, SoundList
  <2> QED
    BY <1>6, <2>1, <2>3, <2>6, <2>7 DEF Agreed
<1> QED
  BY <1>5, <1>7, <1>8, <1>9, <1>12, <1>13, <1>14

LEMMA SelfChkOffersOwned ==
  ASSUME OInv, NEW a \in Agent, SelfChkOffers(a)
  PROVE  Owned' /\ NoOffer
<1>1. PICK s, taken, l, r :
        /\ s \in Node /\ taken \in SUBSET Core
        /\ my_cores' = [my_cores EXCEPT ![a] = l]
        /\ Joined(my_cores[a], taken, l)
        /\ Becomes(r) /\ Sound(r) /\ Goes(Net, r, a, Unanswered(a), 0, {})
        /\ \A x \in taken : /\ At(s, a, 1, x) /\ ~ Busy(a, s)
                            /\ Agreed(r.mail[s], a)
  BY Took
<1>2. /\ a \in Node /\ a \notin Controller /\ IInv /\ Collecting /\ Holding
      /\ data' = data /\ book' = book /\ DOMAIN selfopt_offers' = Agent
      /\ selfopt_offers' = [selfopt_offers EXCEPT ![a] = <<>>]
  BY Controlled DEF SelfChkOffers, OInv, Owned, Node, Holding
<1>3. PICK P, N : P = Unanswered(a) /\ N = {}
  OBVIOUS
<1>4. Step(a, P, 0, N)
  BY <1>1, <1>3, ProgramMoves
<1>5. /\ Holding'
      /\ \A m \in Node : \A x : Has(m, x)' => Has(m, x) \/ (m = a /\ x \in taken)
  <2>1. Relisted(a, l, taken)
    BY <1>1 DEF Relisted, Joined
  <2> QED
    BY <1>1, <1>2, <2>1, HoldingList
<1>6. \A p \in P : HeadType(a, p) # "AGENT_OFFER_SENT"
  BY <1>3 DEF Unanswered
<1>7. Collecting'
  <2>1. Heads(a, P)
    BY <1>4 DEF Step
  <2>2. ASSUME NEW b \in Agent
        PROVE  /\ IsSeq(selfopt_offers'[b])
               /\ \A offer \in Range(selfopt_offers'[b]) : Collected(b, offer)'
    <3>1. CASE b = a
      <4>1. PICK q : q = <<>> /\ IsSeq(q) /\ DOMAIN q = {}
        <5>1. <<>> \in Seq({}) /\ DOMAIN <<>> = {}
          OBVIOUS
        <5> QED
          BY <5>1 DEF IsSeq
      <4>2. selfopt_offers'[b] = q
        BY <1>2, <3>1, <4>1 DEF Holding
      <4> QED
        BY <4>1, <4>2 DEF Range
    <3>2. CASE b # a
      <4>1. selfopt_offers'[b] = selfopt_offers[b] /\ b \in Node
        BY <1>2, <3>2 DEF Holding, Node
      <4>2. \A offer \in Range(selfopt_offers[b]) : Collected(b, offer)'
        BY <1>2, <1>6, <2>1, <3>2, <4>1, CollectedStays DEF Collecting
      <4> QED
        BY <1>2, <4>1, <4>2 DEF Collecting
    <3> QED
      BY <3>1, <3>2
  <2>3. \A n \in Node : \A d \in Range(data[n]) :
          d.cores # {} => Fetched(d.from, n, d.cores)'
    BY <1>2, <1>6, <2>1, LoadedStays
  <2> QED
    BY <1>2, <2>2, <2>3 DEF Collecting
<1>8. Leaves(a, P, 0, N, s, a, 1, taken)
  <2>1. ASSUME NEW x \in taken, NEW i \in Nat, Lies(Net, s, a, i, x)' PROVE i # 1
    <3>1. Agreed(mail'[s], a)
      BY <1>1 DEF Becomes
    <3>2. Net'.inter = inter' /\ Net'.mail = mail'
      BY DEF Net
    <3>3. Gives(inter'[s][a], mail'[a], s, i, x)
      BY <2>1, <3>1, <3>2 DEF Lies
    <3>4. Carries(inter[s][a], mail[a], inter'[s][a], mail'[a], s, a,
                  ~ (s = a /\ a \in P), IF s = a /\ a \in P THEN 0 ELSE 0, N)
      BY <1>1, <1>2, <1>3 DEF Goes, Becomes, Net
    <3>5. Gives(inter[s][a], mail[a], s, i + 0, x)
      BY <1>3, <3>3, <3>4 DEF Carries
    <3>6. \A t \in Range(mail[a]) : t.from = s => t.msg.sig # "FINISH"
      BY <1>1, <2>1 DEF Busy
    <3> QED
      BY <3>5, <3>6 DEF Gives
  <2> QED
    BY <1>1, <2>1 DEF Leaves
<1>9. Arrives(N, taken)
  <2>1. \A m \in Node : \A x : Has(m, x)' => Has(m, x) \/ Same(m, m, 0, a, a, 0)
    BY <1>5 DEF Same
  <2> QED
    BY <1>3, <1>5, <2>1 DEF Arrives
<1>10. PICK k, i : k = 0 /\ i = 1
  OBVIOUS
<1>11. /\ k \in {0, 1} /\ k = 0 /\ i \in Nat /\ Moves(a, P, k, N)
       /\ Leaves(a, P, k, N, s, a, i, taken)
  BY <1>4, <1>8, <1>10 DEF Step
<1>12. \A x \in Core : OnePlace(x)'
  <2>1. \A x \in Core : OnePlace(x)
    BY DEF OInv, Owned
  <2> QED
    BY <1>1, <1>2, <1>9, <1>11, <2>1, MovesOn
<1>13. NoOffer
  BY <1>3, <1>4 DEF Step, Offerings, NoOffer, Node
<1> QED
  BY <1>4, <1>5, <1>7, <1>12, <1>13 DEF Owned, Step
-----------------------------------------------------------------------------
(* The first two cores of a manager stay.                                    *)

\* What is on offer is marked so, and offered once; a running application has
\* its manager and, if it started with one, a worker.
Firsts == \A a \in Agent : Leading(my_cores[a])
Sized ==
  \A a \in Agent : app_state[a] # "NO_APP" =>
    Len(my_cores[a]) >= IF Len(FirstCores[a]) > 1 THEN 2 ELSE 1
HasMark(l, x, p) == \E i \in DOMAIN l : l[i].core = x /\ l[i].offered_to = p
Lent ==
  \A a, p \in Agent : \A x :
    Lends(inter[a][p], x) => HasMark(my_cores[a], x, p)
OneTaker ==
  \A a, p, q \in Agent : \A x :
    Lends(inter[a][p], x) /\ Lends(inter[a][q], x) => p = q
Working == DOMAIN app_state = Agent /\ Firsts /\ Sized /\ Lent /\ OneTaker
WInv == OInv /\ Working

\* No application comes back.
OverStays ==
  /\ DOMAIN app_state' = Agent
  /\ \A a \in Agent : app_state'[a] # "NO_APP" => app_state[a] # "NO_APP"

\* Cores leave a list that holds none of the first two.
LEMMA FirstStays ==
  ASSUME NEW l, Listing(l), Leading(l), NEW cores,
         \A i \in DOMAIN l : i <= 2 => l[i].core \notin cores,
         NEW r, r = Without(l, cores)
  PROVE  /\ Leading(r) /\ Len(l) \in Nat /\ Len(r) \in Nat
         /\ \A i \in 1..2 : Len(l) >= i => Len(r) >= i
         /\ \A x, p : x \notin cores /\ HasMark(l, x, p) => HasMark(r, x, p)
<1>1. PICK order \in [DOMAIN r -> DOMAIN l] :
        /\ Listing(r)
        /\ \A i \in DOMAIN r : r[i] = l[order[i]]
        /\ \A i, j \in DOMAIN r : i < j => order[i] < order[j]
        /\ \A k \in DOMAIN l : l[k].core \notin cores =>
             \E i \in DOMAIN r : order[i] = k
  BY WithoutIs
<1>2. /\ DOMAIN l = 1..Len(l) /\ Len(l) \in Nat
      /\ DOMAIN r = 1..Len(r) /\ Len(r) \in Nat
  BY <1>1 DEF Listing, IsSeq
<1>3. \A i \in DOMAIN r : order[i] \in DOMAIN l
  BY <1>1
<1>4. 1 \in DOMAIN l => 1 \in DOMAIN r /\ order[1] = 1
  <2> SUFFICES ASSUME 1 \in DOMAIN l PROVE 1 \in DOMAIN r /\ order[1] = 1
    OBVIOUS
  <2>1. PICK i \in DOMAIN r : order[i] = 1
    BY <1>1
  <2>2. 1 \in DOMAIN r
    BY <1>2, <2>1
  <2>3. ~ (1 < i)
    <3>1. order[1] \in 1..Len(l)
      BY <1>2, <1>3, <2>2
    <3> QED
      BY <1>1, <2>1, <2>2, <3>1
  <2> QED
    BY <1>2, <2>1, <2>2, <2>3
<1>5. 2 \in DOMAIN l => 2 \in DOMAIN r /\ order[2] = 2
  <2> SUFFICES ASSUME 2 \in DOMAIN l PROVE 2 \in DOMAIN r /\ order[2] = 2
    OBVIOUS
  <2>1. PICK i \in DOMAIN r : order[i] = 2
    BY <1>1
  <2>2. 1 \in DOMAIN r /\ order[1] = 1 /\ i # 1
    BY <1>2, <1>4, <2>1
  <2>3. 2 \in DOMAIN r
    BY <1>2, <2>1, <2>2
  <2>4. ~ (2 < i)
    <3>1. order[2] \in 1..Len(l) /\ order[1] < order[2]
      BY <1>1, <1>2, <1>3, <2>2, <2>3
    <3> QED
      BY <1>1, <2>1, <2>2, <2>3, <3>1
  <2> QED
    BY <1>2, <2>1, <2>2, <2>3, <2>4
<1>6. ASSUME NEW i \in DOMAIN r, NEW j \in DOMAIN r, i <= 2
      PROVE  r[i].offered_to = NotOffered /\ (r[i].core = r[j].core => i = j)
  <2>1. order[i] = i /\ i \in DOMAIN l
    <3>1. i \in {1, 2} /\ i \in Nat
      BY <1>2, <1>6
    <3>2. order[i] \in 1..Len(l) /\ (i = 2 => 1 \in DOMAIN r)
      BY <1>2, <1>3, <1>6
    <3>3. i = 2 => order[1] < order[2] /\ order[1] \in 1..Len(l)
      BY <1>1, <1>2, <1>3, <1>6, <3>2
    <3>4. i \in DOMAIN l
      BY <1>2, <3>1, <3>2, <3>3
    <3> QED
      BY <1>4, <1>5, <3>1, <3>4
  <2>2. order[j] \in DOMAIN l /\ r[i] = l[i] /\ r[j] = l[order[j]]
    BY <1>1, <1>3, <1>6, <2>1
  <2>3. r[i].core = r[j].core => i = order[j]
    BY <1>6, <2>1, <2>2 DEF Leading
  <2>4. i = order[j] => i = j
    <3>1. i \in Nat /\ j \in Nat /\ order[i] = i /\ order[j] \in Nat
      BY <1>2, <1>3, <1>6, <2>1
    <3>2. order[i] = order[j] => ~ (i < j) /\ ~ (j < i)
      BY <1>1, <1>6, <3>1
    <3> QED
      BY <3>1, <3>2
  <2> QED
    BY <1>6, <2>1, <2>2, <2>3, <2>4 DEF Leading
<1>7. ASSUME NEW x, NEW p, x \notin cores, HasMark(l, x, p) PROVE HasMark(r, x, p)
  BY <1>1, <1>7 DEF HasMark
<1>8. \A i \in 1..2 : Len(l) >= i => Len(r) >= i
  BY <1>2, <1>4, <1>5
<1> QED
  BY <1>2, <1>6, <1>7, <1>8 DEF Leading

\* Where nobody offers anything new, no core gets a second taker.
LEMMA TakersStay ==
  ASSUME OneTaker, NoOffer
  PROVE  OneTaker'
<1>1. ASSUME NEW a \in Agent, NEW p \in Agent, NEW q \in Agent, NEW x,
             Lends(inter'[a][p], x), Lends(inter'[a][q], x)
      PROVE  p = q
  <2>1. Lends(inter[a][p], x) /\ Lends(inter[a][q], x)
    BY <1>1 DEF NoOffer
  <2> QED
    BY <2>1 DEF OneTaker
<1> QED
  BY <1>1 DEF OneTaker

\* Nobody's list changes.
LEMMA WorkingStays ==
  ASSUME Working, NoOffer, OverStays, my_cores' = my_cores
  PROVE  Working'
<1>1. Firsts' /\ Sized'
  BY DEF Working, Firsts, Sized, OverStays
<1>2. Lent'
  <2>1. ASSUME NEW a \in Agent, NEW p \in Agent, NEW x, Lends(inter'[a][p], x)
        PROVE  HasMark(my_cores'[a], x, p)
    BY <2>1 DEF Working, Lent, NoOffer
  <2> QED
    BY <2>1 DEF Lent
<1>3. OneTaker'
  BY TakersStay DEF Working
<1> QED
  BY <1>1, <1>2, <1>3 DEF Working, OverStays

\* One list does.
LEMMA WorkingList ==
  ASSUME Working, Holding, OverStays, NEW a \in Agent, NEW l,
         my_cores' = [my_cores EXCEPT ![a] = l], Leading(l),
         app_state'[a] # "NO_APP" =>
           Len(l) >= IF Len(FirstCores[a]) > 1 THEN 2 ELSE 1,
         \A b, p \in Agent : \A x :
           b # a /\ Lends(inter'[b][p], x) => Lends(inter[b][p], x),
         \A p \in Agent : \A x : Lends(inter'[a][p], x) => HasMark(l, x, p),
         OneTaker'
  PROVE  Working'
<1>1. my_cores'[a] = l /\ \A b \in Agent : b # a => my_cores'[b] = my_cores[b]
  BY DEF Holding
<1>2. Firsts'
  BY <1>1 DEF Working, Firsts
<1>3. Sized'
  BY <1>1 DEF Working, Sized, OverStays
<1>4. Lent'
  <2>1. ASSUME NEW b \in Agent, NEW p \in Agent, NEW x, Lends(inter'[b][p], x)
        PROVE  HasMark(my_cores'[b], x, p)
    BY <1>1, <2>1 DEF Working, Lent
  <2> QED
    BY <2>1 DEF Lent
<1> QED
  BY <1>2, <1>3, <1>4 DEF Working, OverStays

LEMMA ListsStay ==
  ASSUME WInv, NoOffer, UNCHANGED <<my_cores, app_state>>
  PROVE  Working'
<1>1. OverStays
  BY DEF WInv, Working, OverStays
<1> QED
  BY <1>1, WorkingStays DEF WInv

\* What n \in Agent does to its own list while its application goes on; it
\* offers nothing new, but may take offers back.
LEMMA OwnList ==
  ASSUME WInv, NoOffer, app_state' = app_state, NEW a \in Agent, NEW l,
         my_cores' = [my_cores EXCEPT ![a] = l], Leading(l),
         Len(my_cores[a]) \in Nat, Len(l) \in Nat,
         \A i \in 1..2 : Len(my_cores[a]) >= i => Len(l) >= i,
         \A p \in Agent : \A x :
           Lends(inter'[a][p], x) /\ HasMark(my_cores[a], x, p) => HasMark(l, x, p)
  PROVE  Working'
<1>1. OverStays /\ Holding /\ Working
  BY DEF WInv, OInv, Owned, Working, OverStays
<1>2. OneTaker'
  BY <1>1, TakersStay DEF Working
<1>3. app_state'[a] # "NO_APP" =>
        Len(l) >= IF Len(FirstCores[a]) > 1 THEN 2 ELSE 1
  BY <1>1 DEF Working, Sized
<1>4. \A p \in Agent : \A x : Lends(inter'[a][p], x) => HasMark(l, x, p)
  BY <1>1 DEF Working, Lent, NoOffer
<1>5. \A b, p \in Agent : \A x :
        b # a /\ Lends(inter'[b][p], x) => Lends(inter[b][p], x)
  BY DEF NoOffer
<1> QED
  BY <1>1, <1>2, <1>3, <1>4, <1>5, WorkingList

LEMMA SelfChkOffersWorks ==
  ASSUME WInv, NEW a \in Agent, SelfChkOffers(a)
  PROVE  Working'
<1>1. PICK s, taken, l :
        /\ s \in Node /\ taken \in SUBSET Core
        /\ my_cores' = [my_cores EXCEPT ![a] = l]
        /\ Joined(my_cores[a], taken, l)
        /\ \A x \in taken : At(s, a, 1, x)
  BY Took DEF WInv
<1>2. /\ OInv /\ NoOffer /\ app_state' = app_state /\ a \in Node
      /\ a \notin Controller /\ Listing(my_cores[a]) /\ Leading(my_cores[a])
      /\ \A x \in Core : OnePlace(x)
  BY SelfChkOffersOwned, Controlled
     DEF SelfChkOffers, WInv, Working, Firsts, OInv, Owned, Holding
<1>3. ASSUME NEW i \in DOMAIN my_cores[a], my_cores[a][i].offered_to = NotOffered
      PROVE  my_cores[a][i].core \notin taken
  <2>1. PICK x : x = my_cores[a][i].core
    OBVIOUS
  <2>2. At(a, a, 0, x)
    BY <1>2, <1>3, <2>1 DEF At, Has
  <2>3. x \in taken => OnePlace(x) /\ At(s, a, 1, x)
    BY <1>1, <1>2
  <2>4. x \in taken => Same(a, a, 0, s, a, 1)
    BY <1>1, <1>2, <2>2, <2>3 DEF OnePlace
  <2> QED
    BY <2>1, <2>4 DEF Same
<1>4. /\ DOMAIN my_cores[a] = 1..Len(my_cores[a]) /\ Len(my_cores[a]) \in Nat
      /\ DOMAIN l = 1..Len(l) /\ Len(l) \in Nat
      /\ Len(my_cores[a]) <= Len(l)
  BY <1>1, <1>2 DEF Joined, Listing, IsSeq
<1>5. /\ \A i \in DOMAIN my_cores[a] : i \in DOMAIN l /\ l[i] = my_cores[a][i]
      /\ \A i \in DOMAIN l \ DOMAIN my_cores[a] :
           l[i].core \in taken /\ l[i].offered_to = NotOffered
      /\ \A i, j \in DOMAIN l \ DOMAIN my_cores[a] :
           l[i].core = l[j].core => i = j
  BY <1>1 DEF Joined
<1>6. ASSUME NEW i \in DOMAIN l, NEW j \in DOMAIN l, i <= 2
      PROVE  l[i].offered_to = NotOffered /\ (l[i].core = l[j].core => i = j)
  <2>1. CASE i \in DOMAIN my_cores[a] /\ j \in DOMAIN my_cores[a]
    BY <1>2, <1>5, <1>6, <2>1 DEF Leading
  <2>2. CASE i \in DOMAIN my_cores[a] /\ j \notin DOMAIN my_cores[a]
    <3>1. my_cores[a][i].offered_to = NotOffered
      BY <1>2, <1>6, <2>2 DEF Leading
    <3> QED
      BY <1>3, <1>5, <2>2, <3>1
  <2>3. CASE i \notin DOMAIN my_cores[a] /\ j \in DOMAIN my_cores[a]
    <3>1. j <= 2
      BY <1>4, <1>6, <2>3
    <3>2. my_cores[a][j].offered_to = NotOffered
      BY <1>2, <2>3, <3>1 DEF Leading
    <3> QED
      BY <1>3, <1>5, <2>3, <3>2
  <2>4. CASE i \notin DOMAIN my_cores[a] /\ j \notin DOMAIN my_cores[a]
    BY <1>5, <2>4
  <2> QED
    BY <2>1, <2>2, <2>3, <2>4
<1>7. Leading(l)
  BY <1>6 DEF Leading
<1>8. \A x, p : HasMark(my_cores[a], x, p) => HasMark(l, x, p)
  BY <1>5 DEF HasMark
<1>9. \A i \in 1..2 : Len(my_cores[a]) >= i => Len(l) >= i
  BY <1>4
<1> QED
  BY <1>1, <1>2, <1>4, <1>7, <1>8, <1>9, OwnList

LEMMA AgentEndsWorks ==
  ASSUME WInv, NEW a \in Agent, AgentEnds(a)
  PROVE  Working'
<1>1. /\ OInv /\ Working /\ Holding /\ Leading(my_cores[a])
      /\ my_cores' = [my_cores EXCEPT ![a] = <<>>]
      /\ app_state' = [app_state EXCEPT ![a] = "NO_APP"]
  BY DEF AgentEnds, WInv, Working, Firsts, OInv, Owned
<1>2. NoOffer
  BY <1>1, AgentEndsOwned
<1>3. PICK l : l = <<>> /\ DOMAIN l = {}
  <2>1. DOMAIN <<>> = {}
    OBVIOUS
  <2> QED
    BY <2>1
<1>4. OverStays /\ app_state'[a] = "NO_APP"
  BY <1>1 DEF Working, OverStays
<1>5. ASSUME NEW p \in Agent, NEW x, Lends(inter'[a][p], x) PROVE FALSE
  <2>1. PICK i \in DOMAIN my_cores[a] : my_cores[a][i].offered_to = p
    BY <1>1, <1>2, <1>5 DEF Working, Lent, NoOffer, HasMark
  <2>2. i \in Offered(a) /\ p # NotOffered
    BY <2>1, ClusterAssumption DEF Offered, Node
  <2>3. i = 1
    BY <2>2 DEF AgentEnds
  <2> QED
    BY <1>1, <2>1, <2>2, <2>3 DEF Leading
<1>6. OneTaker'
  BY <1>1, <1>2, TakersStay DEF Working
<1>7. Leading(l)
  BY <1>3 DEF Leading
<1>8. \A b, p \in Agent : \A x :
        b # a /\ Lends(inter'[b][p], x) => Lends(inter[b][p], x)
  BY <1>2 DEF NoOffer
<1> QED
  BY <1>1, <1>3, <1>4, <1>5, <1>6, <1>7, <1>8, WorkingList

LEMMA OfferCoresWorks ==
  ASSUME WInv, NEW n \in Node, OfferCores(n)
  PROVE  Working'
<1>1. /\ OInv /\ Working /\ Holding /\ app_state' = app_state
  BY DEF OfferCores, WInv, OInv, Owned
<1>2. PICK p \in Node, cores \in SUBSET Candidates(n) :
        /\ OffersTo(n, p, cores)
        /\ n \notin Controller =>
             my_cores' = [my_cores EXCEPT ![n] = Mark(@, cores, AnyMark, p)]
        /\ n \in Controller => my_cores' = my_cores
  BY <1>1, OfferCoresOwned
<1>3. CASE n \in Controller
  <2>1. n \notin Agent
    BY <1>3, ClusterAssumption
  <2>2. NoOffer
    BY <1>2, <2>1 DEF OffersTo, NoOffer
  <2> QED
    BY <1>1, <1>2, <1>3, <2>2, ListsStay
<1>4. CASE n \notin Controller
  <2>1. PICK q, l : q = my_cores[n] /\ l = Mark(q, cores, AnyMark, p)
    OBVIOUS
  <2>2. /\ n \in Agent /\ Listing(q) /\ Leading(q)
        /\ my_cores' = [my_cores EXCEPT ![n] = l]
    <3>1. n \in Agent
      BY <1>4 DEF Node
    <3>2. my_cores' = [my_cores EXCEPT ![n] = l]
      BY <1>1, <1>2, <1>4, <2>1, <3>1 DEF Holding
    <3> QED
      BY <1>1, <2>1, <3>1, <3>2 DEF Holding, Working, Firsts
  <2>3. /\ Listing(l) /\ DOMAIN l = DOMAIN q
        /\ \A i \in DOMAIN l :
             /\ l[i].core = q[i].core
             /\ l[i].offered_to =
                  IF q[i].core \in cores /\ q[i].offered_to \in AnyMark THEN p
                  ELSE q[i].offered_to
    BY <2>1, <2>2, MarkIs
  <2>4. /\ DOMAIN q = 1..Len(q) /\ Len(q) \in Nat /\ Len(l) = Len(q)
    BY <2>2, <2>3 DEF Listing, IsSeq
  <2>5. ASSUME NEW x \in cores
        PROVE  /\ \E k \in DOMAIN q : /\ k > 2 /\ q[k].core = x
                                      /\ q[k].offered_to = NotOffered
               /\ \A i \in DOMAIN q : q[i].core = x => q[i].offered_to = NotOffered
    <3>1. /\ x \in {q[i].core : i \in 3..Len(q)}
          /\ x \notin {q[i].core : i \in Offered(n)}
      BY <1>4, <2>1, <2>5 DEF Candidates
    <3>2. \A i \in DOMAIN q : q[i].core = x => q[i].offered_to = NotOffered
      BY <2>1, <3>1 DEF Offered
    <3>3. PICK k \in 3..Len(q) : q[k].core = x
      BY <3>1
    <3>4. k \in DOMAIN q /\ k > 2
      BY <2>4, <3>3
    <3> QED
      BY <3>2, <3>3, <3>4
  <2>6. ASSUME NEW i \in DOMAIN q, i <= 2 PROVE q[i].core \notin cores
    <3> SUFFICES ASSUME q[i].core \in cores PROVE FALSE
      OBVIOUS
    <3>1. PICK k \in DOMAIN q : k > 2 /\ q[k].core = q[i].core
      BY <2>5
    <3>2. i = k
      BY <2>2, <2>6, <3>1 DEF Leading
    <3> QED
      BY <2>4, <2>6, <3>1, <3>2
  <2>7. Leading(l)
    <3>1. ASSUME NEW i \in DOMAIN l, NEW j \in DOMAIN l, i <= 2
          PROVE  l[i].offered_to = NotOffered /\ (l[i].core = l[j].core => i = j)
      BY <2>2, <2>3, <2>6, <3>1 DEF Leading
    <3> QED
      BY <3>1 DEF Leading
  <2>8. ASSUME NEW x, NEW m \in Agent, HasMark(q, x, m)
        PROVE  x \notin cores /\ HasMark(l, x, m)
    <3>1. PICK i \in DOMAIN q : q[i].core = x /\ q[i].offered_to = m
      BY <2>8 DEF HasMark
    <3>2. m # NotOffered
      BY ClusterAssumption DEF Node
    <3>3. x \notin cores
      BY <2>5, <3>1, <3>2
    <3>4. l[i].core = x /\ l[i].offered_to = m
      BY <2>3, <3>1, <3>3
    <3> QED
      BY <2>3, <3>1, <3>3, <3>4 DEF HasMark
  <2>9. ASSUME NEW x \in cores PROVE HasMark(l, x, p)
    <3>1. PICK k \in DOMAIN q : q[k].core = x /\ q[k].offered_to = NotOffered
      BY <2>5
    <3> QED
      BY <2>3, <3>1 DEF HasMark, AnyMark
  <2>10. \A m \in Agent : \A x : Lends(inter[n][m], x) => HasMark(q, x, m)
    BY <1>1, <2>1, <2>2 DEF Working, Lent
  <2>11. \A m \in Agent : \A x : Lends(inter'[n][m], x) => HasMark(l, x, m)
    BY <1>2, <2>2, <2>8, <2>9, <2>10 DEF OffersTo
  <2>12. OneTaker'
    <3>1. ASSUME NEW a \in Agent, NEW m \in Agent, NEW k \in Agent, NEW x,
                 Lends(inter'[a][m], x), Lends(inter'[a][k], x)
          PROVE  m = k
      <4>1. /\ Lends(inter[a][m], x) \/ (a = n /\ m = p /\ x \in cores)
            /\ Lends(inter[a][k], x) \/ (a = n /\ k = p /\ x \in cores)
        BY <1>2, <3>1 DEF OffersTo
      <4>2. CASE Lends(inter[a][m], x) /\ Lends(inter[a][k], x)
        BY <1>1, <4>2 DEF Working, OneTaker
      <4>3. CASE a = n /\ x \in cores
        BY <2>8, <2>10, <4>1, <4>3
      <4> QED
        BY <4>1, <4>2, <4>3
    <3> QED
      BY <3>1 DEF OneTaker
  <2>13. OverStays
    BY <1>1 DEF Working, OverStays
  <2>14. app_state'[n] # "NO_APP" =>
           Len(l) >= IF Len(FirstCores[n]) > 1 THEN 2 ELSE 1
    BY <1>1, <2>1, <2>2, <2>4 DEF Working, Sized
  <2>15. \A b, m \in Agent : \A x :
           b # n /\ Lends(inter'[b][m], x) => Lends(inter[b][m], x)
    BY <1>2 DEF OffersTo
  <2> QED
    BY <1>1, <2>2, <2>7, <2>11, <2>12, <2>13, <2>14, <2>15, WorkingList
<1> QED
  BY <1>3, <1>4

\* An offer that is answered is one of a manager, to which its cores are lent.
LEMMA AnsweredOffer ==
  ASSUME WInv, NEW n \in Node, NEW sig, sig # "APP_TERMINATED", Receives(n, sig),
         HeadType(n, Peer(n)) \in Offers,
         NEW p, p = Peer(n), NEW cores, cores = Head(inter[n][p]).cores
  PROVE  p \in Agent /\ \A x \in cores : Lends(inter[n][p], x)
<1>1. IInv /\ p \in Node
  BY Heard DEF WInv, OInv, Hears
<1>2. HeadType(n, p) \in {"none"} \cup May(n, p)
  BY <1>1, StageIs
<1>3. p \in Agent
  BY <1>2 DEF May, Offers, Asker, Reports
<1>4. inter[n][p] # <<>> /\ Head(inter[n][p]).type \in Offers
  BY DEF HeadType, Offers
<1> QED
  BY <1>3, <1>4 DEF Lends

\* The cores of an offer that comes back are marked as before; those on offer
\* to others stay so.
LEMMA KeptWorks ==
  ASSUME WInv, NEW a \in Agent, NEW p \in Agent, NoOffer, OfferOver(a, p),
         app_state' = app_state, NEW cores, NEW old, old = {p} \/ old = AnyMark,
         \A x \in cores : Lends(inter[a][p], x),
         NEW l, l = Mark(my_cores[a], cores, old, NotOffered),
         my_cores' = [my_cores EXCEPT ![a] = l]
  PROVE  Working'
<1>1. OInv /\ Working /\ Holding
  BY DEF WInv, OInv, Owned
<1>2. PICK q : q = my_cores[a] /\ Listing(q) /\ Leading(q)
  BY <1>1 DEF Working, Firsts, Holding
<1>3. /\ Listing(l) /\ DOMAIN l = DOMAIN q
      /\ \A i \in DOMAIN l :
           /\ l[i].core = q[i].core
           /\ l[i].offered_to =
                IF q[i].core \in cores /\ q[i].offered_to \in old
                THEN NotOffered ELSE q[i].offered_to
  BY <1>2, MarkIs
<1>4. DOMAIN q = 1..Len(q) /\ Len(q) \in Nat /\ Len(l) = Len(q)
  BY <1>2, <1>3 DEF Listing, IsSeq
<1>5. Leading(l)
  <2>1. ASSUME NEW i \in DOMAIN l, NEW j \in DOMAIN l, i <= 2
        PROVE  l[i].offered_to = NotOffered /\ (l[i].core = l[j].core => i = j)
    BY <1>2, <1>3, <2>1 DEF Leading
  <2> QED
    BY <2>1 DEF Leading
<1>6. ASSUME NEW m \in Agent, NEW x, Lends(inter'[a][m], x), HasMark(q, x, m)
      PROVE  HasMark(l, x, m)
  <2>1. Lends(inter[a][m], x) /\ m # p
    BY <1>6 DEF NoOffer, OfferOver
  <2>2. x \notin cores
    BY <1>1, <2>1 DEF Working, OneTaker
  <2> QED
    BY <1>3, <1>6, <2>2 DEF HasMark
<1>7. \A i \in 1..2 : Len(my_cores[a]) >= i => Len(l) >= i
  BY <1>2, <1>4
<1> QED
  BY <1>2, <1>4, <1>5, <1>6, <1>7, OwnList

LEMMA RepOffersNoWorks ==
  ASSUME WInv, NEW n \in Node, RepOffersNo(n)
  PROVE  Working'
<1>1. /\ NoOffer /\ OfferOver(n, Peer(n)) /\ app_state' = app_state /\ Holding
  BY RepOffersNoOwned DEF RepOffersNo, WInv, OInv, Owned
<1>2. PICK p, cores : p = Peer(n) /\ cores = Head(inter[n][p]).cores
  OBVIOUS
<1>3. p \in Agent /\ \A x \in cores : Lends(inter[n][p], x)
  <2>1. Receives(n, "REP_OFFERS") /\ HeadType(n, Peer(n)) \in Offers
    BY DEF RepOffersNo, Offers
  <2> QED
    BY <1>2, <2>1, AnsweredOffer
<1>4. CASE n \in Controller
  BY <1>1, <1>4, ListsStay DEF RepOffersNo
<1>5. CASE n \notin Controller
  <2>1. PICK old, l : old = {p} /\ l = Mark(my_cores[n], cores, old, NotOffered)
    OBVIOUS
  <2>2. n \in Agent /\ my_cores' = [my_cores EXCEPT ![n] = l]
    BY <1>2, <1>5, <2>1 DEF RepOffersNo, Node
  <2> QED
    BY <1>1, <1>2, <1>3, <2>1, <2>2, KeptWorks
<1> QED
  BY <1>4, <1>5

LEMMA RejectOfferWorks ==
  ASSUME WInv, NEW n \in Node, RejectOffer(n)
  PROVE  Working'
<1>1. /\ NoOffer /\ OfferOver(n, Peer(n)) /\ app_state' = app_state /\ Holding
  BY RejectOfferOwned DEF RejectOffer, WInv, OInv, Owned
<1>2. PICK p, cores : p = Peer(n) /\ cores = Head(inter[n][p]).cores
  OBVIOUS
<1>3. p \in Agent /\ \A x \in cores : Lends(inter[n][p], x)
  <2>1. Receives(n, "REJECT") /\ HeadType(n, Peer(n)) \in Offers
    BY DEF RejectOffer, Offers
  <2> QED
    BY <1>2, <2>1, AnsweredOffer
<1>4. CASE n \in Controller
  BY <1>1, <1>4, ListsStay DEF RejectOffer
<1>5. CASE n \notin Controller
  <2>1. PICK old, l : old = AnyMark /\ l = Mark(my_cores[n], cores, old, NotOffered)
    OBVIOUS
  <2>2. n \in Agent /\ my_cores' = [my_cores EXCEPT ![n] = l]
    BY <1>2, <1>5, <2>1 DEF RejectOffer, Node
  <2> QED
    BY <1>1, <1>2, <1>3, <2>1, <2>2, KeptWorks
<1> QED
  BY <1>4, <1>5

LEMMA RepOffersYesWorks ==
  ASSUME WInv, NEW n \in Node, RepOffersYes(n)
  PROVE  Working'
<1>1. /\ NoOffer /\ OfferOver(n, Peer(n)) /\ app_state' = app_state
      /\ Holding /\ Working
  BY RepOffersYesOwned DEF RepOffersYes, WInv, OInv, Owned
<1>2. PICK p, cores : p = Peer(n) /\ cores = Head(inter[n][p]).cores
  OBVIOUS
<1>3. p \in Agent /\ \A x \in cores : Lends(inter[n][p], x)
  <2>1. Receives(n, "REP_OFFERS") /\ HeadType(n, Peer(n)) \in Offers
    BY DEF RepOffersYes, Offers
  <2> QED
    BY <1>2, <2>1, AnsweredOffer
<1>4. CASE n \in Controller
  BY <1>1, <1>4, ListsStay DEF RepOffersYes
<1>5. CASE n \notin Controller
  <2>1. PICK q, l : q = my_cores[n] /\ l = Without(q, cores)
    OBVIOUS
  <2>2. /\ n \in Agent /\ my_cores' = [my_cores EXCEPT ![n] = l]
        /\ Listing(q) /\ Leading(q)
    <3>1. n \in Agent
      BY <1>5 DEF Node
    <3>2. my_cores' = [my_cores EXCEPT ![n] = l]
      BY <1>2, <1>5, <2>1 DEF RepOffersYes
    <3> QED
      BY <1>1, <2>1, <3>1, <3>2 DEF Holding, Working, Firsts
  <2>3. ASSUME NEW i \in DOMAIN q, i <= 2 PROVE q[i].core \notin cores
    <3> SUFFICES ASSUME q[i].core \in cores PROVE FALSE
      OBVIOUS
    <3>1. PICK j \in DOMAIN q : q[j].core = q[i].core /\ q[j].offered_to = p
      BY <1>1, <1>3, <2>1, <2>2 DEF Working, Lent, HasMark
    <3>2. i = j /\ q[i].offered_to = NotOffered
      BY <2>2, <2>3, <3>1 DEF Leading
    <3> QED
      BY <1>3, <3>1, <3>2, ClusterAssumption DEF Node
  <2>4. /\ Leading(l) /\ Len(q) \in Nat /\ Len(l) \in Nat
        /\ \A i \in 1..2 : Len(q) >= i => Len(l) >= i
        /\ \A x, m : x \notin cores /\ HasMark(q, x, m) => HasMark(l, x, m)
    BY <2>1, <2>2, <2>3, FirstStays
  <2>5. ASSUME NEW m \in Agent, NEW x, Lends(inter'[n][m], x), HasMark(q, x, m)
        PROVE  HasMark(l, x, m)
    <3>1. Lends(inter[n][m], x) /\ m # p
      BY <1>1, <1>2, <2>2, <2>5 DEF NoOffer, OfferOver
    <3>2. x \notin cores
      BY <1>1, <1>3, <2>2, <3>1 DEF Working, OneTaker
    <3> QED
      BY <2>4, <2>5, <3>2
  <2> QED
    BY <1>1, <2>1, <2>2, <2>4, <2>5, OwnList
<1> QED
  BY <1>4, <1>5
-----------------------------------------------------------------------------
(* The theorems.                                                             *)

\* Nothing is under way at the start.
LEMMA InitOwned == Init => Owned
<1> SUFFICES ASSUME Init PROVE Owned
  OBVIOUS
<1>1. /\ inter = [n \in Node |-> [p \in Node |-> <<>>]]
      /\ mail = [n \in Node |-> <<>>] /\ data = [n \in Node |-> <<>>]
      /\ my_cores = [a \in Agent |-> Entries(FirstCores[a])]
      /\ book = [c \in Controller |-> BookAtStart(c)]
      /\ selfopt_offers = [a \in Agent |-> <<>>]
  BY DEF Init
<1>2. IsSeq(<<>>) /\ DOMAIN <<>> = {} /\ Range(<<>>) = {}
  <2>1. <<>> \in Seq({}) /\ DOMAIN <<>> = {}
    OBVIOUS
  <2>2. Range(<<>>) = {}
    BY <2>1 DEF Range
  <2> QED
    BY <2>1, <2>2 DEF IsSeq
<1>3. ASSUME NEW a \in Agent
      PROVE  /\ DOMAIN my_cores[a] = DOMAIN FirstCores[a]
             /\ \A i \in DOMAIN FirstCores[a] :
                  /\ my_cores[a][i].core = FirstCores[a][i]
                  /\ my_cores[a][i].offered_to = NotOffered
             /\ Listing(my_cores[a]) /\ Len(my_cores[a]) = Len(FirstCores[a])
  <2>1. FirstCores[a] \in Seq(Core)
    BY StartAssumption
  <2>2. PICK q, N, l : /\ q = FirstCores[a] /\ N = Len(q) /\ l = Entries(q)
                       /\ my_cores[a] = l
    BY <1>1
  <2>3. N \in Nat /\ DOMAIN q = 1..N /\ \A i \in 1..N : q[i] \in Core
    BY <2>1, <2>2
  <2>4. /\ DOMAIN l = 1..N
        /\ \A i \in 1..N : l[i] = [core |-> q[i], offered_to |-> NotOffered]
        /\ l = [i \in 1..N |-> [core |-> q[i], offered_to |-> NotOffered]]
    BY <2>2, <2>3 DEF Entries
  <2>5. l \in Seq([core : Core, offered_to : {NotOffered}])
    BY <2>3, <2>4
  <2>6. Listing(l)
    BY <2>3, <2>4, <2>5 DEF Listing, IsSeq
  <2>7. Len(l) = N
    BY <2>3, <2>4, <2>5
  <2> QED
    BY <2>2, <2>3, <2>4, <2>6, <2>7
<1>4. ASSUME NEW c \in Controller
      PROVE  /\ "offered_to" \in DOMAIN book[c]
             /\ DOMAIN book[c].offered_to =
                  {x \in Core \ {c} : idag_mask[x] = c}
             /\ \A x \in DOMAIN book[c].offered_to :
                  book[c].offered_to[x] = IF x \in FreeAtStart(c) THEN NotOffered
                                          ELSE HolderAtStart(x)
  BY <1>1 DEF BookAtStart
<1>5. Holding
  BY <1>1, <1>3, <1>4 DEF Holding
<1>6. Sound(Net)
  BY <1>1, <1>2 DEF Sound, Net, IsNet, SoundList, SoundQueue
<1>7. Collecting
  BY <1>1, <1>2 DEF Collecting
<1>8. ASSUME NEW n \in Node, NEW p \in Node, NEW i \in Nat, NEW x, At(n, p, i, x)
      PROVE  i = 0 /\ n = p /\ Has(n, x)
  <2>1. inter[n][p] = <<>> /\ mail[p] = <<>> /\ Net.inter = inter /\ Net.mail = mail
    BY <1>1 DEF Net
  <2>2. ~ Lies(Net, n, p, i, x)
    BY <1>2, <2>1 DEF Lies, Lends, Gives
  <2> QED
    BY <1>8, <2>2 DEF At
<1>9. ASSUME NEW a \in Agent, NEW x, Has(a, x)
      PROVE  \E i \in DOMAIN FirstCores[a] : FirstCores[a][i] = x
  <2>1. a \notin Controller
    BY Controlled
  <2> QED
    BY <1>3, <1>9, <2>1 DEF Has
<1>10. ASSUME NEW c \in Controller, NEW x, Has(c, x)
       PROVE  /\ idag_mask[x] = c
              /\ \A a \in Agent : \A i \in DOMAIN FirstCores[a] :
                   FirstCores[a][i] # x
  <2>1. x \in Core \ {c} /\ idag_mask[x] = c
    BY <1>4, <1>10 DEF Has
  <2>2. CASE x \in FreeAtStart(c)
    BY <2>1, <2>2 DEF FreeAtStart, Range
  <2>3. CASE x \notin FreeAtStart(c)
    <3>1. \E a \in Agent : x \in Range(FirstCores[a])
      BY <2>1, <2>3 DEF FreeAtStart
    <3>2. HolderAtStart(x) \in Agent
      BY <3>1 DEF HolderAtStart
    <3>3. HolderAtStart(x) = NotOffered
      BY <1>4, <1>10, <2>3 DEF Has
    <3> QED
      BY <3>2, <3>3, ClusterAssumption DEF Node
  <2> QED
    BY <2>1, <2>2, <2>3
<1>11. ASSUME NEW n \in Node, NEW m \in Node, NEW x, Has(n, x), Has(m, x)
       PROVE  n = m
  <2>1. CASE n \in Controller /\ m \in Controller
    BY <1>10, <1>11, <2>1
  <2>2. CASE n \in Agent /\ m \in Agent
    BY <1>9, <1>11, <2>2, StartAssumption
  <2>3. CASE n \in Agent /\ m \in Controller
    BY <1>9, <1>10, <1>11, <2>3
  <2>4. CASE n \in Controller /\ m \in Agent
    BY <1>9, <1>10, <1>11, <2>4
  <2> QED
    BY <2>1, <2>2, <2>3, <2>4 DEF Node
<1>12. \A x \in Core : OnePlace(x)
  BY <1>8, <1>11 DEF OnePlace, Same
<1> QED
  BY <1>5, <1>6, <1>7, <1>12 DEF Owned

LEMMA InitWorks == Init => Working
<1> SUFFICES ASSUME Init PROVE Working
  OBVIOUS
<1>1. /\ inter = [n \in Node |-> [p \in Node |-> <<>>]]
      /\ my_cores = [a \in Agent |-> Entries(FirstCores[a])]
      /\ DOMAIN app_state = Agent
  BY DEF Init
<1>2. ASSUME NEW a \in Agent
      PROVE  Leading(my_cores[a]) /\ Len(my_cores[a]) = Len(FirstCores[a])
  <2>1. FirstCores[a] \in Seq(Core)
    BY StartAssumption
  <2>2. PICK q, N, l : /\ q = FirstCores[a] /\ N = Len(q) /\ l = Entries(q)
                       /\ my_cores[a] = l
    BY <1>1
  <2>3. N \in Nat /\ DOMAIN q = 1..N
    BY <2>1, <2>2
  <2>4. l = [i \in 1..N |-> [core |-> q[i], offered_to |-> NotOffered]]
    BY <2>2, <2>3 DEF Entries
  <2>5. Leading(l)
    <3>1. \A i, j \in 1..N : q[i] = q[j] => i = j
      BY <2>2, <2>3, StartAssumption
    <3> QED
      BY <2>4, <3>1 DEF Leading
  <2>6. PICK R : R = Range(l)
    OBVIOUS
  <2>7. l \in [1..N -> R]
    BY <2>4, <2>6 DEF Range
  <2>8. Len(l) = N
    BY <2>3, <2>7
  <2> QED
    BY <2>2, <2>5, <2>8
<1>3. Firsts
  BY <1>2 DEF Firsts
<1>4. Sized
  <2>1. ASSUME NEW a \in Agent
        PROVE  Len(my_cores[a]) >= IF Len(FirstCores[a]) > 1 THEN 2 ELSE 1
    <3>1. FirstCores[a] \in Seq(Core) /\ FirstCores[a] # <<>>
      BY StartAssumption
    <3>2. Len(FirstCores[a]) \in Nat \ {0}
      BY <3>1
    <3> QED
      BY <1>2, <3>2
  <2> QED
    BY <2>1 DEF Sized
<1>5. \A a, p \in Agent : inter[a][p] = <<>>
  BY <1>1 DEF Node
<1> QED
  BY <1>1, <1>3, <1>4, <1>5 DEF Working, Lent, OneTaker, Lends

LEMMA NextOwns == WInv /\ [Next]_vars => WInv'
<1> SUFFICES ASSUME WInv, [Next]_vars PROVE WInv'
  OBVIOUS
<1>1. OInv /\ IInv /\ Working
  BY DEF WInv, OInv
<1>2. IInv'
  BY <1>1, NextHolds
<1>3. CASE UNCHANGED vars
  <2>1. UNCHANGED <<netVars, my_cores, book, selfopt_offers, app_state>>
    BY <1>3 DEF vars, agentVars
  <2>2. Owned' /\ NoOffer
    BY <1>1, <2>1, NothingMoves
  <2>3. Working'
    BY <2>1, <2>2, ListsStay
  <2> QED
    BY <1>2, <2>2, <2>3 DEF WInv, OInv
<1>4. ASSUME NEW a \in Agent, Program(a) PROVE Owned' /\ Working'
  <2>1. CASE \/ SelfOptStart(a) \/ Timer(a) \/ LeaveAtTop(a) \/ Leave(a)
             \/ InitManChkOffers(a)
    <3>1. Owned' /\ NoOffer
      BY <1>1, <2>1, UnseenOwned
    <3>2. UNCHANGED <<my_cores, app_state>>
      BY <2>1 DEF SelfOptStart, Timer, LeaveAtTop, Leave, InitManChkOffers
    <3> QED
      BY <3>1, <3>2, ListsStay
  <2>2. CASE DiscoveryDone(a)
    <3>1. UNCHANGED <<my_cores, app_state>>
      BY <2>2 DEF DiscoveryDone
    <3> QED
      BY <1>1, <2>2, <3>1, DiscoveryDoneOwned, ListsStay
  <2>3. CASE SelfChkOffers(a)
    BY <1>1, <2>3, SelfChkOffersOwned, SelfChkOffersWorks
  <2>4. CASE AgentZombie(a)
    <3>1. UNCHANGED <<my_cores, app_state>>
      BY <2>4 DEF AgentZombie
    <3> QED
      BY <1>1, <2>4, <3>1, AgentZombieOwned, ListsStay
  <2>5. CASE AgentEnds(a)
    <3>1. Leading(my_cores[a])
      BY <1>1 DEF Working, Firsts
    <3> QED
      BY <1>1, <2>5, <3>1, AgentEndsOwned, AgentEndsWorks
  <2> QED
    BY <1>4, <2>1, <2>2, <2>3, <2>4, <2>5 DEF Program
<1>5. ASSUME NEW a \in Agent, AppFinishes(a) PROVE Owned' /\ Working'
  <2>1. Owned' /\ NoOffer
    BY <1>1, <1>5, UnseenOwned
  <2>2. my_cores' = my_cores /\ OverStays
    BY <1>1, <1>5 DEF AppFinishes, Working, OverStays
  <2> QED
    BY <1>1, <2>1, <2>2, WorkingStays
<1>6. ASSUME NEW n \in Node, Handler(n) PROVE Owned' /\ Working'
  <2>1. CASE ReqCores(n)
    <3>1. UNCHANGED <<my_cores, app_state>>
      BY <2>1 DEF ReqCores, agentVars
    <3> QED
      BY <1>1, <2>1, <3>1, ReqCoresOwned, ListsStay
  <2>2. CASE OfferCores(n)
    BY <1>1, <2>2, OfferCoresOwned, OfferCoresWorks
  <2>3. CASE CollectOffer(n)
    <3>1. UNCHANGED <<my_cores, app_state>>
      BY <2>3 DEF CollectOffer
    <3> QED
      BY <1>1, <2>3, <3>1, CollectOfferOwned, ListsStay
  <2>4. CASE AckData(n)
    <3>1. UNCHANGED <<my_cores, app_state>>
      BY <2>4 DEF AckData, agentVars
    <3> QED
      BY <1>1, <2>4, <3>1, AckDataOwned, ListsStay
  <2>5. CASE AckClear(n)
    <3>1. UNCHANGED <<my_cores, app_state>>
      BY <2>5 DEF AckClear, agentVars
    <3> QED
      BY <1>1, <2>5, <3>1, AckClearOwned, ListsStay
  <2>6. CASE RepOffersNo(n)
    BY <1>1, <2>6, RepOffersNoOwned, RepOffersNoWorks
  <2>7. CASE RepOffersYes(n)
    BY <1>1, <2>7, RepOffersYesOwned, RepOffersYesWorks
  <2>8. CASE RejectRequest(n)
    <3>1. UNCHANGED <<my_cores, app_state>>
      BY <2>8 DEF RejectRequest, agentVars
    <3> QED
      BY <1>1, <2>8, <3>1, RejectRequestOwned, ListsStay
  <2>9. CASE RejectOffer(n)
    BY <1>1, <2>9, RejectOfferOwned, RejectOfferWorks
  <2> QED
    BY <1>6, <2>1, <2>2, <2>3, <2>4, <2>5, <2>6, <2>7, <2>8, <2>9 DEF Handler
<1>7. ASSUME NEW c \in Controller, BookHandler(c) PROVE Owned' /\ Working'
  <2>1. UNCHANGED <<my_cores, app_state>>
    BY <1>7
       DEF BookHandler, AddCoresDDS, RemCoresDDS, Finish, AppTerminated, agentVars
  <2>2. Owned' /\ NoOffer
    BY <1>1, <1>7, AddCoresDDSOwned, RemCoresDDSOwned, FinishOwned,
       AppTerminatedOwned DEF BookHandler
  <2> QED
    BY <2>1, <2>2, ListsStay
<1> QED
  BY <1>2, <1>3, <1>4, <1>5, <1>6, <1>7 DEF Next, WInv, OInv

LEMMA OwnersInvariance == Spec => []WInv
<1>1. Init => WInv
  BY InitHolds, InitOwned, InitWorks DEF WInv, OInv
<1>2. WInv /\ [Next]_vars => WInv'
  BY NextOwns
<1> QED
  BY <1>1, <1>2, PTL DEF Spec

\* Two owners would be two places.
LEMMA OneOwnerAll == WInv => OneOwner
<1> SUFFICES ASSUME WInv, NEW x \in Core PROVE Cardinality(Owners(x)) <= 1
  BY DEF OneOwner
<1>1. OnePlace(x)
  BY DEF WInv, OInv, Owned
<1>2. ASSUME NEW n \in Owners(x) PROVE n \in Node /\ At(n, n, 0, x)
  <2>1. CASE n \in Agent /\ \E i \in DOMAIN my_cores[n] :
               my_cores[n][i] = [core |-> x, offered_to |-> NotOffered]
    <3>1. n \notin Controller
      BY <2>1, Controlled
    <3> QED
      BY <2>1, <3>1 DEF At, Has, Node
  <2>2. CASE n \in Controller /\ x \in DOMAIN book[n].offered_to
             /\ book[n].offered_to[x] = NotOffered
    BY <2>2 DEF At, Has, Node
  <2> QED
    BY <1>2, <2>1, <2>2 DEF Owners
<1>3. \A n, m \in Owners(x) : n = m
  BY <1>1, <1>2 DEF OnePlace, Same
<1>4. CASE Owners(x) = {}
  <2>1. Cardinality(Owners(x)) = 0
    BY <1>4, FS_EmptySet
  <2> QED
    BY <2>1
<1>5. CASE Owners(x) # {}
  <2>1. PICK n : Owners(x) = {n}
    BY <1>3, <1>5
  <2>2. Cardinality(Owners(x)) = 1
    BY <2>1, FS_Singleton
  <2> QED
    BY <2>2
<1> QED
  BY <1>4, <1>5

\* OneOwner (offer_cores, sig_REP_OFFERS, sig_FINISH): however many managers
\* and controllers negotiate, and whatever offers, answers, reports and ends of
\* applications are under way, a core that is not on offer is in the list of
\* one manager or free in the book of one controller, never in two.
THEOREM OneOwnerHolds == Spec => []OneOwner
BY OwnersInvariance, OneOwnerAll, PTL

LEMMA KeepsWorkerAll == WInv => KeepsWorker
<1> SUFFICES ASSUME WInv, NEW a \in Agent, app_state[a] # "NO_APP"
             PROVE  /\ Len(my_cores[a]) >= IF Len(FirstCores[a]) > 1 THEN 2 ELSE 1
                    /\ \A i \in Offered(a) : i > 2
  BY DEF KeepsWorker
<1>1. Firsts /\ Sized /\ Holding
  BY DEF WInv, OInv, Owned, Working
<1>2. ASSUME NEW i \in Offered(a) PROVE i > 2
  <2>1. i \in DOMAIN my_cores[a] /\ my_cores[a][i].offered_to # NotOffered
    BY <1>2 DEF Offered
  <2>2. i \in Nat
    BY <1>1, <2>1 DEF Holding, Listing, IsSeq
  <2> QED
    BY <1>1, <2>1, <2>2 DEF Firsts, Leading
<1> QED
  BY <1>1, <1>2 DEF Sized

\* KeepsWorker (offer_cores, resource_negotiation.c 132): however many requests
\* and offers are pending and however they are answered, the manager's core and
\* its first working core are never on offer, and a running application that
\* started with a worker has one.
THEOREM KeepsWorkerHolds == Spec => []KeepsWorker
BY OwnersInvariance, KeepsWorkerAll, PTL
=============================================================================
