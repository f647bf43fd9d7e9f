--------------------------- MODULE SelfOptProofs ----------------------------
(***************************************************************************)
(* Proofs about SelfOpt, for any number of controllers, managers and       *)
(* cores, any clusters and any targets: every signal of a negotiation is   *)
(* understood, data are written only for a handler that waits for them,    *)
(* and two nodes never wait for each other.                                *)
(*                                                                         *)
(* None of this can be seen from one node.  What is proved is that the     *)
(* two queues of interactions of a pair of nodes, the signals under way    *)
(* between them and the handlers that wait always fit together, in one of  *)
(* the ways that Talk lists.                                               *)
(***************************************************************************)
EXTENDS SelfOpt, TLAPS

\* How far a node with queue q is with its peer: the interaction at the head,
\* where an offer of cores and one of none differ.
Top(q) ==
  IF q = <<>> THEN "none"
  ELSE IF Head(q).type # "REP_AGENT_REQ_CORES" THEN Head(q).type
  ELSE IF Head(q).cores # {} THEN "offer" ELSE "nothing"
Stage(n, p) == Top(inter[n][p])

\* What the handler of n that waits for p waits for: an ACK or data.
Blocked(n, p) ==
  IF ~ WaitsFor(n, p) THEN "no"
  ELSE IF waiting[n].msg.body = "request"
       THEN IF data[n] = <<>> THEN "asked" ELSE "request"
       ELSE IF data[n] = <<>> THEN "offered" ELSE "cores"

Kind(m) ==
  IF m.sig # "REQ_CORES" THEN m.sig
  ELSE IF m.body = "request" THEN "request"
  ELSE IF m.some THEN "offer" ELSE "nothing"

\* The signals from n in list q are of kinds a and b, in this order; there
\* are two at most.  That an application is over, core 0 is told by the way.
From(q, n) ==
  {i \in DOMAIN q : q[i].from = n /\ q[i].msg.sig # "APP_TERMINATED"}
Line(q, n, a, b) ==
  \/ a = "none" /\ b = "none" /\ From(q, n) = {}
  \/ /\ a # "none" /\ b = "none"
     /\ \E i \in DOMAIN q : From(q, n) = {i} /\ Kind(q[i].msg) = a
  \/ /\ a # "none" /\ b # "none"
     /\ \E i, j \in DOMAIN q :
          /\ i < j /\ From(q, n) = {i, j}
          /\ Kind(q[i].msg) = a /\ Kind(q[j].msg) = b

\* The signal of an interaction that was sent when it came to the head.
Reports == {"IDAG_ADD_CORES_DDS", "IDAG_REM_CORES_DDS", "REMOVE_APP"}
Call(v) ==
  CASE v = "SELFOPT_REQ_CORES_PENDING" -> "request"
    [] v = "IDAG_ADD_CORES_DDS" -> "ADD_CORES_DDS"
    [] v = "IDAG_REM_CORES_DDS" -> "REM_CORES_DDS"
    [] v = "REMOVE_APP" -> "FINISH"
    [] OTHER -> "none"
Idle == {"none", "SELFOPT_REQ_CORES_PENDING"}
-----------------------------------------------------------------------------
\* The ways in which a request of n to p can be under way.  Stages v and w are
\* those of n and p, signals a, b go from n to p and c, d from p to n, and x
\* and y say how n and p are blocked.
Answered(v, w, a, b, c, d, x, y) ==
  /\ v = "SELFOPT_REQ_CORES_PENDING" /\ a = "none" /\ b = "none" /\ x = "no"
  /\ \/ w = "none" /\ c = "ACK" /\ d = "none" /\ y = "asked"
     \/ w \in Idle /\ c \in {"REJECT", "request"} /\ d = Call(w) /\ y = "no"
Offering(v, w, a, b, c, d, x, y) ==
  /\ v = "SELFOPT_REQ_CORES" /\ b = "none" /\ d = "none"
  /\ \/ w = "none" /\ a = "none" /\ c = "none" /\ x = "no" /\ y = "request"
     \/ /\ w \in {"offer", "nothing"} /\ a = "none" /\ c = w
        /\ x = "no" /\ y = "no"
     \/ w = "offer" /\ a = "ACK" /\ c = "none" /\ x = "offered" /\ y = "no"
     \/ /\ w = "AGENT_OFFER_SENT" /\ a = "none" /\ c = "none"
        /\ x = "cores" /\ y = "no"
Deciding(v, w, a, b, c, d, x, y) ==
  /\ b = "none" /\ x = "no" /\ y = "no"
  /\ \/ /\ v = "REP_AGENT_OFFER_PENDING" /\ w = "AGENT_OFFER_SENT"
        /\ a = "none" /\ c = "none" /\ d = "none"
     \/ /\ v = "REP_AGENT_OFFER_SENT" /\ w = "AGENT_OFFER_SENT"
        /\ a = "REP_OFFERS" /\ c = "none" /\ d = "none"
     \/ /\ v = "REP_AGENT_OFFER_SENT" /\ w \in Idle
        /\ a = "none" /\ c = "ACK" /\ d = Call(w)
Refusing(v, w, a, b, c, d, x, y) ==
  /\ v \in Idle \cup Reports /\ w \in {"offer", "nothing"}
  /\ \/ a = "REJECT"
     \/ a = "ACK" /\ w = "nothing"
  /\ b = Call(v) /\ c = "none" /\ d = "none" /\ x = "no" /\ y = "no"

Asks(v, w, a, b, c, d, x, y) ==
  \/ Answered(v, w, a, b, c, d, x, y) \/ Offering(v, w, a, b, c, d, x, y)
  \/ Deciding(v, w, a, b, c, d, x, y) \/ Refusing(v, w, a, b, c, d, x, y)

\* Each of the two may have a report that was not handled, one that was, or
\* none.
Order(s, t, a, b) ==
  \/ /\ t = "none" /\ a = s /\ b = "none"
  \/ /\ s = "none" /\ a = t /\ b = "none"
  \/ /\ s # "none" /\ t # "none" /\ ((a = s /\ b = t) \/ (a = t /\ b = s))
Tells(v, w, a, b, c, d) ==
  /\ v \in {"none"} \cup Reports /\ w \in {"none"} \cup Reports
  /\ \E s, t \in {"none", "ACK"} :
       /\ s = "ACK" => w \in Reports
       /\ t = "ACK" => v \in Reports
       /\ Order(IF t = "ACK" THEN "none" ELSE Call(v), s, a, b)
       /\ Order(IF s = "ACK" THEN "none" ELSE Call(w), t, c, d)

Talk(v, w, a, b, c, d, x, y) ==
  \/ /\ v \in Idle /\ w \in Idle /\ a = Call(v) /\ b = "none"
     /\ c = Call(w) /\ d = "none" /\ x = "no" /\ y = "no"
  \/ Asks(v, w, a, b, c, d, x, y) \/ Asks(w, v, c, d, a, b, y, x)
  \/ Tells(v, w, a, b, c, d) /\ x = "no" /\ y = "no"
-----------------------------------------------------------------------------
(* What a signal that is handled says about the pair, and what its answer    *)
(* makes of it.                                                              *)

\* A stage that comes to the head, and its peer's: managers ask each other and
\* controllers, and report to controllers.
Asker == {"SELFOPT_REQ_CORES_PENDING", "SELFOPT_REQ_CORES",
          "REP_AGENT_OFFER_PENDING", "REP_AGENT_OFFER_SENT"}
Apart(v, w) ==
  (v \in Reports => w \notin Asker) /\ (w \in Reports => v \notin Asker)

\* A signal of kind k is sent after signals a and b.
First(a, k) == IF a = "none" THEN k ELSE a
Second(a, b, k) == IF a = "none" \/ k = "none" THEN b ELSE k

LEMMA TalkTurns ==
  ASSUME NEW v, NEW w, NEW a, NEW b, NEW c, NEW d, NEW x, NEW y,
         Talk(v, w, a, b, c, d, x, y)
  PROVE  Talk(w, v, c, d, a, b, y, x)
BY DEF Talk, Tells

\* A node begins something when it has nothing under way with its peer and
\* does not wait for it.
LEMMA Begins ==
  ASSUME NEW w, NEW a, NEW b, NEW c, NEW d, NEW y,
         Talk("none", w, a, b, c, d, "no", y),
         NEW v \in {"SELFOPT_REQ_CORES_PENDING"} \cup Reports, Apart(v, w)
  PROVE  b = "none" /\ Talk(v, w, First(a, Call(v)), Second(a, b, Call(v)),
                            c, d, "no", y)
<1> USE DEF Talk, Asks, Answered, Offering, Deciding, Refusing, Idle, Reports,
            Call, First, Second, Apart, Asker
<1>1. CASE w # "none" /\ ~ Tells("none", w, a, b, c, d)
  BY <1>1
<1>3. ASSUME w = "none"
      PROVE  a = "none" /\ b = "none" /\ Tells("none", w, a, b, c, d) /\ y = "no"
  BY <1>3 DEF Tells, Order
<1>2. CASE Tells("none", w, a, b, c, d) /\ y = "no"
  <2>1. PICK s \in {"none", "ACK"} :
          /\ s = "ACK" => w \in Reports
          /\ Order("none", s, a, b)
          /\ Order(IF s = "ACK" THEN "none" ELSE Call(w), "none", c, d)
    BY <1>2 DEF Tells
  <2>2. a = s /\ b = "none"
    BY <2>1 DEF Order
  <2>3. w \in {"none"} \cup Reports
    BY <1>2 DEF Tells
  <2>4. CASE v \in Reports
    <3>1. Order(Call(v), s, First(a, Call(v)), Second(a, b, Call(v)))
      BY <2>2, <2>4 DEF Order
    <3>2. Tells(v, w, First(a, Call(v)), Second(a, b, Call(v)), c, d)
      BY <2>1, <2>3, <2>4, <3>1 DEF Tells
    <3> QED
      BY <1>2, <2>2, <3>2
  <2>5. CASE v \notin Reports
    BY <1>2, <2>1, <2>2, <2>3, <2>5 DEF Order
  <2> QED
    BY <2>4, <2>5
<1> QED
  BY <1>1, <1>2, <1>3

\* A request is served or refused.
LEMMA RequestComes ==
  ASSUME NEW w, NEW a, NEW b, NEW d, NEW y,
         Talk("none", w, a, b, "request", d, "no", y)
  PROVE  /\ d = "none" /\ a = "none" /\ b = "none"
         /\ Talk("none", w, "ACK", "none", d, "none", "asked", y)
         /\ Talk("none", w, "REJECT", "none", d, "none", "no", y)
BY DEF Talk, Asks, Answered, Offering, Deciding, Refusing, Idle, Reports,
       Call, Tells, Order

\* It crosses with the node's own request, which is dropped.
LEMMA RequestCrosses ==
  ASSUME NEW w, NEW a, NEW b, NEW d, NEW y,
         Talk("SELFOPT_REQ_CORES_PENDING", w, a, b, "request", d, "no", y),
         NEW v \in Idle \cup Reports, Apart(v, w)
  PROVE  /\ b = "none"
         /\ Talk(v, w, First(a, Call(v)), Second(a, b, Call(v)),
                 d, "none", "no", y)
<1> USE DEF Talk, Asks, Answered, Offering, Deciding, Refusing, Idle, Reports,
            Call, First, Second, Apart, Asker
<1>1. CASE v \in Reports
  BY <1>1 DEF Tells, Order
<1>2. CASE v \notin Reports
  BY <1>2 DEF Tells, Order
<1> QED
  BY <1>1, <1>2

\* A request comes in no other stage.
LEMMA RequestStage ==
  ASSUME NEW v, NEW w, NEW a, NEW b, NEW d, NEW y,
         Talk(v, w, a, b, "request", d, "no", y)
  PROVE  v \in Idle
BY DEF Talk, Asks, Answered, Offering, Deciding, Refusing, Idle, Reports,
       Call, Tells, Order

\* An offer, of cores or of none, is collected or turned down.
LEMMA OfferComes ==
  ASSUME NEW v, NEW w, NEW a, NEW b, NEW c \in {"offer", "nothing"}, NEW d,
         NEW y, Talk(v, w, a, b, c, d, "no", y)
  PROVE  /\ v = "SELFOPT_REQ_CORES" /\ d = "none" /\ a = "none" /\ b = "none"
         /\ \A u \in Idle \cup Reports :
              /\ Talk(u, w, "REJECT", Call(u), d, "none", "no", y)
              /\ c = "nothing" =>
                   Talk(u, w, "ACK", Call(u), d, "none", "no", y)
         /\ c = "offer" =>
              Talk(v, w, "ACK", "none", d, "none", "offered", y)
BY DEF Talk, Asks, Answered, Offering, Deciding, Refusing, Idle, Reports,
       Call, Tells, Order

LEMMA OfferEnds ==
  ASSUME NEW v, NEW w, NEW a, NEW b, NEW c, NEW d, NEW y,
         Talk(v, w, a, b, c, d, "no", y), c \in {"offer", "nothing"},
         NEW u, u \in Idle \cup Reports
  PROVE  /\ v = "SELFOPT_REQ_CORES" /\ a = "none" /\ b = "none"
         /\ Talk(u, w, "REJECT", Call(u), d, "none", "no", y)
         /\ c = "nothing" => Talk(u, w, "ACK", Call(u), d, "none", "no", y)
BY OfferComes

\* The data for a request are there, and an offer is made.
LEMMA RegionComes ==
  ASSUME NEW w, NEW a, NEW b, NEW c, NEW d, NEW x \in {"request", "cores"},
         NEW y, Talk("none", w, a, b, c, d, x, y)
  PROVE  /\ w = "SELFOPT_REQ_CORES" /\ a = "none" /\ b = "none"
         /\ \A u \in {"offer", "nothing"} : Talk(u, w, u, "none", c, d, "no", y)
BY DEF Talk, Asks, Answered, Offering, Deciding, Refusing, Idle, Reports,
       Call, Tells, Order

\* The cores of an offer are there.
LEMMA CoresCome ==
  ASSUME NEW w, NEW a, NEW b, NEW c, NEW d, NEW x \in {"request", "cores"},
         NEW y, Talk("SELFOPT_REQ_CORES", w, a, b, c, d, x, y)
  PROVE  x = "cores" /\ Talk("REP_AGENT_OFFER_PENDING", w, a, b, c, d, "no", y)
BY DEF Talk, Asks, Answered, Offering, Deciding, Refusing, Idle, Reports,
       Call, Tells, Order

\* A node decides about an offer.
LEMMA OfferDecided ==
  ASSUME NEW w, NEW a, NEW b, NEW c, NEW d, NEW x, NEW y,
         Talk("REP_AGENT_OFFER_PENDING", w, a, b, c, d, x, y)
  PROVE  /\ a = "none" /\ b = "none"
         /\ Talk("REP_AGENT_OFFER_SENT", w, "REP_OFFERS", "none", c, d, x, y)
BY DEF Talk, Asks, Answered, Offering, Deciding, Refusing, Idle, Reports,
       Call, Tells, Order

\* An ACK comes of a peer that waits for data.
LEMMA AckAsksData ==
  ASSUME NEW v \in {"SELFOPT_REQ_CORES_PENDING", "offer"}, NEW w, NEW a,
         NEW b, NEW d, NEW y, Talk(v, w, a, b, "ACK", d, "no", y)
  PROVE  /\ d = "none" /\ a = "none" /\ b = "none"
         /\ y = IF v = "offer" THEN "offered" ELSE "asked"
         /\ v = "offer" => Talk("AGENT_OFFER_SENT", w, a, b, d, "none", "no",
                                "cores")
         /\ v # "offer" => Talk("SELFOPT_REQ_CORES", w, a, b, d, "none", "no",
                                "request")
BY DEF Talk, Asks, Answered, Offering, Deciding, Refusing, Idle, Reports,
       Call, Tells, Order

\* Any other ACK ends the interaction.
LEMMA AckEnds ==
  ASSUME NEW v, v \notin {"SELFOPT_REQ_CORES_PENDING", "offer"}, NEW w,
         NEW a, NEW b, NEW d, NEW y, Talk(v, w, a, b, "ACK", d, "no", y),
         NEW u \in Idle \cup Reports, Apart(u, w)
  PROVE  /\ b = "none" /\ v \in {"REP_AGENT_OFFER_SENT", "nothing"} \cup Reports
         /\ Talk(u, w, First(a, Call(u)), Second(a, b, Call(u)), d, "none",
                 "no", y)
<1> USE DEF Talk, Asks, Answered, Offering, Deciding, Refusing, Idle, Reports,
            Call, First, Second, Apart, Asker
<1>1. CASE ~ (Tells(v, w, a, b, "ACK", d) /\ y = "no")
  BY <1>1 DEF Tells, Order
<1>2. CASE Tells(v, w, a, b, "ACK", d) /\ y = "no"
  BY <1>2 DEF Tells, Order
<1> QED
  BY <1>1, <1>2

\* The answer to an offer ends it for the one that made it.
LEMMA AnswerComes ==
  ASSUME NEW v, NEW w, NEW a, NEW b, NEW d, NEW y,
         Talk(v, w, a, b, "REP_OFFERS", d, "no", y),
         NEW u \in Idle \cup Reports, Apart(u, w)
  PROVE  /\ v = "AGENT_OFFER_SENT" /\ w = "REP_AGENT_OFFER_SENT"
         /\ d = "none" /\ a = "none" /\ b = "none"
         /\ Talk(u, w, "ACK", Call(u), d, "none", "no", y)
BY DEF Talk, Asks, Answered, Offering, Deciding, Refusing, Idle, Reports,
       Call, Tells, Order, Apart, Asker

\* A rejection ends a request or an offer.
LEMMA RejectComes ==
  ASSUME NEW v, NEW w, NEW a, NEW b, NEW d, NEW y,
         Talk(v, w, a, b, "REJECT", d, "no", y),
         NEW u \in Idle \cup Reports, Apart(u, w)
  PROVE  /\ v \in {"SELFOPT_REQ_CORES_PENDING", "offer", "nothing"}
         /\ a = "none" /\ b = "none"
         /\ Talk(u, w, Call(u), "none", d, "none", "no", y)
<1> USE DEF Talk, Asks, Answered, Offering, Deciding, Refusing, Idle, Reports,
            Call, Apart, Asker
<1>1. /\ v \in {"SELFOPT_REQ_CORES_PENDING", "offer", "nothing"}
      /\ a = "none" /\ b = "none" /\ d = Call(w) /\ y = "no"
      /\ w \in Idle \cup Reports
  BY DEF Tells, Order
<1>2. CASE u \in Reports \/ w \in Reports
  BY <1>1, <1>2 DEF Tells, Order
<1>3. CASE u \notin Reports /\ w \notin Reports
  BY <1>1, <1>3
<1> QED
  BY <1>2, <1>3

\* A report is acknowledged, whatever the other is about.
LEMMA ReportComes ==
  ASSUME NEW v, NEW w, NEW a, NEW b, NEW d, NEW y,
         NEW c \in {"ADD_CORES_DDS", "REM_CORES_DDS", "FINISH"},
         Talk(v, w, a, b, c, d, "no", y)
  PROVE  /\ b = "none" /\ w \in Reports /\ v \in {"none"} \cup Reports
         /\ Talk(v, w, First(a, "ACK"), Second(a, b, "ACK"), d, "none", "no", y)
<1> USE DEF Talk, Asks, Answered, Offering, Deciding, Refusing, Idle, Reports,
            Call, First, Second
<1>1. Tells(v, w, a, b, c, d) /\ y = "no"
  OBVIOUS
<1>2. PICK s \in {"none", "ACK"}, t \in {"none", "ACK"} :
        /\ s = "ACK" => w \in Reports
        /\ t = "ACK" => v \in Reports
        /\ Order(IF t = "ACK" THEN "none" ELSE Call(v), s, a, b)
        /\ Order(IF s = "ACK" THEN "none" ELSE Call(w), t, c, d)
  BY <1>1 DEF Tells
<1>3. w \in Reports /\ v \in {"none"} \cup Reports /\ s = "none"
  BY <1>1, <1>2 DEF Tells, Order
<1>4. b = "none" /\ a = IF t = "ACK" THEN "none" ELSE Call(v)
  BY <1>2, <1>3 DEF Order
<1>5. Order(a, "ACK", First(a, "ACK"), Second(a, b, "ACK"))
  <2>1. CASE a = "none"
    BY <1>4, <2>1 DEF Order
  <2>2. CASE a # "none"
    BY <1>4, <2>2 DEF Order
  <2> QED
    BY <2>1, <2>2
<1>6. Order("none", t, d, "none")
  BY <1>2, <1>3 DEF Order
<1>7. Tells(v, w, First(a, "ACK"), Second(a, b, "ACK"), d, "none")
  BY <1>2, <1>3, <1>4, <1>5, <1>6 DEF Tells
<1> QED
  BY <1>1, <1>3, <1>4, <1>7

\* Who has nothing to say to itself hears nothing from itself.
LEMMA Alone ==
  ASSUME NEW a, NEW b, NEW c, NEW d, NEW x, NEW y,
         Talk("none", "none", a, b, c, d, x, y)
  PROVE  a = "none" /\ c = "none" /\ x = "no" /\ y = "no"
BY DEF Talk, Asks, Answered, Offering, Deciding, Refusing, Idle, Reports,
       Call, Tells, Order
-----------------------------------------------------------------------------
(* Lists of signals and queues of interactions.                              *)

Sigs == {"REQ_CORES", "ACK", "REJECT", "REP_OFFERS", "ADD_CORES_DDS",
         "REM_CORES_DDS", "FINISH", "APP_TERMINATED"}
Message(m) ==
  /\ m.sig \in Sigs
  /\ m.sig = "REQ_CORES" => m.body \in {"request", "offers"}

IsSeq(q) == \E S : q \in Seq(S)
Listed(q) ==
  IsSeq(q) /\ \A i \in DOMAIN q : q[i].from \in Node /\ Message(q[i].msg)

\* The interactions that n may have with p, the ones not at the head being
\* requests and reports that wait for their turn.
Waiting == {"SELFOPT_REQ_CORES_PENDING"} \cup Reports
Offers == {"REP_AGENT_REQ_CORES", "AGENT_OFFER_SENT"}
May(n, p) ==
  IF n = p THEN {}
  ELSE (IF n \in Agent THEN Asker ELSE {})
         \cup (IF p \in Agent THEN Offers ELSE Reports)
Queued(q, n, p) ==
  /\ IsSeq(q)
  /\ \A i \in DOMAIN q :
       /\ q[i].type \in May(n, p)
       /\ i # 1 => q[i].type \in Waiting

\* List r is q with a signal of kind k from n, or without one that counts.
Extends(q, r, n, k) ==
  IF k = "none"
  THEN r = q \/ r = Append(q, [from |-> n, msg |-> [sig |-> "APP_TERMINATED"]])
  ELSE \E m : /\ r = Append(q, [from |-> n, msg |-> m])
              /\ Message(m) /\ Kind(m) = k /\ m.sig # "APP_TERMINATED"

LEMMA Appending ==
  ASSUME NEW q, NEW s, IsSeq(q)
  PROVE  LET r == Append(q, s)
         IN  /\ IsSeq(r) /\ Len(q) \in Nat /\ DOMAIN q = 1..Len(q)
             /\ DOMAIN r = 1..(Len(q) + 1) /\ Len(r) = Len(q) + 1
             /\ r[Len(q) + 1] = s /\ \A i \in 1..Len(q) : r[i] = q[i]
<1>1. PICK S : q \in Seq(S)
  BY DEF IsSeq
<1> DEFINE T == S \cup {s}
<1>2. q \in Seq(T) /\ s \in T
  BY <1>1
<1> HIDE DEF T
<1>3. Append(q, s) \in Seq(T)
  BY <1>2
<1>4. IsSeq(Append(q, s))
  BY <1>3 DEF IsSeq
<1> QED
  BY <1>2, <1>4

LEMMA Shortening ==
  ASSUME NEW q, IsSeq(q), q # <<>>
  PROVE  /\ IsSeq(Tail(q)) /\ Len(q) \in Nat \ {0} /\ DOMAIN q = 1..Len(q)
         /\ Head(q) = q[1] /\ DOMAIN Tail(q) = 1..(Len(q) - 1)
         /\ Len(Tail(q)) = Len(q) - 1
         /\ \A i \in 1..(Len(q) - 1) : Tail(q)[i] = q[i + 1]
<1>1. PICK S : q \in Seq(S)
  BY DEF IsSeq
<1>2. Tail(q) \in Seq(S)
  BY <1>1
<1>3. IsSeq(Tail(q))
  BY <1>2 DEF IsSeq
<1> QED
  BY <1>1, <1>3

LEMMA LineExtends ==
  ASSUME NEW q, NEW r, NEW n \in Node, NEW k, Listed(q), Extends(q, r, n, k)
  PROVE  /\ Listed(r)
         /\ \A m, a, b : m # n /\ Line(q, m, a, b) => Line(r, m, a, b)
         /\ \A a, b : Line(q, n, a, b) /\ (k = "none" \/ b = "none") =>
              Line(r, n, First(a, k), Second(a, b, k))
<1>1. CASE r = q /\ k = "none"
  BY <1>1 DEF First, Second
<1>2. ASSUME NEW m, r = Append(q, [from |-> n, msg |-> m]), Message(m),
             IF k = "none" THEN m.sig = "APP_TERMINATED"
             ELSE m.sig # "APP_TERMINATED" /\ Kind(m) = k
      PROVE  /\ Listed(r)
             /\ \A l, a, b : l # n /\ Line(q, l, a, b) => Line(r, l, a, b)
             /\ \A a, b : Line(q, n, a, b) /\ (k = "none" \/ b = "none") =>
                  Line(r, n, First(a, k), Second(a, b, k))
  <2> DEFINE s == [from |-> n, msg |-> m]
             N == Len(q) + 1
  <2>1. /\ IsSeq(r) /\ Len(q) \in Nat /\ DOMAIN q = 1..Len(q)
        /\ DOMAIN r = 1..N
        /\ r[N] = s /\ \A i \in 1..Len(q) : r[i] = q[i]
    BY <1>2, Appending DEF Listed
  <2>2. s.from = n /\ s.msg = m
    OBVIOUS
  <2> HIDE DEF s
  <2>3. Listed(r)
    BY <1>2, <2>1, <2>2 DEF Listed
  <2>4. /\ DOMAIN r = DOMAIN q \cup {N} /\ N \notin DOMAIN q
        /\ \A i \in DOMAIN q : r[i] = q[i] /\ i < N
    BY <2>1
  <2> HIDE DEF N
  <2>5. \A l : From(r, l) = From(q, l) \cup
                 (IF l = n /\ k # "none" THEN {N} ELSE {})
    BY <1>2, <2>1, <2>2, <2>4 DEF From
  <2>6. \A l, a, b : (l # n \/ k = "none") /\ Line(q, l, a, b) => Line(r, l, a, b)
    <3> SUFFICES ASSUME NEW l, NEW a, NEW b, l # n \/ k = "none",
                        Line(q, l, a, b)
                 PROVE  Line(r, l, a, b)
      OBVIOUS
    <3>1. From(r, l) = From(q, l)
      BY <2>5
    <3> QED
      BY <2>4, <3>1 DEF Line
  <2>7. ASSUME NEW a, NEW b, Line(q, n, a, b), k # "none", b = "none"
        PROVE  Line(r, n, First(a, k), Second(a, b, k))
    <3>1. From(r, n) = From(q, n) \cup {N} /\ Kind(r[N].msg) = k
      BY <1>2, <2>1, <2>2, <2>5, <2>7
    <3>2. CASE a = "none"
      BY <2>4, <2>7, <3>1, <3>2 DEF Line, First, Second
    <3>3. CASE a # "none"
      <4>1. PICK i \in DOMAIN q : From(q, n) = {i} /\ Kind(q[i].msg) = a
        BY <2>7, <3>3 DEF Line
      <4>2. /\ i \in DOMAIN r /\ N \in DOMAIN r /\ i < N /\ From(r, n) = {i, N}
            /\ Kind(r[i].msg) = a
        BY <2>4, <3>1, <4>1
      <4> QED
        BY <2>7, <3>1, <3>3, <4>2 DEF Line, First, Second
    <3> QED
      BY <3>2, <3>3
  <2> QED
    BY <2>3, <2>6, <2>7 DEF First, Second
<1>3. CASE k = "none" /\ r # q
  BY <1>2, <1>3 DEF Extends, Message, Sigs
<1>4. CASE k # "none"
  BY <1>2, <1>4 DEF Extends
<1> QED
  BY <1>1, <1>3, <1>4

\* The oldest signal of a list is handled.
LEMMA LineTaken ==
  ASSUME NEW q, Listed(q), q # <<>>
  PROVE  /\ Listed(Tail(q)) /\ Head(q).from \in Node /\ Message(Head(q).msg)
         /\ \A m, a, b :
              /\ m # Head(q).from \/ Head(q).msg.sig = "APP_TERMINATED"
              /\ Line(q, m, a, b)
              => Line(Tail(q), m, a, b)
         /\ \A a, b :
              /\ Head(q).msg.sig # "APP_TERMINATED"
              /\ Line(q, Head(q).from, a, b)
              => /\ a = Kind(Head(q).msg) /\ a # "none"
                 /\ Line(Tail(q), Head(q).from, b, "none")
<1> DEFINE r == Tail(q)
           h == Head(q)
<1>1. /\ IsSeq(r) /\ Len(q) \in Nat \ {0} /\ DOMAIN q = 1..Len(q)
      /\ h = q[1] /\ DOMAIN r = 1..(Len(q) - 1)
      /\ \A i \in 1..(Len(q) - 1) : r[i] = q[i + 1]
  BY Shortening DEF Listed
<1> HIDE DEF r, h
<1>2. /\ 1 \in DOMAIN q
      /\ \A i \in DOMAIN r : i + 1 \in DOMAIN q /\ i + 1 # 1 /\ r[i] = q[i + 1]
      /\ \A i \in DOMAIN q : i # 1 => i - 1 \in DOMAIN r /\ r[i - 1] = q[i]
      /\ DOMAIN r \subseteq Nat /\ DOMAIN q \subseteq Nat
      /\ \A i \in DOMAIN q : i >= 1
  BY <1>1
<1>3. Listed(r) /\ h.from \in Node /\ Message(h.msg)
  BY <1>1, <1>2 DEF Listed
<1>4. \A m : /\ \A i \in From(r, m) : i + 1 \in From(q, m) /\ i + 1 # 1
             /\ \A i \in From(q, m) : i # 1 => i - 1 \in From(r, m)
  BY <1>2 DEF From
<1>5. \A m : 1 \in From(q, m) <=> h.from = m /\ h.msg.sig # "APP_TERMINATED"
  BY <1>1, <1>2 DEF From
<1>6. ASSUME NEW m, NEW a, NEW b, Line(q, m, a, b), 1 \notin From(q, m)
      PROVE  Line(r, m, a, b)
  <2>1. CASE a = "none"
    BY <1>4, <1>6, <2>1 DEF Line
  <2>2. CASE a # "none" /\ b = "none"
    <3>1. PICK i \in DOMAIN q : From(q, m) = {i} /\ Kind(q[i].msg) = a
      BY <1>6, <2>2 DEF Line
    <3>2. i # 1 /\ i \in Nat
      BY <1>2, <1>6, <3>1
    <3>3. i - 1 \in DOMAIN r /\ r[i - 1] = q[i]
      BY <1>2, <3>1, <3>2
    <3>4. From(r, m) = {i - 1}
      <4>1. i - 1 \in From(r, m)
        BY <1>4, <3>1, <3>2
      <4>2. ASSUME NEW j \in From(r, m) PROVE j = i - 1
        <5>1. j + 1 = i /\ j \in Nat
          BY <1>2, <1>4, <3>1 DEF From
        <5> QED
          BY <3>2, <5>1
      <4> QED
        BY <4>1, <4>2
    <3> QED
      BY <2>2, <3>1, <3>3, <3>4 DEF Line
  <2>3. CASE a # "none" /\ b # "none"
    <3>1. PICK i \in DOMAIN q, j \in DOMAIN q :
            /\ i < j /\ From(q, m) = {i, j}
            /\ Kind(q[i].msg) = a /\ Kind(q[j].msg) = b
      BY <1>6, <2>3 DEF Line
    <3>2. i # 1 /\ j # 1 /\ i \in Nat /\ j \in Nat
      BY <1>2, <1>6, <3>1
    <3>3. /\ i - 1 \in DOMAIN r /\ r[i - 1] = q[i] /\ i - 1 < j - 1
          /\ j - 1 \in DOMAIN r /\ r[j - 1] = q[j]
      BY <1>2, <3>1, <3>2
    <3>4. From(r, m) = {i - 1, j - 1}
      <4>1. i - 1 \in From(r, m) /\ j - 1 \in From(r, m)
        BY <1>4, <3>1, <3>2
      <4>2. ASSUME NEW l \in From(r, m) PROVE l \in {i - 1, j - 1}
        <5>1. l + 1 \in {i, j} /\ l \in Nat
          BY <1>2, <1>4, <3>1 DEF From
        <5> QED
          BY <3>2, <5>1
      <4> QED
        BY <4>1, <4>2
    <3> QED
      BY <2>3, <3>1, <3>3, <3>4 DEF Line
  <2> QED
    BY <1>6, <2>1, <2>2, <2>3 DEF Line
<1>7. ASSUME NEW m, NEW a, NEW b, Line(q, m, a, b), 1 \in From(q, m)
      PROVE  a = Kind(h.msg) /\ a # "none" /\ Line(r, m, b, "none")
  <2>1. CASE a = "none"
    BY <1>7, <2>1 DEF Line
  <2>2. CASE a # "none" /\ b = "none"
    <3>1. PICK i \in DOMAIN q : From(q, m) = {i} /\ Kind(q[i].msg) = a
      BY <1>7, <2>2 DEF Line
    <3>2. i = 1
      BY <1>7, <3>1
    <3>3. From(r, m) = {}
      <4> SUFFICES ASSUME NEW j \in From(r, m) PROVE FALSE
        OBVIOUS
      <4>1. j + 1 \in From(q, m) /\ j + 1 # 1
        BY <1>4
      <4> QED
        BY <3>1, <3>2, <4>1
    <3> QED
      BY <1>1, <2>2, <3>1, <3>2, <3>3 DEF Line
  <2>3. CASE a # "none" /\ b # "none"
    <3>1. PICK i \in DOMAIN q, j \in DOMAIN q :
            /\ i < j /\ From(q, m) = {i, j}
            /\ Kind(q[i].msg) = a /\ Kind(q[j].msg) = b
      BY <1>7, <2>3 DEF Line
    <3>2. i = 1 /\ j # 1 /\ j \in Nat
      BY <1>2, <1>7, <3>1
    <3>3. j - 1 \in DOMAIN r /\ r[j - 1] = q[j]
      BY <1>2, <3>1, <3>2
    <3>4. From(r, m) = {j - 1}
      <4>1. j - 1 \in From(r, m)
        BY <1>4, <3>1, <3>2
      <4>2. ASSUME NEW l \in From(r, m) PROVE l = j - 1
        <5>1. l + 1 \in From(q, m) /\ l + 1 # 1 /\ l \in Nat
          BY <1>2, <1>4 DEF From
        <5>2. l + 1 = j
          BY <3>1, <3>2, <5>1
        <5> QED
          BY <5>1, <5>2
      <4> QED
        BY <4>1, <4>2
    <3> QED
      BY <1>1, <2>3, <3>1, <3>2, <3>3, <3>4 DEF Line
  <2> QED
    BY <1>7, <2>1, <2>2, <2>3 DEF Line
<1>8. \A m, a, b : Line(q, m, a, b) /\ 1 \notin From(q, m) => Line(r, m, a, b)
  BY <1>6
<1>9. \A m, a, b : Line(q, m, a, b) /\ 1 \in From(q, m) =>
        a = Kind(h.msg) /\ a # "none" /\ Line(r, m, b, "none")
  BY <1>7
<1> QED
  BY <1>3, <1>5, <1>8, <1>9 DEF r, h
-----------------------------------------------------------------------------
(* The invariant.                                                            *)

\* What passes between n and p fits.
Talked(n, p) ==
  \E a, b, c, d :
    /\ Line(mail[p], n, a, b) /\ Line(mail[n], p, c, d)
    /\ Talk(Stage(n, p), Stage(p, n), a, b, c, d, Blocked(n, p), Blocked(p, n))

Shaped ==
  /\ DOMAIN inter = Node /\ DOMAIN mail = Node
  /\ DOMAIN waiting = Node /\ DOMAIN data = Node
  /\ \A n \in Node : DOMAIN inter[n] = Node
Queues == \A n, p \in Node : Queued(inter[n][p], n, p)
Lists == \A n \in Node : Listed(mail[n])
Waits ==
  \A n \in Node : waiting[n] # NoSignal =>
    waiting[n].from \in Node /\ waiting[n].msg.body \in {"request", "offers"}

\* The data in an area are what its node waits for.
Area(n) ==
  \/ data[n] = <<>>
  \/ /\ waiting[n] # NoSignal
     /\ \E d : /\ data[n] = <<d>> /\ d.from = waiting[n].from
               /\ (waiting[n].msg.body = "offers") <=> (d.cores # {})

IInv ==
  /\ Shaped /\ Queues /\ Lists /\ Waits
  /\ \A n \in Node : Area(n)
  /\ \A n, p \in Node : Talked(n, p)
-----------------------------------------------------------------------------
(* Queues.                                                                   *)

LEMMA TopIs ==
  ASSUME NEW q, NEW n \in Node, NEW p \in Node, Queued(q, n, p)
  PROVE  /\ Top(q) = "none" <=> q = <<>>
         /\ q # <<>> => Head(q).type \in May(n, p) /\ q[1] = Head(q)
         /\ q # <<>> /\ Head(q).type # "REP_AGENT_REQ_CORES" =>
              Top(q) = Head(q).type
         /\ q # <<>> /\ Head(q).type = "REP_AGENT_REQ_CORES" =>
              Top(q) = IF Head(q).cores # {} THEN "offer" ELSE "nothing"
<1>1. ASSUME q # <<>>
      PROVE  q[1] = Head(q) /\ 1 \in DOMAIN q
  BY <1>1, Shortening DEF Queued
<1>2. ASSUME q # <<>> PROVE Head(q).type \in May(n, p)
  BY <1>1, <1>2 DEF Queued
<1>3. "none" \notin May(n, p)
  BY DEF May, Asker, Offers, Reports
<1> QED
  BY <1>1, <1>2, <1>3 DEF Top

\* Both sides of a pair cannot be askers and tellers at once.
LEMMA Fit ==
  ASSUME NEW q, NEW r, NEW n \in Node, NEW p \in Node,
         Queued(q, n, p), Queued(r, p, n)
  PROVE  /\ Apart(Top(q), Top(r))
         /\ \A v \in May(n, p) : Apart(v, Top(r))
<1>1. \A v \in {"none", "offer", "nothing"} \cup May(n, p),
         w \in {"none", "offer", "nothing"} \cup May(p, n) : Apart(v, w)
  BY DEF May, Asker, Offers, Reports, Apart, Node
<1>2. Top(q) \in {"none", "offer", "nothing"} \cup May(n, p)
  BY TopIs
<1>3. Top(r) \in {"none", "offer", "nothing"} \cup May(p, n)
  BY TopIs
<1> QED
  BY <1>1, <1>2, <1>3

\* An interaction is added.
LEMMA QueueGrows ==
  ASSUME NEW q, NEW x, NEW n \in Node, NEW p \in Node, Queued(q, n, p),
         x.type \in May(n, p), q = <<>> \/ x.type \in Waiting
  PROVE  /\ Queued(Append(q, x), n, p)
         /\ q # <<>> => Top(Append(q, x)) = Top(q)
         /\ q # <<>> => /\ Append(q, x) # <<>> /\ Head(Append(q, x)) = Head(q)
                        /\ Tail(Append(q, x)) = Append(Tail(q), x)
         /\ q = <<>> => Append(q, x) # <<>> /\ Head(Append(q, x)) = x
<1> DEFINE r == Append(q, x)
<1>1. /\ IsSeq(r) /\ Len(q) \in Nat /\ DOMAIN q = 1..Len(q)
      /\ DOMAIN r = 1..(Len(q) + 1) /\ Len(r) = Len(q) + 1
      /\ r[Len(q) + 1] = x /\ \A i \in 1..Len(q) : r[i] = q[i]
  BY Appending DEF Queued
<1>2. PICK S : q \in Seq(S) /\ x \in S
  <2>1. PICK S : q \in Seq(S)
    BY DEF Queued, IsSeq
  <2>2. q \in Seq(S \cup {x})
    BY <2>1
  <2> QED
    BY <2>2
<1>3. r \in Seq(S) /\ r # <<>> /\ (q = <<>> <=> Len(q) = 0) /\ r[1] = Head(r)
  <2>1. r \in Seq(S) /\ Len(r) = Len(q) + 1 /\ Len(q) \in Nat
    BY <1>2
  <2>2. r # <<>> /\ r[1] = Head(r)
    <3> HIDE DEF r
    <3>1. r # <<>> /\ Len(r) > 0
      BY <2>1
    <3> QED
      BY <2>1, <3>1
  <2>3. q = <<>> <=> Len(q) = 0
    BY <1>2
  <2> QED
    BY <2>1, <2>2, <2>3
<1>4. Queued(r, n, p)
  BY <1>1, <1>3 DEF Queued
<1>5. ASSUME q # <<>>
      PROVE  Head(r) = Head(q) /\ Tail(r) = Append(Tail(q), x)
  BY <1>2, <1>5
<1>6. q = <<>> => Head(r) = x
  BY <1>1, <1>3
<1> QED
  BY <1>3, <1>4, <1>5, <1>6 DEF Top

\* The head is replaced by what it has become.
LEMMA QueueGoesOn ==
  ASSUME NEW q, NEW x, NEW n \in Node, NEW p \in Node, Queued(q, n, p),
         q # <<>>, x.type \in May(n, p)
  PROVE  /\ Queued(<<x>> \o Tail(q), n, p)
         /\ <<x>> \o Tail(q) # <<>> /\ Head(<<x>> \o Tail(q)) = x
<1>1. PICK S : q \in Seq(S) /\ x \in S
  <2>1. PICK S : q \in Seq(S)
    BY DEF Queued, IsSeq
  <2>2. q \in Seq(S \cup {x})
    BY <2>1
  <2> QED
    BY <2>2
<1>2. Tail(q) \in Seq(S) /\ Len(Tail(q)) = Len(q) - 1 /\ Len(q) \in Nat \ {0}
  BY <1>1
<1> DEFINE r == <<x>> \o Tail(q)
<1>3. /\ r \in Seq(S) /\ Len(r) = Len(q) /\ r[1] = x
      /\ \A i \in 2..Len(q) : r[i] = q[i]
  BY <1>1, <1>2
<1>4. r # <<>> /\ Head(r) = x
  BY <1>2, <1>3
<1> HIDE DEF r
<1>5. DOMAIN q = 1..Len(q) /\ DOMAIN r = 1..Len(q) /\ IsSeq(r)
  BY <1>1, <1>3 DEF IsSeq
<1>6. Queued(r, n, p)
  BY <1>2, <1>3, <1>5 DEF Queued
<1> QED
  BY <1>4, <1>6 DEF r

\* The head is over: what comes now is a request or a report.
LEMMA QueueShrinks ==
  ASSUME NEW q, NEW n \in Node, NEW p \in Node, Queued(q, n, p), q # <<>>
  PROVE  /\ Queued(Tail(q), n, p)
         /\ Tail(q) # <<>> => Head(Tail(q)).type \in Waiting
         /\ Top(Tail(q)) \in Idle \cup Reports
         /\ Tail(q) # <<>> => Top(Tail(q)) = Head(Tail(q)).type
<1>1. /\ IsSeq(Tail(q)) /\ Len(q) \in Nat \ {0} /\ DOMAIN q = 1..Len(q)
      /\ DOMAIN Tail(q) = 1..(Len(q) - 1)
      /\ \A i \in 1..(Len(q) - 1) : Tail(q)[i] = q[i + 1]
  BY Shortening DEF Queued
<1>2. \A i \in DOMAIN Tail(q) :
        /\ i + 1 \in DOMAIN q /\ i + 1 # 1 /\ Tail(q)[i] = q[i + 1]
  BY <1>1
<1>3. \A i \in DOMAIN Tail(q) :
        Tail(q)[i].type \in May(n, p) /\ Tail(q)[i].type \in Waiting
  BY <1>2 DEF Queued
<1>4. Queued(Tail(q), n, p)
  BY <1>1, <1>3 DEF Queued
<1>5. ASSUME Tail(q) # <<>>
      PROVE  Head(Tail(q)).type \in Waiting
  <2>1. 1 \in DOMAIN Tail(q) /\ Head(Tail(q)) = Tail(q)[1]
    BY <1>1, <1>5, Shortening
  <2> QED
    BY <1>3, <2>1
<1>6. Tail(q) # <<>> => Top(Tail(q)) = Head(Tail(q)).type
  BY <1>5 DEF Top, Waiting, Reports
<1> QED
  BY <1>4, <1>5, <1>6 DEF Top, Waiting, Idle

\* The signal of an interaction says what it is.
LEMMA Signals ==
  ASSUME NEW x
  PROVE  /\ x.type \in Waiting =>
              /\ Message(SignalOf(x)) /\ Kind(SignalOf(x)) = Call(x.type)
              /\ SignalOf(x).sig # "APP_TERMINATED" /\ Call(x.type) # "none"
         /\ x.type = "REP_AGENT_REQ_CORES" =>
              /\ Message(SignalOf(x)) /\ SignalOf(x).sig # "APP_TERMINATED"
              /\ Kind(SignalOf(x)) = IF x.cores # {} THEN "offer" ELSE "nothing"
         /\ x.type = "REP_AGENT_OFFER_SENT" =>
              /\ Message(SignalOf(x)) /\ SignalOf(x).sig # "APP_TERMINATED"
              /\ Kind(SignalOf(x)) = "REP_OFFERS"
BY DEF SignalOf, Waiting, Reports, Message, Sigs, Kind, Call
-----------------------------------------------------------------------------
(* What the calls of a handler do to the queues and lists.                   *)

IsNet(net) ==
  /\ net = [inter |-> net.inter, mail |-> net.mail]
  /\ DOMAIN net.inter = Node /\ DOMAIN net.mail = Node
  /\ \A m \in Node : DOMAIN net.inter[m] = Node

\* Between net and r, node n has changed its queue for p and sent p signals.
OnlyWith(net, r, n, p) ==
  /\ \A m \in Node : m # n => r.inter[m] = net.inter[m]
  /\ \A m \in Node : m # p =>
       r.inter[n][m] = net.inter[n][m] /\ r.mail[m] = net.mail[m]

LEMMA NetIs ==
  ASSUME NEW I, NEW M, DOMAIN I = Node, DOMAIN M = Node,
         \A m \in Node : DOMAIN I[m] = Node
  PROVE  LET r == [inter |-> I, mail |-> M]
         IN  IsNet(r) /\ r.inter = I /\ r.mail = M
BY DEF IsNet

\* The list of p is set to l, the queue of n for p to q.
Sends(net, r, n, p, s) == r = Send(net, n, p, s)
Mails(net, r, p, l) == r = [net EXCEPT !.mail[p] = l]
Keeps(net, r, n, p, q) == r = [net EXCEPT !.inter[n][p] = q]

LEMMA MailIs ==
  ASSUME NEW net, IsNet(net), NEW p \in Node, NEW l, NEW r,
         Mails(net, r, p, l)
  PROVE  /\ IsNet(r) /\ r.inter = net.inter /\ r.mail[p] = l
         /\ \A m \in Node : m # p => r.mail[m] = net.mail[m]
<1> DEFINE M == [net.mail EXCEPT ![p] = l]
<1>1. r = [inter |-> net.inter, mail |-> M]
  BY DEF IsNet, Mails
<1>2. DOMAIN M = Node /\ M[p] = l /\ \A m \in Node : m # p => M[m] = net.mail[m]
  BY DEF IsNet
<1> HIDE DEF M
<1> QED
  BY <1>1, <1>2 DEF IsNet

\* The queue of n for p is set to q.
LEMMA SetIs ==
  ASSUME NEW net, IsNet(net), NEW n \in Node, NEW p \in Node, NEW q, NEW r,
         Keeps(net, r, n, p, q)
  PROVE  /\ IsNet(r) /\ OnlyWith(net, r, n, p) /\ r.mail = net.mail
         /\ r.inter[n][p] = q
<1> DEFINE I == [net.inter EXCEPT ![n] = [net.inter[n] EXCEPT ![p] = q]]
<1>1. r = [inter |-> I, mail |-> net.mail]
  BY DEF IsNet, Keeps
<1>2. /\ DOMAIN I = Node /\ \A m \in Node : DOMAIN I[m] = Node
      /\ I[n][p] = q /\ (\A m \in Node : m # n => I[m] = net.inter[m])
      /\ \A m \in Node : m # p => I[n][m] = net.inter[n][m]
  BY DEF IsNet
<1> HIDE DEF I
<1> QED
  BY <1>1, <1>2 DEF IsNet, OnlyWith

LEMMA NowIs ==
  ASSUME Shaped
  PROVE  IsNet(Net) /\ Net.inter = inter /\ Net.mail = mail
BY NetIs DEF Shaped, Net

LEMMA TakenIs ==
  ASSUME Shaped, NEW n \in Node
  PROVE  /\ IsNet(Taken(n)) /\ Taken(n).inter = inter
         /\ Taken(n).mail[n] = Tail(mail[n])
         /\ \A m \in Node : m # n => Taken(n).mail[m] = mail[m]
<1>1. IsNet(Net) /\ Net.inter = inter /\ Net.mail = mail
  BY NowIs
<1>2. Mails(Net, Taken(n), n, Tail(mail[n]))
  BY <1>1 DEF Taken, Mails
<1> QED
  BY <1>1, <1>2, MailIs

LEMMA SendIs ==
  ASSUME NEW net, IsNet(net), NEW n \in Node, NEW p \in Node, NEW s, NEW r,
         Sends(net, r, n, p, s)
  PROVE  /\ IsNet(r) /\ OnlyWith(net, r, n, p) /\ r.inter = net.inter
         /\ r.mail[p] = Append(net.mail[p], [from |-> n, msg |-> s])
<1> DEFINE l == Append(net.mail[p], [from |-> n, msg |-> s])
<1>1. Mails(net, r, p, l)
  BY DEF Sends, Send, Mails
<1> HIDE DEF l
<1>2. /\ IsNet(r) /\ r.inter = net.inter /\ r.mail[p] = l
      /\ \A m \in Node : m # p => r.mail[m] = net.mail[m]
  BY <1>1, MailIs
<1> QED
  BY <1>2 DEF OnlyWith, l

LEMMA ReheadIs ==
  ASSUME NEW net, IsNet(net), NEW n \in Node, NEW p \in Node, NEW x, NEW r,
         r = Rehead(net, n, p, x)
  PROVE  /\ IsNet(r) /\ OnlyWith(net, r, n, p) /\ r.mail = net.mail
         /\ r.inter[n][p] = <<x>> \o Tail(net.inter[n][p])
<1> DEFINE q == <<x>> \o Tail(net.inter[n][p])
<1>1. Keeps(net, r, n, p, q)
  BY DEF Rehead, Keeps
<1> HIDE DEF q
<1>2. /\ IsNet(r) /\ OnlyWith(net, r, n, p) /\ r.mail = net.mail
      /\ r.inter[n][p] = q
  BY <1>1, SetIs
<1> QED
  BY <1>2 DEF q

\* Signal s of kind k is one that counts.
Counts(s, k) == Message(s) /\ Kind(s) = k /\ s.sig # "APP_TERMINATED"

LEMMA Sent ==
  ASSUME NEW q, NEW r, NEW n, NEW s, NEW k, Counts(s, k), k # "none",
         r = Append(q, [from |-> n, msg |-> s])
  PROVE  Extends(q, r, n, k)
BY DEF Extends, Counts

LEMMA PopIs ==
  ASSUME NEW net, IsNet(net), NEW n \in Node, NEW p \in Node, NEW r,
         Queued(net.inter[n][p], n, p), net.inter[n][p] # <<>>,
         r = Pop(net, n, p)
  PROVE  /\ IsNet(r) /\ OnlyWith(net, r, n, p)
         /\ Queued(r.inter[n][p], n, p)
         /\ Top(r.inter[n][p]) \in Idle \cup Reports
         /\ Extends(net.mail[p], r.mail[p], n, Call(Top(r.inter[n][p])))
<1> DEFINE rest == Tail(net.inter[n][p])
           popped == [net EXCEPT !.inter[n][p] = rest]
           x == Head(rest)
<1>1. /\ Queued(rest, n, p) /\ Top(rest) \in Idle \cup Reports
      /\ rest # <<>> => x.type \in Waiting /\ Top(rest) = x.type
  BY QueueShrinks
<1>2. Keeps(net, popped, n, p, rest)
  BY DEF Keeps
<1>3. r = IF rest # <<>> /\ x.type \in SendsWhenNext
          THEN Send(popped, n, p, SignalOf(x)) ELSE popped
  BY DEF Pop
<1> HIDE DEF rest, popped, x
<1>4. /\ IsNet(popped) /\ OnlyWith(net, popped, n, p)
      /\ popped.mail = net.mail /\ popped.inter[n][p] = rest
  BY <1>2, SetIs
<1>5. CASE rest = <<>>
  <2>1. r = popped /\ Call(Top(rest)) = "none"
    BY <1>3, <1>5 DEF Top, Call
  <2> QED
    BY <1>1, <1>4, <2>1 DEF Extends
<1>6. CASE rest # <<>>
  <2>1. Sends(popped, r, n, p, SignalOf(x)) /\ x.type \in Waiting
    BY <1>1, <1>3, <1>6 DEF Waiting, Reports, SendsWhenNext, Sends
  <2>2. /\ IsNet(r) /\ OnlyWith(popped, r, n, p) /\ r.inter = popped.inter
        /\ r.mail[p] = Append(popped.mail[p], [from |-> n, msg |-> SignalOf(x)])
    <3>1. IsNet(popped) /\ Sends(popped, r, n, p, SignalOf(x))
      BY <1>4, <2>1
    <3> QED
      BY <3>1, SendIs
  <2>3. OnlyWith(net, r, n, p)
    BY <1>4, <2>2 DEF OnlyWith
  <2>4. Counts(SignalOf(x), Call(x.type)) /\ Call(x.type) # "none"
    BY <2>1, Signals DEF Counts
  <2>5. Extends(net.mail[p], r.mail[p], n, Call(x.type))
    BY <1>4, <2>2, <2>4, Sent
  <2>6. r.inter[n][p] = rest /\ Top(rest) = x.type
    BY <1>1, <1>4, <1>6, <2>2
  <2> QED
    BY <1>1, <2>2, <2>3, <2>5, <2>6
<1> QED
  BY <1>5, <1>6

\* Interaction x joins the queue, and its signal is sent where it is alone.
Joins(q, r, l, m, n, p) ==
  \E x : /\ x.type \in Waiting /\ x.type \in May(n, p) /\ r = Append(q, x)
         /\ IF q = <<>> THEN Extends(l, m, n, Call(x.type)) ELSE m = l

LEMMA Joining ==
  ASSUME NEW q, NEW l, NEW m, NEW n, NEW p, NEW x,
         x.type \in Waiting \cap May(n, p),
         m = IF q = <<>> THEN Append(l, [from |-> n, msg |-> SignalOf(x)]) ELSE l
  PROVE  Joins(q, Append(q, x), l, m, n, p)
<1>1. Counts(SignalOf(x), Call(x.type)) /\ Call(x.type) # "none"
  BY Signals DEF Counts
<1>2. q = <<>> => Extends(l, m, n, Call(x.type))
  BY <1>1, Sent
<1> QED
  BY <1>2 DEF Joins

Posts(net, r, n, p, x) == r = Post(net, n, p, x)
LEMMA PostIs ==
  ASSUME NEW net, IsNet(net), NEW n \in Node, NEW p \in Node, NEW x, NEW r,
         Posts(net, r, n, p, x)
  PROVE  /\ IsNet(r) /\ OnlyWith(net, r, n, p)
         /\ r.inter[n][p] = Append(net.inter[n][p], x)
         /\ r.mail[p] =
              IF net.inter[n][p] = <<>>
              THEN Append(net.mail[p], [from |-> n, msg |-> SignalOf(x)])
              ELSE net.mail[p]
<1> DEFINE q == Append(net.inter[n][p], x)
           queued == [net EXCEPT !.inter[n][p] = q]
<1>1. Keeps(net, queued, n, p, q)
  BY DEF Keeps
<1>2. r = IF net.inter[n][p] = <<>> THEN Send(queued, n, p, SignalOf(x))
          ELSE queued
  BY DEF Post, Posts
<1> HIDE DEF queued, q
<1>3. /\ IsNet(queued) /\ OnlyWith(net, queued, n, p)
      /\ queued.mail = net.mail /\ queued.inter[n][p] = q
  BY <1>1, SetIs
<1>4. CASE net.inter[n][p] = <<>>
  <2> DEFINE s == SignalOf(x)
  <2>1. Sends(queued, r, n, p, s)
    BY <1>2, <1>4 DEF Sends
  <2> HIDE DEF s
  <2>2. /\ IsNet(r) /\ OnlyWith(queued, r, n, p) /\ r.inter = queued.inter
        /\ r.mail[p] = Append(queued.mail[p], [from |-> n, msg |-> s])
    <3>1. IsNet(queued)
      BY <1>3
    <3> QED
      BY <2>1, <3>1, SendIs
  <2>3. OnlyWith(net, r, n, p)
    BY <1>3, <2>2 DEF OnlyWith
  <2> QED
    BY <1>3, <1>4, <2>2, <2>3 DEF q, s
<1>5. CASE net.inter[n][p] # <<>>
  BY <1>2, <1>3, <1>5 DEF q
<1> QED
  BY <1>4, <1>5

LEMMA PostAllParts ==
  ASSUME NEW net, IsNet(net), NEW n \in Node, NEW items, NEW r,
         r = PostAll(net, n, items)
  PROVE  /\ IsNet(r) /\ \A m \in Node : m # n => r.inter[m] = net.inter[m]
         /\ \A p \in Node : r.inter[n][p] =
              IF p \in DOMAIN items THEN Append(net.inter[n][p], items[p])
              ELSE net.inter[n][p]
         /\ \A p \in Node : r.mail[p] =
              IF p \in DOMAIN items /\ net.inter[n][p] = <<>>
              THEN Append(net.mail[p], [from |-> n, msg |-> SignalOf(items[p])])
              ELSE net.mail[p]
<1> DEFINE I == [net.inter EXCEPT ![n] = [p \in Node |->
                  IF p \in DOMAIN items THEN Append(net.inter[n][p], items[p])
                  ELSE net.inter[n][p]]]
           M == [p \in Node |->
                  IF p \in DOMAIN items /\ net.inter[n][p] = <<>>
                  THEN Append(net.mail[p],
                              [from |-> n, msg |-> SignalOf(items[p])])
                  ELSE net.mail[p]]
<1>1. r = [inter |-> I, mail |-> M]
  BY DEF PostAll
<1>2. DOMAIN I = Node /\ (\A m \in Node : DOMAIN I[m] = Node) /\ DOMAIN M = Node
  BY DEF IsNet
<1>3. /\ \A m \in Node : m # n => I[m] = net.inter[m]
      /\ \A p \in Node : I[n][p] =
           IF p \in DOMAIN items THEN Append(net.inter[n][p], items[p])
           ELSE net.inter[n][p]
      /\ \A p \in Node : M[p] =
           IF p \in DOMAIN items /\ net.inter[n][p] = <<>>
           THEN Append(net.mail[p], [from |-> n, msg |-> SignalOf(items[p])])
           ELSE net.mail[p]
  BY DEF IsNet
<1> HIDE DEF I, M
<1>4. r.inter = I /\ r.mail = M /\ IsNet(r)
  BY <1>1, <1>2, NetIs
<1> QED
  BY <1>3, <1>4

LEMMA PostAllIs ==
  ASSUME NEW net, IsNet(net), NEW n \in Node, NEW items, NEW r,
         \A p \in DOMAIN items : items[p].type \in Waiting \cap May(n, p),
         r = PostAll(net, n, items)
  PROVE  /\ IsNet(r) /\ \A m \in Node : m # n => r.inter[m] = net.inter[m]
         /\ \A p \in Node :
              IF p \in DOMAIN items
              THEN Joins(net.inter[n][p], r.inter[n][p], net.mail[p], r.mail[p],
                         n, p)
              ELSE r.inter[n][p] = net.inter[n][p] /\ r.mail[p] = net.mail[p]
<1>1. /\ IsNet(r) /\ \A m \in Node : m # n => r.inter[m] = net.inter[m]
      /\ \A p \in Node : r.inter[n][p] =
           IF p \in DOMAIN items THEN Append(net.inter[n][p], items[p])
           ELSE net.inter[n][p]
      /\ \A p \in Node : r.mail[p] =
           IF p \in DOMAIN items /\ net.inter[n][p] = <<>>
           THEN Append(net.mail[p], [from |-> n, msg |-> SignalOf(items[p])])
           ELSE net.mail[p]
  BY PostAllParts
<1>5. ASSUME NEW p \in Node, p \in DOMAIN items
      PROVE  Joins(net.inter[n][p], r.inter[n][p], net.mail[p], r.mail[p], n, p)
  <2> DEFINE x == items[p]
  <2>1. /\ x.type \in Waiting \cap May(n, p)
        /\ r.inter[n][p] = Append(net.inter[n][p], x)
        /\ r.mail[p] = IF net.inter[n][p] = <<>>
                  THEN Append(net.mail[p], [from |-> n, msg |-> SignalOf(x)])
                  ELSE net.mail[p]
    BY <1>1, <1>5
  <2> HIDE DEF x
  <2> QED
    BY <2>1, Joining
<1>6. \A p \in Node : p \notin DOMAIN items =>
        r.inter[n][p] = net.inter[n][p] /\ r.mail[p] = net.mail[p]
  BY <1>1
<1> QED
  BY <1>1, <1>1, <1>5, <1>6
-----------------------------------------------------------------------------
(* What a step of node n does to one pair.                                   *)

\* The queue, the signals and the handlers of n and p fit after the step, and
\* the signals of others to p are the same.
Fits(n, p) ==
  /\ Queued(inter'[n][p], n, p) /\ Listed(mail'[p])
  /\ \A l, a, b : l # n /\ Line(mail[p], l, a, b) => Line(mail'[p], l, a, b)
  /\ Talked(n, p)'

\* What n has not handled of p is the same.
Unread(n, p) == \A a, b : Line(mail[n], p, a, b) => Line(mail'[n], p, a, b)

\* The step is about others; a report or a request for p may join the queue.
Aside(n, p) ==
  \/ inter'[n][p] = inter[n][p] /\ Extends(mail[p], mail'[p], n, "none")
  \/ Joins(inter[n][p], inter'[n][p], mail[p], mail'[p], n, p)

LEMMA AsideFits ==
  ASSUME IInv, NEW n \in Node, NEW p \in Node, Aside(n, p), Unread(n, p),
         inter'[p] = inter[p], Blocked(n, p) = "no", Blocked(n, p)' = "no",
         Blocked(p, n)' = Blocked(p, n)
  PROVE  Fits(n, p)
<1> DEFINE v == Stage(n, p)
           w == Stage(p, n)
           y == Blocked(p, n)
<1>1. PICK a, b, c, d :
        /\ Line(mail[p], n, a, b) /\ Line(mail[n], p, c, d)
        /\ Talk(v, w, a, b, c, d, "no", y)
  BY DEF IInv, Talked
<1>2. Line(mail'[n], p, c, d) /\ w' = w /\ y' = y
  BY <1>1 DEF Unread, Stage
<1>3. Queued(inter[n][p], n, p) /\ Queued(inter[p][n], p, n) /\ Listed(mail[p])
  BY DEF IInv, Queues, Lists
<1>4. ASSUME NEW k, Extends(mail[p], mail'[p], n, k), k = "none" \/ b = "none",
             Queued(inter'[n][p], n, p),
             Talk(v', w, First(a, k), Second(a, b, k), c, d, "no", y)
      PROVE  Fits(n, p)
  <2>1. /\ Listed(mail'[p]) /\ Line(mail'[p], n, First(a, k), Second(a, b, k))
        /\ \A l, e, f : l # n /\ Line(mail[p], l, e, f) => Line(mail'[p], l, e, f)
    BY <1>1, <1>3, <1>4, LineExtends
  <2>2. Talked(n, p)'
    BY <1>2, <1>4, <2>1 DEF Talked
  <2> QED
    BY <1>4, <2>1, <2>2 DEF Fits
<1>5. CASE inter'[n][p] = inter[n][p] /\ Extends(mail[p], mail'[p], n, "none")
  <2>1. v' = v /\ First(a, "none") = a /\ Second(a, b, "none") = b
    BY <1>5 DEF Stage, First, Second
  <2> QED
    BY <1>1, <1>3, <1>4, <1>5, <2>1
<1>6. CASE Joins(inter[n][p], inter'[n][p], mail[p], mail'[p], n, p)
  <2>1. PICK x : /\ x.type \in Waiting /\ x.type \in May(n, p)
                 /\ inter'[n][p] = Append(inter[n][p], x)
                 /\ IF inter[n][p] = <<>>
                    THEN Extends(mail[p], mail'[p], n, Call(x.type))
                    ELSE mail'[p] = mail[p]
    BY <1>6 DEF Joins
  <2>2. /\ Queued(inter'[n][p], n, p)
        /\ inter[n][p] # <<>> => v' = v
        /\ inter[n][p] = <<>> => /\ inter'[n][p] # <<>>
                                 /\ Head(inter'[n][p]) = x
    BY <1>3, <2>1, QueueGrows DEF Stage
  <2>3. CASE inter[n][p] # <<>>
    <3>1. Extends(mail[p], mail'[p], n, "none") /\ v' = v
      BY <2>1, <2>2, <2>3 DEF Extends
    <3>2. First(a, "none") = a /\ Second(a, b, "none") = b
      BY DEF First, Second
    <3> QED
      BY <1>1, <1>4, <2>2, <3>1, <3>2
  <2>4. CASE inter[n][p] = <<>>
    <3>1. v = "none" /\ v' = x.type
      BY <2>1, <2>2, <2>4 DEF Stage, Top, Waiting, Reports
    <3>2. x.type \in {"SELFOPT_REQ_CORES_PENDING"} \cup Reports
      BY <2>1 DEF Waiting
    <3>3. Apart(x.type, w)
      BY <1>3, <2>1, Fit DEF Stage
    <3>4. b = "none" /\ Talk(x.type, w, First(a, Call(x.type)),
                             Second(a, b, Call(x.type)), c, d, "no", y)
      <4>1. Talk("none", w, a, b, c, d, "no", y)
        BY <1>1, <3>1
      <4> DEFINE u == x.type
      <4>2. u \in {"SELFOPT_REQ_CORES_PENDING"} \cup Reports /\ Apart(u, w)
        BY <3>2, <3>3
      <4> HIDE DEF u, v, w, y
      <4>3. b = "none" /\ Talk(u, w, First(a, Call(u)), Second(a, b, Call(u)),
                               c, d, "no", y)
        BY <4>1, <4>2, Begins
      <4> QED
        BY <4>3 DEF u
    <3> QED
      BY <1>4, <2>1, <2>2, <2>4, <3>1, <3>4
  <2> QED
    BY <2>3, <2>4
<1> QED
  BY <1>5, <1>6 DEF Aside

\* n sends p a signal of kind k and then one of kind l, if these are kinds.
LEMMA PeerFits ==
  ASSUME IInv, NEW n \in Node, NEW p \in Node, inter'[p] = inter[p],
         Queued(inter'[n][p], n, p), NEW k, NEW l, NEW q,
         Extends(mail[p], q, n, k), Extends(q, mail'[p], n, l),
         NEW a, NEW b, NEW c, NEW d,
         Line(mail[p], n, a, b), Line(mail'[n], p, c, d),
         k = "none" \/ b = "none", l = "none" \/ Second(a, b, k) = "none",
         Talk(Top(inter'[n][p]), Stage(p, n), First(First(a, k), l),
              Second(First(a, k), Second(a, b, k), l), c, d,
              Blocked(n, p)', Blocked(p, n)')
  PROVE  Fits(n, p)
<1>1. Listed(mail[p])
  BY DEF IInv, Lists
<1>2. /\ Listed(q) /\ Line(q, n, First(a, k), Second(a, b, k))
      /\ \A m, e, f : m # n /\ Line(mail[p], m, e, f) => Line(q, m, e, f)
  BY <1>1, LineExtends
<1>3. /\ Listed(mail'[p])
      /\ Line(mail'[p], n, First(First(a, k), l),
              Second(First(a, k), Second(a, b, k), l))
      /\ \A m, e, f : m # n /\ Line(q, m, e, f) => Line(mail'[p], m, e, f)
  BY <1>2, LineExtends
<1>4. Stage(n, p)' = Top(inter'[n][p]) /\ Stage(p, n)' = Stage(p, n)
  BY DEF Stage
<1>5. Talked(n, p)'
  BY <1>3, <1>4 DEF Talked
<1> QED
  BY <1>2, <1>3, <1>5 DEF Fits

\* The peer of the signal that is handled next, and how the pair is then.
LEMMA Handled ==
  ASSUME IInv, NEW n \in Node, waiting[n] = NoSignal, mail[n] # <<>>,
         Head(mail[n]).msg.sig # "APP_TERMINATED"
  PROVE  /\ Peer(n) \in Node /\ Peer(n) # n /\ Message(Head(mail[n]).msg)
         /\ Listed(Tail(mail[n]))
         /\ \A q, a, b :
              q # Peer(n) /\ Line(mail[n], q, a, b) => Line(Tail(mail[n]), q, a, b)
         /\ \E a, b, d :
              /\ Line(mail[Peer(n)], n, a, b)
              /\ Line(Tail(mail[n]), Peer(n), d, "none")
              /\ Talk(Stage(n, Peer(n)), Stage(Peer(n), n), a, b,
                      Kind(Head(mail[n]).msg), d, "no", Blocked(Peer(n), n))
<1> DEFINE p == Peer(n)
           m == Head(mail[n]).msg
           t == mail[n]
<1>1. Listed(t) /\ t # <<>> /\ Head(t).msg.sig # "APP_TERMINATED"
  BY DEF IInv, Lists
<1>2. p = Head(t).from /\ m = Head(t).msg
  BY DEF Peer
<1> HIDE DEF m, p, t
<1>3. /\ Listed(Tail(t)) /\ p \in Node /\ Message(m)
      /\ \A q, a, b : q # p /\ Line(t, q, a, b) => Line(Tail(t), q, a, b)
      /\ \A a, b : Line(t, p, a, b) =>
           a = Kind(m) /\ a # "none" /\ Line(Tail(t), p, b, "none")
  BY <1>1, <1>2, LineTaken
<1>4. PICK a, b, c, d :
        /\ Line(mail[p], n, a, b) /\ Line(t, p, c, d)
        /\ Talk(Stage(n, p), Stage(p, n), a, b, c, d, Blocked(n, p), Blocked(p, n))
  BY <1>3 DEF IInv, Talked, t
<1>5. c = Kind(m) /\ c # "none" /\ Line(Tail(t), p, d, "none")
  BY <1>3, <1>4
<1>6. Blocked(n, p) = "no"
  BY DEF Blocked, WaitsFor
<1>7. p # n
  <2> SUFFICES ASSUME p = n PROVE FALSE
    OBVIOUS
  <2>1. Queued(inter[n][n], n, n) /\ May(n, n) = {}
    BY DEF IInv, Queues, May
  <2>2. Stage(n, n) = "none"
    BY <2>1, TopIs DEF Stage
  <2>3. c = "none"
    BY <1>4, <2>2, Alone
  <2> QED
    BY <1>5, <2>3
<1> QED
  BY <1>3, <1>4, <1>5, <1>6, <1>7 DEF m, p, t
-----------------------------------------------------------------------------
(* A step of node n, put together.                                           *)

\* The step only concerns the queues of n, and nothing n has with itself.
Own(n) ==
  /\ Shaped' /\ \A m \in Node : m # n => inter'[m] = inter[m]
  /\ inter'[n][n] = inter[n][n] /\ Listed(mail'[n]) /\ Unread(n, n)

LEMMA Assembled ==
  ASSUME IInv, NEW n \in Node, Own(n), Waits', \A m \in Node : Area(m)',
         \A l, m \in Node : l # n /\ m # n => Blocked(l, m)' = Blocked(l, m),
         Blocked(n, n)' = "no", \A p \in Node : p # n => Fits(n, p)
  PROVE  IInv'
<1>1. Queues'
  <2> SUFFICES ASSUME NEW l \in Node, NEW m \in Node
               PROVE  Queued(inter'[l][m], l, m)
    BY DEF Queues
  <2>1. Queued(inter[l][m], l, m)
    BY DEF IInv, Queues
  <2> QED
    BY <2>1 DEF Own, Fits
<1>2. Lists'
  BY DEF Lists, Own, Fits
<1>3. ASSUME NEW l \in Node, NEW m \in Node PROVE Talked(l, m)'
  <2>1. CASE l = n /\ m # n
    BY <2>1 DEF Fits
  <2>2. CASE l # n /\ m = n
    <3>1. PICK a, b, c, d :
            /\ Line(mail'[l], n, a, b) /\ Line(mail'[n], l, c, d)
            /\ Talk(Stage(n, l)', Stage(l, n)', a, b, c, d, Blocked(n, l)',
                    Blocked(l, n)')
      BY <2>2 DEF Fits, Talked
    <3>2. Talk(Stage(l, n)', Stage(n, l)', c, d, a, b, Blocked(l, n)',
               Blocked(n, l)')
      BY <3>1, TalkTurns
    <3> QED
      BY <2>2, <3>1, <3>2 DEF Talked
  <2>3. CASE l # n /\ m # n
    <3>1. PICK a, b, c, d :
            /\ Line(mail[m], l, a, b) /\ Line(mail[l], m, c, d)
            /\ Talk(Stage(l, m), Stage(m, l), a, b, c, d, Blocked(l, m),
                    Blocked(m, l))
      BY DEF IInv, Talked
    <3>2. Line(mail'[m], l, a, b) /\ Line(mail'[l], m, c, d)
      BY <2>3, <3>1 DEF Fits
    <3>3. /\ Stage(l, m)' = Stage(l, m) /\ Stage(m, l)' = Stage(m, l)
          /\ Blocked(l, m)' = Blocked(l, m) /\ Blocked(m, l)' = Blocked(m, l)
      BY <2>3 DEF Own, Stage
    <3> QED
      BY <3>1, <3>2, <3>3 DEF Talked
  <2>4. CASE l = n /\ m = n
    <3>1. Queued(inter[n][n], n, n) /\ May(n, n) = {}
      BY DEF IInv, Queues, May
    <3>2. Stage(n, n) = "none" /\ Stage(n, n)' = "none"
      BY <3>1, TopIs DEF Stage, Own
    <3>3. PICK a, b, c, d :
            /\ Line(mail[n], n, a, b) /\ Line(mail[n], n, c, d)
            /\ Talk("none", "none", a, b, c, d, Blocked(n, n), Blocked(n, n))
      BY <3>2 DEF IInv, Talked
    <3>4. a = "none" /\ c = "none" /\ Blocked(n, n) = "no"
      BY <3>3, Alone
    <3>5. Line(mail'[n], n, a, b) /\ Line(mail'[n], n, c, d)
      BY <3>3 DEF Own, Unread
    <3>6. Talk(Stage(n, n)', Stage(n, n)', a, b, c, d, Blocked(n, n)',
               Blocked(n, n)')
      BY <3>2, <3>3, <3>4
    <3> QED
      BY <2>4, <3>5, <3>6 DEF Talked
  <2> QED
    BY <2>1, <2>2, <2>3, <2>4
<1> QED
  BY <1>1, <1>2, <1>3 DEF IInv, Own

\* No handler begins or ends to wait.
LEMMA NoWait ==
  ASSUME IInv, NEW n \in Node, waiting[n] = NoSignal,
         waiting' = waiting, data' = data
  PROVE  /\ Waits' /\ \A m \in Node : Area(m)'
         /\ \A l, m \in Node : Blocked(l, m)' = Blocked(l, m)
         /\ \A m \in Node : Blocked(n, m) = "no" /\ Blocked(n, m)' = "no"
<1>1. \A l, m \in Node : Blocked(l, m)' = Blocked(l, m)
  BY DEF Blocked, WaitsFor
<1>2. \A m \in Node : Blocked(n, m) = "no"
  BY DEF Blocked, WaitsFor
<1>3. Waits'
  BY DEF IInv, Waits
<1>4. \A m \in Node : Area(m)'
  BY DEF IInv, Area
<1> QED
  BY <1>1, <1>2, <1>3, <1>4

\* A step of the program of n that neither handles a signal nor waits.
LEMMA ProgramStep ==
  ASSUME IInv, NEW n \in Node, waiting[n] = NoSignal,
         waiting' = waiting, data' = data,
         Shaped', \A m \in Node : m # n => inter'[m] = inter[m],
         mail'[n] = mail[n], inter'[n][n] = inter[n][n],
         \A p \in Node : p # n => Aside(n, p) \/ Fits(n, p)
  PROVE  IInv'
<1>1. Own(n)
  BY DEF IInv, Lists, Own, Unread
<1>2. /\ Waits' /\ \A m \in Node : Area(m)'
      /\ \A l, m \in Node : Blocked(l, m)' = Blocked(l, m)
      /\ \A m \in Node : Blocked(n, m) = "no" /\ Blocked(n, m)' = "no"
  BY NoWait
<1>3. ASSUME NEW p \in Node, p # n PROVE Fits(n, p)
  <2>1. Unread(n, p) /\ inter'[p] = inter[p]
    BY <1>3 DEF Unread
  <2> QED
    BY <1>2, <1>3, <2>1, AsideFits
<1> QED
  BY <1>1, <1>2, <1>3, Assembled

\* The only handlers that may begin or end to wait are those of n and p for
\* each other: x and y say how they wait after the step.
Calm(n, p, x, y) ==
  /\ Waits' /\ \A m \in Node : Area(m)'
  /\ \A l, m \in Node : l # n /\ m # n => Blocked(l, m)' = Blocked(l, m)
  /\ \A m \in Node : m # p =>
       /\ Blocked(n, m) = "no" /\ Blocked(n, m)' = "no"
       /\ Blocked(m, n)' = Blocked(m, n)
  /\ Blocked(n, p)' = x /\ Blocked(p, n)' = y

\* A step of n that concerns the peer p.
LEMMA Stepped ==
  ASSUME IInv, NEW n \in Node, NEW p \in Node, p # n, NEW x, NEW y,
         Calm(n, p, x, y), Listed(mail'[n]), \A q : q # p => Unread(n, q),
         Shaped', \A m \in Node : m # n => inter'[m] = inter[m],
         inter'[n][n] = inter[n][n],
         Fits(n, p), \A m \in Node : m \notin {n, p} => Aside(n, m)
  PROVE  IInv'
<1>1. Own(n)
  BY DEF Own
<1>2. ASSUME NEW m \in Node, m \notin {n, p} PROVE Fits(n, m)
  <2>1. /\ Unread(n, m) /\ inter'[m] = inter[m] /\ Aside(n, m)
        /\ Blocked(n, m) = "no" /\ Blocked(n, m)' = "no"
        /\ Blocked(m, n)' = Blocked(m, n)
    BY <1>2 DEF Calm
  <2> QED
    BY <1>2, <2>1, AsideFits
<1>3. \A m \in Node : m # n => Fits(n, m)
  BY <1>2
<1>4. /\ Waits' /\ \A m \in Node : Area(m)'
      /\ \A l, m \in Node : l # n /\ m # n => Blocked(l, m)' = Blocked(l, m)
      /\ Blocked(n, n)' = "no"
  BY DEF Calm
<1> QED
  BY <1>1, <1>3, <1>4, Assembled

LEMMA StageIs ==
  ASSUME IInv, NEW n \in Node, NEW p \in Node
  PROVE  /\ HeadType(n, p) # "REP_AGENT_REQ_CORES" =>
              Stage(n, p) = HeadType(n, p)
         /\ HeadType(n, p) = "REP_AGENT_REQ_CORES" =>
              /\ inter[n][p] # <<>>
              /\ Stage(n, p) = IF Head(inter[n][p]).cores # {} THEN "offer"
                               ELSE "nothing"
         /\ Stage(n, p) = "none" <=> inter[n][p] = <<>>
         /\ HeadType(n, p) \in {"none"} \cup May(n, p)
         /\ Queued(inter[n][p], n, p) /\ Queued(inter[p][n], p, n)
<1>1. Queued(inter[n][p], n, p) /\ Queued(inter[p][n], p, n)
  BY DEF IInv, Queues
<1>2. HeadType(n, p) = IF inter[n][p] = <<>> THEN "none"
                       ELSE Head(inter[n][p]).type
  BY DEF HeadType
<1> DEFINE q == inter[n][p]
<1>3. /\ Top(q) = "none" <=> q = <<>>
      /\ q # <<>> => Head(q).type \in May(n, p)
      /\ q # <<>> /\ Head(q).type # "REP_AGENT_REQ_CORES" =>
           Top(q) = Head(q).type
      /\ q # <<>> /\ Head(q).type = "REP_AGENT_REQ_CORES" =>
           Top(q) = IF Head(q).cores # {} THEN "offer" ELSE "nothing"
  BY <1>1, TopIs
<1> QED
  BY <1>1, <1>2, <1>3 DEF Stage

\* The step of a handler that only deals with the peer.
LEMMA OnlyPeer ==
  ASSUME IInv, NEW n \in Node, NEW p \in Node, p = Peer(n), p # n,
         NEW r, IsNet(r),
         OnlyWith(Taken(n), r, n, p), Becomes(r),
         DOMAIN waiting' = Node, DOMAIN data' = Node
  PROVE  /\ mail'[n] = Tail(mail[n]) /\ mail'[p] = r.mail[p]
         /\ Shaped' /\ \A m \in Node : m # n => inter'[m] = inter[m]
         /\ inter'[n][n] = inter[n][n]
         /\ inter'[n][p] = r.inter[n][p]
         /\ \A m \in Node : m \notin {n, p} => Aside(n, m)
<1>1. /\ IsNet(Taken(n)) /\ Taken(n).inter = inter
      /\ Taken(n).mail[n] = Tail(mail[n])
      /\ \A m \in Node : m # n => Taken(n).mail[m] = mail[m]
  BY TakenIs DEF IInv
<1>2. inter' = r.inter /\ mail' = r.mail
  BY DEF Becomes
<1>3. Shaped'
  BY <1>2 DEF IsNet, Shaped
<1>4. \A m \in Node : m # n => inter'[m] = inter[m]
  BY <1>1, <1>2 DEF OnlyWith
<1>5. \A m \in Node : m # p =>
        inter'[n][m] = inter[n][m] /\ mail'[m] = Taken(n).mail[m]
  BY <1>1, <1>2 DEF OnlyWith
<1> QED
  BY <1>1, <1>2, <1>3, <1>4, <1>5 DEF Aside, Extends

\* n sends the peer a signal of kind k, and one of kind l after it.
LEMMA PeerStep ==
  ASSUME IInv, NEW n \in Node, NEW p \in Node, p = Peer(n),
         waiting[n] = NoSignal, mail[n] # <<>>,
         Head(mail[n]).msg.sig # "APP_TERMINATED",
         NEW r, IsNet(r), OnlyWith(Taken(n), r, n, p), Becomes(r),
         NEW x, NEW y, Calm(n, p, x, y),
         DOMAIN waiting' = Node, DOMAIN data' = Node,
         Queued(r.inter[n][p], n, p), NEW k, NEW l, NEW q,
         Extends(mail[p], q, n, k), Extends(q, r.mail[p], n, l),
         \A a, b, d :
           Talk(Stage(n, p), Stage(p, n), a, b,
                Kind(Head(mail[n]).msg), d, "no", Blocked(p, n)) =>
           /\ k = "none" \/ b = "none"
           /\ l = "none" \/ Second(a, b, k) = "none"
           /\ Talk(Top(r.inter[n][p]), Stage(p, n),
                   First(First(a, k), l), Second(First(a, k), Second(a, b, k), l),
                   d, "none", x, y)
  PROVE  IInv'
<1>1. /\ p # n /\ Listed(Tail(mail[n]))
      /\ \A m, a, b :
           m # p /\ Line(mail[n], m, a, b) => Line(Tail(mail[n]), m, a, b)
  BY Handled
<1>2. PICK a, b, d :
        /\ Line(mail[p], n, a, b) /\ Line(Tail(mail[n]), p, d, "none")
        /\ Talk(Stage(n, p), Stage(p, n), a, b, Kind(Head(mail[n]).msg), d, "no",
                Blocked(p, n))
  BY Handled
<1>3. /\ mail'[n] = Tail(mail[n]) /\ mail'[p] = r.mail[p]
      /\ Shaped' /\ \A m \in Node : m # n => inter'[m] = inter[m]
      /\ inter'[n][n] = inter[n][n] /\ inter'[n][p] = r.inter[n][p]
      /\ \A m \in Node : m \notin {n, p} => Aside(n, m)
  BY <1>1, OnlyPeer
<1>4. /\ k = "none" \/ b = "none"
      /\ l = "none" \/ Second(a, b, k) = "none"
      /\ Talk(Top(r.inter[n][p]), Stage(p, n), First(First(a, k), l),
              Second(First(a, k), Second(a, b, k), l), d, "none", x, y)
  BY <1>2
<1>5. Blocked(n, p)' = x /\ Blocked(p, n)' = y
  BY DEF Calm
<1>6. Fits(n, p)
  <2>1. /\ inter'[p] = inter[p] /\ Queued(inter'[n][p], n, p)
        /\ Extends(q, mail'[p], n, l) /\ Line(mail'[n], p, d, "none")
        /\ Talk(Top(inter'[n][p]), Stage(p, n), First(First(a, k), l),
              Second(First(a, k), Second(a, b, k), l), d, "none",
              Blocked(n, p)', Blocked(p, n)')
    BY <1>1, <1>2, <1>3, <1>4, <1>5
  <2> QED
    BY <1>1, <1>2, <1>4, <2>1, PeerFits
<1>7. Listed(mail'[n]) /\ \A m : m # p => Unread(n, m)
  BY <1>1, <1>3 DEF Unread
<1> QED
  BY <1>1, <1>3, <1>6, <1>7, Stepped

\* No handler waits, n begins to wait for p, or n gives p what it waits for.
LEMMA CalmNow ==
  ASSUME IInv, NEW n \in Node, NEW p \in Node, waiting[n] = NoSignal,
         waiting' = waiting, data' = data
  PROVE  Calm(n, p, "no", Blocked(p, n))
BY NoWait DEF Calm

LEMMA CalmAsks ==
  ASSUME IInv, NEW n \in Node, NEW p \in Node, p # n, waiting[n] = NoSignal,
         NEW s, s.from = p, s.msg.body \in {"request", "offers"},
         waiting' = [waiting EXCEPT ![n] = s], data' = data
  PROVE  Calm(n, p, IF s.msg.body = "request" THEN "asked" ELSE "offered",
              Blocked(p, n))
<1>1. s # NoSignal
  BY ClusterAssumption DEF NoSignal
<1>2. waiting'[n] = s /\ \A m \in Node : m # n => waiting'[m] = waiting[m]
  BY DEF IInv, Shaped
<1>3. data[n] = <<>>
  BY DEF IInv, Area
<1>4. Waits'
  BY <1>2 DEF IInv, Waits
<1>5. ASSUME NEW m \in Node PROVE Area(m)'
  <2>1. CASE m = n
    BY <1>3, <2>1 DEF Area
  <2>2. CASE m # n
    BY <1>2, <2>2 DEF IInv, Area
  <2> QED
    BY <2>1, <2>2
<1>6. \A l, m \in Node : l # n => Blocked(l, m)' = Blocked(l, m)
  BY <1>2 DEF Blocked, WaitsFor
<1>7. \A m \in Node : Blocked(n, m) = "no"
  BY DEF Blocked, WaitsFor
<1>8. \A m \in Node : m # p => Blocked(n, m)' = "no"
  BY <1>2 DEF Blocked, WaitsFor
<1>9. Blocked(n, p)' = IF s.msg.body = "request" THEN "asked" ELSE "offered"
  BY <1>1, <1>2, <1>3 DEF Blocked, WaitsFor
<1>10. \A m \in Node : m # p => Blocked(m, n)' = Blocked(m, n)
  BY <1>6, <1>7, <1>8
<1> QED
  BY <1>4, <1>5, <1>6, <1>7, <1>8, <1>9, <1>10 DEF Calm

LEMMA CalmGives ==
  ASSUME IInv, NEW n \in Node, NEW p \in Node, p # n, waiting[n] = NoSignal,
         NEW cores, waiting' = waiting,
         data' = [data EXCEPT ![p] = Append(@, [from |-> n, cores |-> cores])],
         Blocked(p, n) = IF cores = {} THEN "asked" ELSE "offered"
  PROVE  Calm(n, p, "no", IF cores = {} THEN "request" ELSE "cores")
<1>1. /\ waiting[p] # NoSignal /\ waiting[p].from = n /\ data[p] = <<>>
      /\ (waiting[p].msg.body = "offers") <=> (cores # {})
  BY DEF Blocked, WaitsFor, IInv, Waits
<1>2. \A m \in Node : m # p => data'[m] = data[m]
  BY DEF IInv, Shaped
<1>3. data'[p] = <<[from |-> n, cores |-> cores]>>
  BY <1>1 DEF IInv, Shaped
<1>4. Waits'
  BY DEF IInv, Waits
<1>5. ASSUME NEW m \in Node PROVE Area(m)'
  <2>1. CASE m = p
    BY <1>1, <1>3, <2>1 DEF Area
  <2>2. CASE m # p
    BY <1>2, <2>2 DEF IInv, Area
  <2> QED
    BY <2>1, <2>2
<1>6. \A l, m \in Node : l # p => Blocked(l, m)' = Blocked(l, m)
  BY <1>2 DEF Blocked, WaitsFor
<1>7. \A m \in Node : m # n => Blocked(p, m) = "no" /\ Blocked(p, m)' = "no"
  BY <1>1 DEF Blocked, WaitsFor
<1>8. \A m \in Node : Blocked(n, m) = "no" /\ Blocked(n, m)' = "no"
  BY <1>6 DEF Blocked, WaitsFor
<1>9. Blocked(p, n)' = IF cores = {} THEN "request" ELSE "cores"
  BY <1>1, <1>3 DEF Blocked, WaitsFor, IInv, Waits
<1> QED
  BY <1>4, <1>5, <1>6, <1>7, <1>8, <1>9 DEF Calm

LEMMA CalmTakes ==
  ASSUME IInv, NEW n \in Node, NEW p \in Node, p # n, WaitsFor(n, p),
         waiting' = [waiting EXCEPT ![n] = NoSignal],
         data' = [data EXCEPT ![n] = Tail(@)], data[n] # <<>>
  PROVE  Calm(n, p, "no", Blocked(p, n))
<1>1. waiting'[n] = NoSignal /\ \A m \in Node : m # n => waiting'[m] = waiting[m]
  BY DEF IInv, Shaped
<1>2. data'[n] = <<>> /\ \A m \in Node : m # n => data'[m] = data[m]
  <2>1. PICK d : data[n] = <<d>>
    BY DEF IInv, Area
  <2> QED
    BY <2>1 DEF IInv, Shaped
<1>3. Waits'
  BY <1>1 DEF IInv, Waits
<1>4. ASSUME NEW m \in Node PROVE Area(m)'
  <2>1. CASE m = n
    BY <1>2, <2>1 DEF Area
  <2>2. CASE m # n
    BY <1>1, <1>2, <2>2 DEF IInv, Area
  <2> QED
    BY <2>1, <2>2
<1>5. \A l, m \in Node : l # n => Blocked(l, m)' = Blocked(l, m)
  BY <1>1, <1>2 DEF Blocked, WaitsFor
<1>6. \A m \in Node : Blocked(n, m)' = "no"
  BY <1>1 DEF Blocked, WaitsFor
<1>7. \A m \in Node : m # p => Blocked(n, m) = "no"
  BY DEF Blocked, WaitsFor
<1> QED
  BY <1>3, <1>4, <1>5, <1>6, <1>7 DEF Calm

\* What comes next of n for p after the head of the queue.
LEMMA Ending ==
  ASSUME IInv, NEW n \in Node, NEW p \in Node, NEW net, IsNet(net),
         net.inter[n][p] = inter[n][p], OnlyWith(Taken(n), net, n, p),
         inter[n][p] # <<>>, NEW r, r = Pop(net, n, p)
  PROVE  /\ IsNet(r) /\ OnlyWith(Taken(n), r, n, p)
         /\ Queued(r.inter[n][p], n, p)
         /\ Top(r.inter[n][p]) \in Idle \cup Reports
         /\ Apart(Top(r.inter[n][p]), Stage(p, n))
         /\ Extends(net.mail[p], r.mail[p], n, Call(Top(r.inter[n][p])))
<1>1. Queued(inter[n][p], n, p) /\ Queued(inter[p][n], p, n)
  BY StageIs
<1>2. /\ IsNet(r) /\ OnlyWith(net, r, n, p) /\ Queued(r.inter[n][p], n, p)
      /\ Top(r.inter[n][p]) \in Idle \cup Reports
      /\ Extends(net.mail[p], r.mail[p], n, Call(Top(r.inter[n][p])))
  BY <1>1, PopIs
<1>3. OnlyWith(Taken(n), r, n, p)
  BY <1>2 DEF OnlyWith
<1>4. Apart(Top(r.inter[n][p]), Stage(p, n))
  BY <1>1, <1>2, Fit DEF Stage
<1> QED
  BY <1>2, <1>3, <1>4

LEMMA Replying ==
  ASSUME IInv, NEW n \in Node, NEW p \in Node, p # n,
         NEW k \in {"ACK", "REJECT"}, NEW r,
         r = Send(Taken(n), n, p, [sig |-> k])
  PROVE  /\ IsNet(r) /\ OnlyWith(Taken(n), r, n, p) /\ r.inter = inter
         /\ Extends(mail[p], r.mail[p], n, k) /\ k # "none"
<1> DEFINE s == [sig |-> k]
<1>1. PICK t : t = Taken(n)
  OBVIOUS
<1>2. IsNet(t) /\ t.inter = inter /\ t.mail[p] = mail[p]
  BY <1>1, TakenIs DEF IInv
<1>3. Counts(s, k) /\ k # "none"
  BY DEF Counts, Message, Sigs, Kind
<1>4. Sends(t, r, n, p, s)
  BY <1>1 DEF Sends
<1> HIDE DEF s
<1>5. /\ IsNet(r) /\ OnlyWith(t, r, n, p) /\ r.inter = t.inter
      /\ r.mail[p] = Append(t.mail[p], [from |-> n, msg |-> s])
  BY SMTT(30), <1>2, <1>4, SendIs
<1>6. Extends(mail[p], r.mail[p], n, k)
  BY <1>2, <1>3, <1>5, Sent
<1> QED
  BY <1>1, <1>2, <1>3, <1>5, <1>6

\* Node n handles a signal of p.
Handles(n, p) ==
  /\ p = Peer(n) /\ waiting[n] = NoSignal /\ mail[n] # <<>>
  /\ Head(mail[n]).msg.sig # "APP_TERMINATED"
  /\ DOMAIN waiting' = Node /\ DOMAIN data' = Node

\* It is replied to.
LEMMA Replied ==
  ASSUME IInv, NEW n \in Node, NEW p \in Node, Handles(n, p),
         NEW k \in {"ACK", "REJECT"},
         Becomes(Send(Taken(n), n, p, [sig |-> k])),
         NEW x, NEW y, Calm(n, p, x, y),
         \A a, b, d :
           Talk(Stage(n, p), Stage(p, n), a, b, Kind(Head(mail[n]).msg), d, "no",
                Blocked(p, n)) =>
           /\ b = "none"
           /\ Talk(Stage(n, p), Stage(p, n), First(a, k), Second(a, b, k), d,
                   "none", x, y)
  PROVE  IInv'
<1>1. PICK r : r = Send(Taken(n), n, p, [sig |-> k])
  OBVIOUS
<1>2. p # n
  BY Handled DEF Handles
<1>3. /\ IsNet(r) /\ OnlyWith(Taken(n), r, n, p) /\ r.inter = inter
      /\ Extends(mail[p], r.mail[p], n, k) /\ Becomes(r)
  BY <1>1, <1>2, Replying
<1>4. Queued(r.inter[n][p], n, p) /\ Top(r.inter[n][p]) = Stage(n, p)
  BY <1>3, StageIs DEF Stage
<1>5. Extends(r.mail[p], r.mail[p], n, "none")
  BY DEF Extends
<1>6. \A z, b : First(z, "none") = z /\ Second(z, b, "none") = b
  BY DEF First, Second
<1>7. \A a, b, d :
        Talk(Stage(n, p), Stage(p, n), a, b, Kind(Head(mail[n]).msg), d, "no",
             Blocked(p, n)) =>
        /\ b = "none"
        /\ Talk(Top(r.inter[n][p]), Stage(p, n), First(First(a, k), "none"),
                Second(First(a, k), Second(a, b, k), "none"), d, "none", x, y)
  BY <1>4, <1>6
<1> QED
  BY <1>3, <1>4, <1>5, <1>7, PeerStep DEF Handles

\* It ends the interaction.
LEMMA Over ==
  ASSUME IInv, NEW n \in Node, NEW p \in Node, Handles(n, p),
         Becomes(Pop(Taken(n), n, p)), inter[n][p] # <<>>,
         waiting' = waiting, data' = data,
         \A a, b, d, u :
           /\ Talk(Stage(n, p), Stage(p, n), a, b, Kind(Head(mail[n]).msg), d,
                   "no", Blocked(p, n))
           /\ u \in Idle \cup Reports /\ Apart(u, Stage(p, n))
           => /\ b = "none"
              /\ Talk(u, Stage(p, n), First(a, Call(u)), Second(a, b, Call(u)), d,
                      "none", "no", Blocked(p, n))
  PROVE  IInv'
<1>1. PICK r : r = Pop(Taken(n), n, p)
  OBVIOUS
<1>2. p # n
  BY Handled DEF Handles
<1>3. /\ IsNet(Taken(n)) /\ Taken(n).inter = inter
      /\ Taken(n).mail[p] = mail[p] /\ OnlyWith(Taken(n), Taken(n), n, p)
  BY <1>2, TakenIs DEF IInv, OnlyWith
<1> DEFINE u == Top(r.inter[n][p])
<1>4. /\ IsNet(r) /\ OnlyWith(Taken(n), r, n, p)
      /\ Queued(r.inter[n][p], n, p)
      /\ u \in Idle \cup Reports /\ Apart(u, Stage(p, n))
      /\ Extends(mail[p], r.mail[p], n, Call(u)) /\ Becomes(r)
  BY <1>1, <1>3, Ending
<1>5. Extends(mail[p], mail[p], n, "none")
  BY DEF Extends
<1>6. \A z, b : First(z, "none") = z /\ Second(z, b, "none") = b
  BY DEF First, Second
<1>7. Calm(n, p, "no", Blocked(p, n))
  BY CalmNow DEF Handles
<1>8. \A a, b, d :
        Talk(Stage(n, p), Stage(p, n), a, b, Kind(Head(mail[n]).msg), d, "no",
             Blocked(p, n)) =>
        /\ b = "none"
        /\ Talk(u, Stage(p, n), First(First(a, "none"), Call(u)),
                Second(First(a, "none"), Second(a, b, "none"), Call(u)), d,
                "none", "no", Blocked(p, n))
        /\ Second(a, b, "none") = "none"
  BY <1>4, <1>6
<1> QED
  BY ZenonT(30), <1>4, <1>5, <1>7, <1>8, PeerStep DEF Handles

\* It is replied to and ends the interaction.
LEMMA RepliedEnded ==
  ASSUME IInv, NEW n \in Node, NEW p \in Node, Handles(n, p),
         NEW k \in {"ACK", "REJECT"}, inter[n][p] # <<>>,
         Becomes(Pop(Send(Taken(n), n, p, [sig |-> k]), n, p)),
         waiting' = waiting, data' = data,
         \A a, b, d, u :
           /\ Talk(Stage(n, p), Stage(p, n), a, b, Kind(Head(mail[n]).msg), d,
                   "no", Blocked(p, n))
           /\ u \in Idle \cup Reports /\ Apart(u, Stage(p, n))
           => /\ a = "none" /\ b = "none"
              /\ Talk(u, Stage(p, n), k, Call(u), d, "none", "no", Blocked(p, n))
  PROVE  IInv'
<1>1. PICK net : net = Send(Taken(n), n, p, [sig |-> k])
  OBVIOUS
<1>2. PICK r : r = Pop(net, n, p)
  OBVIOUS
<1>3. p # n
  BY Handled DEF Handles
<1>4. /\ IsNet(net) /\ OnlyWith(Taken(n), net, n, p) /\ net.inter = inter
      /\ Extends(mail[p], net.mail[p], n, k) /\ k # "none"
  BY <1>1, <1>3, Replying
<1> DEFINE u == Top(r.inter[n][p])
<1>5. /\ IsNet(r) /\ OnlyWith(Taken(n), r, n, p)
      /\ Queued(r.inter[n][p], n, p)
      /\ u \in Idle \cup Reports /\ Apart(u, Stage(p, n))
      /\ Extends(net.mail[p], r.mail[p], n, Call(u))
  BY <1>2, <1>4, Ending
<1>6. Becomes(r)
  BY <1>1, <1>2
<1>7. Calm(n, p, "no", Blocked(p, n))
  BY CalmNow DEF Handles
<1>8. \A l : /\ First(First("none", k), l) = k
             /\ Second(First("none", k), Second("none", "none", k), l) = l
             /\ Second("none", "none", k) = "none"
  BY <1>4 DEF First, Second
<1>9. \A a, b, d :
        Talk(Stage(n, p), Stage(p, n), a, b, Kind(Head(mail[n]).msg), d, "no",
             Blocked(p, n)) =>
        /\ b = "none" /\ Second(a, b, k) = "none"
        /\ Talk(u, Stage(p, n), First(First(a, k), Call(u)),
                Second(First(a, k), Second(a, b, k), Call(u)), d,
                "none", "no", Blocked(p, n))
  <2> SUFFICES ASSUME NEW a, NEW b, NEW d,
                      Talk(Stage(n, p), Stage(p, n), a, b,
                           Kind(Head(mail[n]).msg), d, "no", Blocked(p, n))
               PROVE  /\ b = "none" /\ Second(a, b, k) = "none"
                      /\ Talk(u, Stage(p, n), First(First(a, k), Call(u)),
                              Second(First(a, k), Second(a, b, k), Call(u)), d,
                              "none", "no", Blocked(p, n))
    OBVIOUS
  <2>1. u \in Idle \cup Reports /\ Apart(u, Stage(p, n))
    BY <1>5
  <2> HIDE DEF u
  <2>2. /\ a = "none" /\ b = "none"
        /\ Talk(u, Stage(p, n), k, Call(u), d, "none", "no", Blocked(p, n))
    BY <2>1
  <2> QED
    BY <1>8, <2>2
<1> QED
  BY <1>4, <1>5, <1>6, <1>7, <1>9, PeerStep DEF Handles
-----------------------------------------------------------------------------
(* The handlers.                                                             *)

LEMMA Received ==
  ASSUME IInv, NEW n \in Node, NEW sig, sig # "APP_TERMINATED", Receives(n, sig),
         DOMAIN waiting' = Node, DOMAIN data' = Node
  PROVE  \E p \in Node :
           /\ p # n /\ Handles(n, p) /\ Message(Head(mail[n]).msg)
           /\ Head(mail[n]).msg.sig = sig
           /\ \E a, b, d :
                Talk(Stage(n, p), Stage(p, n), a, b, Kind(Head(mail[n]).msg), d,
                     "no", Blocked(p, n))
<1>1. /\ waiting[n] = NoSignal /\ mail[n] # <<>> /\ Head(mail[n]).msg.sig = sig
  BY DEF Receives
<1>2. PICK p : p = Peer(n)
  OBVIOUS
<1>3. /\ p \in Node /\ p # n /\ Message(Head(mail[n]).msg)
      /\ \E a, b, d :
           Talk(Stage(n, p), Stage(p, n), a, b, Kind(Head(mail[n]).msg), d,
                "no", Blocked(p, n))
  BY <1>1, <1>2, Handled
<1>4. Handles(n, p)
  BY <1>1, <1>2 DEF Handles
<1> QED
  BY <1>1, <1>3, <1>4

LEMMA AckClearStep ==
  ASSUME IInv, NEW n \in Node, AckClear(n)
  PROVE  IInv'
<1>1. waiting' = waiting /\ data' = data /\ Receives(n, "ACK")
  BY DEF AckClear
<1>2. PICK p \in Node :
        /\ p # n /\ Handles(n, p) /\ Head(mail[n]).msg.sig = "ACK"
        /\ \E a, b, d :
             Talk(Stage(n, p), Stage(p, n), a, b, Kind(Head(mail[n]).msg), d,
                  "no", Blocked(p, n))
  BY <1>1, Received DEF IInv, Shaped
<1>3. p = Peer(n) /\ Kind(Head(mail[n]).msg) = "ACK"
  BY <1>2 DEF Handles, Kind
<1>4. Stage(n, p) \notin {"SELFOPT_REQ_CORES_PENDING", "offer"}
  BY <1>3, StageIs DEF AckClear, PeerWaits, May, Asker, Offers, Reports
<1>5. /\ Stage(n, p) # "none"
      /\ \A a, b, d, u :
           /\ Talk(Stage(n, p), Stage(p, n), a, b, Kind(Head(mail[n]).msg), d,
                   "no", Blocked(p, n))
           /\ u \in Idle \cup Reports /\ Apart(u, Stage(p, n))
           => /\ b = "none"
              /\ Talk(u, Stage(p, n), First(a, Call(u)), Second(a, b, Call(u)), d,
                      "none", "no", Blocked(p, n))
  <2>1. Apart("none", Stage(p, n)) /\ "none" \in Idle \cup Reports
    BY DEF Apart, Idle, Asker, Reports
  <2>2. PICK a, b, d :
          Talk(Stage(n, p), Stage(p, n), a, b, "ACK", d, "no", Blocked(p, n))
    BY <1>2, <1>3
  <2>3. Stage(n, p) # "none"
    BY <1>4, <2>1, <2>2, AckEnds DEF Reports
  <2> QED
    BY <1>3, <1>4, <2>3, AckEnds
<1>6. inter[n][p] # <<>> /\ HeadType(n, p) # "none"
  BY <1>5, StageIs
<1>7. Becomes(Pop(Taken(n), n, p))
  BY <1>3, <1>6 DEF AckClear
<1> QED
  BY <1>1, <1>2, <1>5, <1>6, <1>7, Over

LEMMA RejectRequestStep ==
  ASSUME IInv, NEW n \in Node, RejectRequest(n)
  PROVE  IInv'
<1>1. waiting' = waiting /\ data' = data /\ Receives(n, "REJECT")
  BY DEF RejectRequest
<1>2. PICK p \in Node :
        /\ p # n /\ Handles(n, p) /\ Head(mail[n]).msg.sig = "REJECT"
        /\ \E a, b, d :
             Talk(Stage(n, p), Stage(p, n), a, b, Kind(Head(mail[n]).msg), d,
                  "no", Blocked(p, n))
  BY <1>1, Received DEF IInv, Shaped
<1>3. p = Peer(n) /\ Kind(Head(mail[n]).msg) = "REJECT"
  BY <1>2 DEF Handles, Kind
<1>4. /\ Stage(n, p) \in {"SELFOPT_REQ_CORES_PENDING", "offer", "nothing"}
      /\ \A a, b, d, u :
           /\ Talk(Stage(n, p), Stage(p, n), a, b, Kind(Head(mail[n]).msg), d,
                   "no", Blocked(p, n))
           /\ u \in Idle \cup Reports /\ Apart(u, Stage(p, n))
           => /\ b = "none"
              /\ Talk(u, Stage(p, n), First(a, Call(u)), Second(a, b, Call(u)), d,
                      "none", "no", Blocked(p, n))
  <2>1. Apart("none", Stage(p, n)) /\ "none" \in Idle \cup Reports
    BY DEF Apart, Idle, Asker, Reports
  <2>2. PICK a, b, d :
          Talk(Stage(n, p), Stage(p, n), a, b, "REJECT", d, "no", Blocked(p, n))
    BY <1>2, <1>3
  <2>3. Stage(n, p) \in {"SELFOPT_REQ_CORES_PENDING", "offer", "nothing"}
    BY <2>1, <2>2, RejectComes
  <2>4. \A k : First("none", k) = k /\ Second("none", "none", k) = "none"
    BY DEF First, Second
  <2> QED
    BY <1>3, <2>3, <2>4, RejectComes
<1>5. HeadType(n, p) = "SELFOPT_REQ_CORES_PENDING" /\ inter[n][p] # <<>>
  BY <1>3, <1>4, StageIs DEF RejectRequest, May, Asker, Offers, Reports
<1>6. Becomes(Pop(Taken(n), n, p))
  BY <1>3, <1>5 DEF RejectRequest
<1> QED
  BY <1>1, <1>2, <1>4, <1>5, <1>6, Over

LEMMA RejectOfferStep ==
  ASSUME IInv, NEW n \in Node, RejectOffer(n)
  PROVE  IInv'
<1>1. waiting' = waiting /\ data' = data /\ Receives(n, "REJECT")
  BY DEF RejectOffer
<1>2. PICK p \in Node :
        /\ p # n /\ Handles(n, p) /\ Head(mail[n]).msg.sig = "REJECT"
  BY <1>1, Received DEF IInv, Shaped
<1>3. p = Peer(n) /\ Kind(Head(mail[n]).msg) = "REJECT"
  BY <1>2 DEF Handles, Kind
<1>4. \A a, b, d, u :
        /\ Talk(Stage(n, p), Stage(p, n), a, b, Kind(Head(mail[n]).msg), d,
                "no", Blocked(p, n))
        /\ u \in Idle \cup Reports /\ Apart(u, Stage(p, n))
        => /\ b = "none"
           /\ Talk(u, Stage(p, n), First(a, Call(u)), Second(a, b, Call(u)), d,
                   "none", "no", Blocked(p, n))
  <2>1. \A k : First("none", k) = k /\ Second("none", "none", k) = "none"
    BY DEF First, Second
  <2> QED
    BY <1>3, <2>1, RejectComes
<1>5. inter[n][p] # <<>>
  BY <1>3, StageIs DEF RejectOffer
<1>6. Becomes(Pop(Taken(n), n, p))
  BY <1>3 DEF RejectOffer
<1> QED
  BY <1>1, <1>2, <1>4, <1>5, <1>6, Over

\* A refused offer, or an accepted one of a controller.
LEMMA AnsweredStep ==
  ASSUME IInv, NEW n \in Node, Receives(n, "REP_OFFERS"),
         HeadType(n, Peer(n)) = "AGENT_OFFER_SENT",
         Becomes(Pop(Send(Taken(n), n, Peer(n), Ack), n, Peer(n))),
         waiting' = waiting, data' = data
  PROVE  IInv'
<1>1. PICK p \in Node :
        /\ p # n /\ Handles(n, p) /\ Head(mail[n]).msg.sig = "REP_OFFERS"
  BY Received DEF IInv, Shaped
<1>2. p = Peer(n) /\ Kind(Head(mail[n]).msg) = "REP_OFFERS"
  BY <1>1 DEF Handles, Kind
<1>3. inter[n][p] # <<>>
  BY <1>2, StageIs
<1>4. Becomes(Pop(Send(Taken(n), n, p, [sig |-> "ACK"]), n, p))
  BY <1>2 DEF Ack
<1>5. \A a, b, d, u :
        /\ Talk(Stage(n, p), Stage(p, n), a, b, Kind(Head(mail[n]).msg), d,
                "no", Blocked(p, n))
        /\ u \in Idle \cup Reports /\ Apart(u, Stage(p, n))
        => /\ a = "none" /\ b = "none"
           /\ Talk(u, Stage(p, n), "ACK", Call(u), d, "none", "no", Blocked(p, n))
  BY <1>2, AnswerComes
<1> QED
  BY <1>1, <1>3, <1>4, <1>5, RepliedEnded

LEMMA CrossedStep ==
  ASSUME IInv, NEW n \in Node, NEW p \in Node, Handles(n, p),
         Kind(Head(mail[n]).msg) = "request",
         Stage(n, p) = "SELFOPT_REQ_CORES_PENDING",
         Becomes(Pop(Taken(n), n, p)), waiting' = waiting, data' = data
  PROVE  IInv'
<1>1. inter[n][p] # <<>>
  BY StageIs
<1>2. \A a, b, d, u :
        /\ Talk(Stage(n, p), Stage(p, n), a, b, Kind(Head(mail[n]).msg), d,
                "no", Blocked(p, n))
        /\ u \in Idle \cup Reports /\ Apart(u, Stage(p, n))
        => /\ b = "none"
           /\ Talk(u, Stage(p, n), First(a, Call(u)), Second(a, b, Call(u)), d,
                   "none", "no", Blocked(p, n))
  BY RequestCrosses
<1> QED
  BY <1>1, <1>2, Over

LEMMA RequestStep ==
  ASSUME IInv, NEW n \in Node, NEW p \in Node, p # n, Handles(n, p),
         Message(Head(mail[n]).msg), Head(mail[n]).msg.sig = "REQ_CORES",
         Kind(Head(mail[n]).msg) = "request", Stage(n, p) = "none",
         data' = data,
         \/ /\ Becomes(Send(Taken(n), n, p, Ack))
            /\ waiting' = [waiting EXCEPT ![n] = Head(mail[n])]
         \/ Becomes(Send(Taken(n), n, p, Reject)) /\ waiting' = waiting
  PROVE  IInv'
<1>1. \A k : k # "none" => First("none", k) = k /\ Second("none", "none", k) = "none"
  BY DEF First, Second
<1>2. ASSUME Becomes(Send(Taken(n), n, p, Ack)),
             waiting' = [waiting EXCEPT ![n] = Head(mail[n])]
      PROVE  IInv'
  <2>1. PICK s : s = Head(mail[n])
    OBVIOUS
  <2>2. s.from = p /\ s.msg.body = "request" /\ waiting[n] = NoSignal
    BY <2>1 DEF Handles, Peer, Message, Kind
  <2>3. Calm(n, p, "asked", Blocked(p, n))
    BY <1>2, <2>1, <2>2, CalmAsks
  <2>4. \A a, b, d :
          Talk(Stage(n, p), Stage(p, n), a, b, Kind(Head(mail[n]).msg), d, "no",
               Blocked(p, n)) =>
          /\ b = "none"
          /\ Talk(Stage(n, p), Stage(p, n), First(a, "ACK"), Second(a, b, "ACK"),
                  d, "none", "asked", Blocked(p, n))
    BY <1>1, RequestComes
  <2> QED
    BY <1>2, <2>3, <2>4, Replied DEF Ack
<1>3. ASSUME Becomes(Send(Taken(n), n, p, Reject)), waiting' = waiting
      PROVE  IInv'
  <2>1. Calm(n, p, "no", Blocked(p, n))
    BY <1>3, CalmNow DEF Handles
  <2>2. \A a, b, d :
          Talk(Stage(n, p), Stage(p, n), a, b, Kind(Head(mail[n]).msg), d, "no",
               Blocked(p, n)) =>
          /\ b = "none"
          /\ Talk(Stage(n, p), Stage(p, n), First(a, "REJECT"),
                  Second(a, b, "REJECT"), d, "none", "no", Blocked(p, n))
    BY <1>1, RequestComes
  <2> QED
    BY <1>3, <2>1, <2>2, Replied DEF Reject
<1> QED
  BY <1>2, <1>3

LEMMA OfferStep ==
  ASSUME IInv, NEW n \in Node, NEW p \in Node, p # n, Handles(n, p),
         Message(Head(mail[n]).msg), Head(mail[n]).msg.sig = "REQ_CORES",
         Kind(Head(mail[n]).msg) \in {"offer", "nothing"},
         inter[n][p] # <<>>, Stage(n, p) = "SELFOPT_REQ_CORES", data' = data,
         \/ /\ Becomes(Pop(Send(Taken(n), n, p, Reject), n, p))
            /\ waiting' = waiting
         \/ /\ Becomes(Pop(Send(Taken(n), n, p, Ack), n, p))
            /\ waiting' = waiting /\ Kind(Head(mail[n]).msg) = "nothing"
         \/ /\ Becomes(Send(Taken(n), n, p, Ack))
            /\ waiting' = [waiting EXCEPT ![n] = Head(mail[n])]
            /\ Kind(Head(mail[n]).msg) = "offer"
  PROVE  IInv'
<1>1. ASSUME Becomes(Pop(Send(Taken(n), n, p, Reject), n, p)), waiting' = waiting
      PROVE  IInv'
  <2>1. \A a, b, d, u :
          /\ Talk(Stage(n, p), Stage(p, n), a, b, Kind(Head(mail[n]).msg), d,
                  "no", Blocked(p, n))
          /\ u \in Idle \cup Reports /\ Apart(u, Stage(p, n))
          => /\ a = "none" /\ b = "none"
             /\ Talk(u, Stage(p, n), "REJECT", Call(u), d, "none", "no",
                     Blocked(p, n))
    BY OfferEnds
  <2> QED
    BY <1>1, <2>1, RepliedEnded DEF Reject
<1>2. ASSUME Becomes(Pop(Send(Taken(n), n, p, Ack), n, p)), waiting' = waiting,
             Kind(Head(mail[n]).msg) = "nothing"
      PROVE  IInv'
  <2>1. \A a, b, d, u :
          /\ Talk(Stage(n, p), Stage(p, n), a, b, Kind(Head(mail[n]).msg), d,
                  "no", Blocked(p, n))
          /\ u \in Idle \cup Reports /\ Apart(u, Stage(p, n))
          => /\ a = "none" /\ b = "none"
             /\ Talk(u, Stage(p, n), "ACK", Call(u), d, "none", "no",
                     Blocked(p, n))
    BY <1>2, OfferEnds
  <2> QED
    BY <1>2, <2>1, RepliedEnded DEF Ack
<1>3. ASSUME Becomes(Send(Taken(n), n, p, Ack)),
             waiting' = [waiting EXCEPT ![n] = Head(mail[n])],
             Kind(Head(mail[n]).msg) = "offer"
      PROVE  IInv'
  <2>1. PICK s : s = Head(mail[n])
    OBVIOUS
  <2>2. s.from = p /\ s.msg.body = "offers" /\ waiting[n] = NoSignal
    BY <1>3, <2>1 DEF Handles, Peer, Message, Kind
  <2>3. Calm(n, p, "offered", Blocked(p, n))
    BY <1>3, <2>1, <2>2, CalmAsks
  <2>4. \A a, b, d :
          Talk(Stage(n, p), Stage(p, n), a, b, Kind(Head(mail[n]).msg), d, "no",
               Blocked(p, n)) =>
          /\ b = "none"
          /\ Talk(Stage(n, p), Stage(p, n), First(a, "ACK"), Second(a, b, "ACK"),
                  d, "none", "offered", Blocked(p, n))
    <3>1. First("none", "ACK") = "ACK" /\ Second("none", "none", "ACK") = "none"
      BY DEF First, Second
    <3> QED
      BY <1>3, <3>1, OfferComes
  <2> QED
    BY <1>3, <2>3, <2>4, Replied DEF Ack
<1> QED
  BY <1>1, <1>2, <1>3

LEMMA ReqCoresStep ==
  ASSUME IInv, NEW n \in Node, ReqCores(n)
  PROVE  IInv'
<1>1. data' = data /\ Receives(n, "REQ_CORES")
  BY DEF ReqCores
<1>2. DOMAIN waiting' = Node /\ DOMAIN data' = Node
  BY <1>1 DEF ReqCores, IInv, Shaped
<1>3. PICK p \in Node :
        /\ p # n /\ Handles(n, p) /\ Message(Head(mail[n]).msg)
        /\ Head(mail[n]).msg.sig = "REQ_CORES"
        /\ \E a, b, d :
             Talk(Stage(n, p), Stage(p, n), a, b, Kind(Head(mail[n]).msg), d,
                  "no", Blocked(p, n))
  BY <1>1, <1>2, Received
<1>4. p = Peer(n)
  BY <1>3 DEF Handles
<1> DEFINE m == Head(mail[n]).msg
           branch == ReqBranch(n, p, Brings(m))
<1>5. /\ branch = "offer" =>
           /\ Becomes(Send(Taken(n), n, p, Ack))
           /\ waiting' = [waiting EXCEPT ![n] = Head(mail[n])]
      /\ branch = "collect" =>
           /\ Becomes(Send(Taken(n), n, p, Ack))
           /\ waiting' = [waiting EXCEPT ![n] = Head(mail[n])]
      /\ branch = "reject" =>
           Becomes(Send(Taken(n), n, p, Reject)) /\ waiting' = waiting
      /\ branch = "stray" =>
           Becomes(Pop(Send(Taken(n), n, p, Reject), n, p)) /\ waiting' = waiting
      /\ branch = "nothing offered" =>
           Becomes(Pop(Send(Taken(n), n, p, Ack), n, p)) /\ waiting' = waiting
      /\ branch = "crossed" =>
           Becomes(Pop(Taken(n), n, p)) /\ waiting' = waiting
  BY <1>4 DEF ReqCores
<1>6. /\ m.body \in {"request", "offers"}
      /\ Kind(m) = IF m.body = "request" THEN "request"
                   ELSE IF m.some THEN "offer" ELSE "nothing"
  BY <1>3 DEF Message, Kind
<1>7. CASE Kind(m) = "request"
  <2>1. Stage(n, p) \in Idle
    BY <1>3, <1>7, RequestStage
  <2>2. HeadType(n, p) = Stage(n, p)
    BY <2>1, StageIs DEF Idle
  <2>3. CASE Stage(n, p) = "none"
    <3>1. branch \in {"offer", "reject"}
      BY <2>2, <2>3 DEF ReqBranch
    <3> QED
      BY <1>1, <1>3, <1>5, <1>7, <2>3, <3>1, RequestStep
  <2>4. CASE Stage(n, p) = "SELFOPT_REQ_CORES_PENDING"
    <3>1. branch = "crossed"
      BY <2>2, <2>4 DEF ReqBranch
    <3> QED
      BY <1>1, <1>3, <1>5, <1>7, <2>4, <3>1, CrossedStep
  <2> QED
    BY <2>1, <2>3, <2>4 DEF Idle
<1>8. CASE Kind(m) \in {"offer", "nothing"}
  <2>1. Stage(n, p) = "SELFOPT_REQ_CORES"
    <3>1. PICK k \in {"offer", "nothing"} : k = Kind(m)
      BY <1>8
    <3>2. PICK a, b, d :
            Talk(Stage(n, p), Stage(p, n), a, b, k, d, "no", Blocked(p, n))
      BY <1>3, <3>1
    <3> QED
      BY <3>2, OfferComes
  <2>2. HeadType(n, p) = "SELFOPT_REQ_CORES" /\ inter[n][p] # <<>>
    BY <2>1, StageIs
  <2>3. Brings(m) <=> Kind(m) = "offer"
    BY <1>6, <1>8 DEF Brings
  <2>4. \/ branch = "stray"
        \/ branch = "collect" /\ Kind(m) = "offer"
        \/ branch = "nothing offered" /\ Kind(m) = "nothing"
    BY <1>8, <2>2, <2>3 DEF ReqBranch
  <2> QED
    BY <1>1, <1>3, <1>5, <1>8, <2>1, <2>2, <2>4, OfferStep
<1> QED
  BY <1>6, <1>7, <1>8

LEMMA AckDataStep ==
  ASSUME IInv, NEW n \in Node, AckData(n)
  PROVE  IInv'
<1>1. waiting' = waiting /\ Receives(n, "ACK") /\ PeerWaits(n, Peer(n))
  BY DEF AckData
<1>2. DOMAIN waiting' = Node /\ DOMAIN data' = Node
  BY DEF AckData, IInv, Shaped
<1>3. PICK p \in Node :
        /\ p # n /\ Handles(n, p) /\ Head(mail[n]).msg.sig = "ACK"
        /\ \E a, b, d :
             Talk(Stage(n, p), Stage(p, n), a, b, Kind(Head(mail[n]).msg), d,
                  "no", Blocked(p, n))
  BY <1>1, <1>2, Received
<1>4. p = Peer(n) /\ Kind(Head(mail[n]).msg) = "ACK"
  BY <1>3 DEF Handles, Kind
<1>5. PICK cores, x :
        /\ x.type = IF cores = {} THEN "SELFOPT_REQ_CORES" ELSE "AGENT_OFFER_SENT"
        /\ HeadType(n, p) = IF cores = {} THEN "SELFOPT_REQ_CORES_PENDING"
                            ELSE "REP_AGENT_REQ_CORES"
        /\ cores # {} => cores = Head(inter[n][p]).cores
        /\ Becomes(Rehead(Taken(n), n, p, x))
        /\ data' = [data EXCEPT ![p] = Append(@, [from |-> n, cores |-> cores])]
  <2>1. CASE HeadType(n, p) = "REP_AGENT_REQ_CORES"
    <3> DEFINE cores == Head(inter[n][p]).cores
               x == [type |-> "AGENT_OFFER_SENT", cores |-> cores]
    <3>1. cores # {}
      BY <1>1, <1>4, <2>1 DEF PeerWaits
    <3>2. /\ Becomes(Rehead(Taken(n), n, p, x))
          /\ data' = [data EXCEPT ![p] =
                        Append(@, [from |-> n, cores |-> cores])]
      BY <1>4, <2>1 DEF AckData
    <3>3. x.type = "AGENT_OFFER_SENT"
      OBVIOUS
    <3> HIDE DEF x
    <3> QED
      BY <2>1, <3>1, <3>2, <3>3
  <2>2. CASE HeadType(n, p) = "SELFOPT_REQ_CORES_PENDING"
    <3> DEFINE x == [type |-> "SELFOPT_REQ_CORES"]
    <3>1. /\ Becomes(Rehead(Taken(n), n, p, x))
          /\ data' = [data EXCEPT ![p] = Append(@, [from |-> n, cores |-> {}])]
      BY <1>4, <2>2 DEF AckData
    <3>2. x.type = "SELFOPT_REQ_CORES"
      OBVIOUS
    <3> HIDE DEF x
    <3> QED
      BY <2>2, <3>1, <3>2
  <2> QED
    BY <1>1, <1>4, <2>1, <2>2 DEF PeerWaits
<1>6. /\ Stage(n, p) = IF cores = {} THEN "SELFOPT_REQ_CORES_PENDING" ELSE "offer"
      /\ inter[n][p] # <<>> /\ Queued(inter[n][p], n, p)
      /\ HeadType(n, p) \in May(n, p)
  BY <1>5, StageIs
<1>7. x.type \in May(n, p)
  BY <1>5, <1>6 DEF May, Asker, Offers, Reports
<1> DEFINE w == Stage(p, n)
           y == IF cores = {} THEN "request" ELSE "cores"
<1>8. /\ Blocked(p, n) = IF cores = {} THEN "asked" ELSE "offered"
      /\ \A a, b, d :
           Talk(Stage(n, p), w, a, b, "ACK", d, "no", Blocked(p, n)) =>
           a = "none" /\ b = "none" /\ Talk(x.type, w, a, b, d, "none", "no", y)
  <2>1. PICK v \in {"SELFOPT_REQ_CORES_PENDING", "offer"} :
          v = Stage(n, p) /\ (v = "offer" <=> cores # {})
    BY <1>6
  <2>2. PICK a, b, d :
          Talk(v, w, a, b, "ACK", d, "no", Blocked(p, n))
    BY <1>3, <1>4, <2>1
  <2>3. Blocked(p, n) = IF v = "offer" THEN "offered" ELSE "asked"
    BY <2>2, AckAsksData
  <2>4. ASSUME NEW e, NEW f, NEW g,
               Talk(v, w, e, f, "ACK", g, "no", Blocked(p, n))
        PROVE  e = "none" /\ f = "none"
               /\ Talk(x.type, w, e, f, g, "none", "no", y)
    <3>1. /\ g = "none" /\ e = "none" /\ f = "none"
          /\ v = "offer" => Talk("AGENT_OFFER_SENT", w, e, f, g, "none", "no",
                                 "cores")
          /\ v # "offer" => Talk("SELFOPT_REQ_CORES", w, e, f, g, "none", "no",
                                 "request")
      BY <2>4, AckAsksData
    <3> QED
      BY <1>5, <2>1, <3>1
  <2> QED
    BY <2>1, <2>3, <2>4
<1>9. Calm(n, p, "no", y)
  BY <1>1, <1>3, <1>5, <1>8, CalmGives DEF Handles
<1>10. PICK r : r = Rehead(Taken(n), n, p, x)
  OBVIOUS
<1>11. /\ IsNet(r) /\ OnlyWith(Taken(n), r, n, p)
       /\ r.mail = Taken(n).mail
       /\ r.inter[n][p] = <<x>> \o Tail(Taken(n).inter[n][p])
  <2>1. IsNet(Taken(n))
    BY TakenIs DEF IInv
  <2> QED
    BY <1>10, <2>1, ReheadIs
<1>12. r.inter[n][p] = <<x>> \o Tail(inter[n][p]) /\ r.mail[p] = mail[p]
  BY <1>3, <1>11, TakenIs DEF IInv
<1>13. Queued(r.inter[n][p], n, p) /\ Top(r.inter[n][p]) = x.type
  <2>1. /\ Queued(r.inter[n][p], n, p)
        /\ r.inter[n][p] # <<>> /\ Head(r.inter[n][p]) = x
    BY <1>6, <1>7, <1>12, QueueGoesOn
  <2> QED
    BY <1>5, <2>1 DEF Top
<1>14. Extends(mail[p], mail[p], n, "none") /\ Extends(mail[p], r.mail[p], n, "none")
  BY <1>12 DEF Extends
<1>15. \A z, b : First(z, "none") = z /\ Second(z, b, "none") = b
  BY DEF First, Second
<1>16. \A a, b, d :
         Talk(Stage(n, p), Stage(p, n), a, b, Kind(Head(mail[n]).msg), d, "no",
              Blocked(p, n)) =>
         /\ "none" = "none" \/ b = "none"
         /\ "none" = "none" \/ Second(a, b, "none") = "none"
         /\ Talk(Top(r.inter[n][p]), Stage(p, n),
                 First(First(a, "none"), "none"),
                 Second(First(a, "none"), Second(a, b, "none"), "none"),
                 d, "none", "no", y)
  <2> HIDE DEF y, w
  <2> QED
    BY <1>4, <1>8, <1>13, <1>15 DEF w
<1>17. Becomes(r)
  BY <1>5, <1>10
<1> HIDE DEF y, w
<1> QED
  BY <1>2, <1>3, <1>9, <1>11, <1>13, <1>14, <1>16, <1>17, PeerStep DEF Handles

\* Nobody waits for itself.
LEMMA NotSelf ==
  ASSUME IInv, NEW n \in Node
  PROVE  ~ WaitsFor(n, n)
<1>1. Queued(inter[n][n], n, n) /\ May(n, n) = {}
  BY DEF IInv, Queues, May
<1>2. Stage(n, n) = "none"
  BY <1>1, TopIs DEF Stage
<1>3. PICK a, b, c, d :
        Talk("none", "none", a, b, c, d, Blocked(n, n), Blocked(n, n))
  BY <1>2 DEF IInv, Talked
<1>4. Blocked(n, n) = "no"
  BY <1>3, Alone
<1> QED
  BY <1>4 DEF Blocked

\* Without a signal handled, n sends p one of kind k.
LEMMA NetStep ==
  ASSUME IInv, NEW n \in Node, NEW p \in Node, p # n,
         NEW r, IsNet(r), OnlyWith(Net, r, n, p), Becomes(r),
         NEW x, NEW y, Calm(n, p, x, y),
         DOMAIN waiting' = Node, DOMAIN data' = Node,
         Queued(r.inter[n][p], n, p), NEW k, Extends(mail[p], r.mail[p], n, k),
         \A a, b, c, d :
           Talk(Stage(n, p), Stage(p, n), a, b, c, d, Blocked(n, p),
                Blocked(p, n)) =>
           /\ k = "none" \/ b = "none"
           /\ Talk(Top(r.inter[n][p]), Stage(p, n), First(a, k),
                   Second(a, b, k), c, d, x, y)
  PROVE  IInv'
<1>1. IsNet(Net) /\ Net.inter = inter /\ Net.mail = mail
  BY NowIs DEF IInv
<1>2. inter' = r.inter /\ mail' = r.mail
  BY DEF Becomes
<1>3. /\ Shaped' /\ mail'[n] = mail[n]
      /\ \A m \in Node : m # n => inter'[m] = inter[m]
      /\ \A m \in Node : m # p => inter'[n][m] = inter[n][m] /\ mail'[m] = mail[m]
  BY <1>1, <1>2 DEF Shaped, IsNet, OnlyWith
<1>4. PICK a, b, c, d :
        /\ Line(mail[p], n, a, b) /\ Line(mail[n], p, c, d)
        /\ Talk(Stage(n, p), Stage(p, n), a, b, c, d, Blocked(n, p),
                Blocked(p, n))
  BY DEF IInv, Talked
<1>5. /\ k = "none" \/ b = "none"
      /\ Talk(Top(r.inter[n][p]), Stage(p, n), First(a, k), Second(a, b, k),
              c, d, x, y)
  BY <1>4
<1>6. \A z, e : First(z, "none") = z /\ Second(z, e, "none") = e
  BY DEF First, Second
<1>7. Fits(n, p)
  <2>1. /\ inter'[p] = inter[p] /\ Queued(inter'[n][p], n, p)
        /\ Extends(mail[p], mail[p], n, "none") /\ Extends(mail[p], mail'[p], n, k)
        /\ Line(mail'[n], p, c, d)
    BY <1>2, <1>3, <1>4 DEF Extends
  <2>2. Blocked(n, p)' = x /\ Blocked(p, n)' = y
    BY DEF Calm
  <2>3. /\ "none" = "none" \/ b = "none"
        /\ k = "none" \/ Second(a, b, "none") = "none"
        /\ Talk(Top(inter'[n][p]), Stage(p, n), First(First(a, "none"), k),
                Second(First(a, "none"), Second(a, b, "none"), k), c, d,
                Blocked(n, p)', Blocked(p, n)')
    BY <1>2, <1>5, <1>6, <2>2
  <2> QED
    BY <1>4, <2>1, <2>3, PeerFits
<1>8. Listed(mail'[n]) /\ \A m : m # p => Unread(n, m)
  BY <1>3 DEF Unread, IInv, Lists
<1>9. \A m \in Node : m \notin {n, p} => Aside(n, m)
  BY <1>3 DEF Aside, Extends
<1>10. inter'[n][n] = inter[n][n]
  BY <1>3
<1> QED
  BY <1>3, <1>7, <1>8, <1>9, <1>10, Stepped

\* The data a handler waits for.
LEMMA DataCome ==
  ASSUME IInv, NEW n \in Node, waiting[n] # NoSignal, data[n] # <<>>,
         waiting' = [waiting EXCEPT ![n] = NoSignal],
         data' = [data EXCEPT ![n] = Tail(@)]
  PROVE  \E p \in Node :
           /\ p = waiting[n].from /\ p # n
           /\ Blocked(n, p) \in {"request", "cores"}
           /\ Calm(n, p, "no", Blocked(p, n))
           /\ DOMAIN waiting' = Node /\ DOMAIN data' = Node
<1>1. PICK p \in Node : p = waiting[n].from /\ WaitsFor(n, p)
  BY DEF IInv, Waits, WaitsFor
<1>2. p # n
  BY <1>1, NotSelf
<1>3. Blocked(n, p) \in {"request", "cores"}
  BY <1>1 DEF Blocked
<1>4. Calm(n, p, "no", Blocked(p, n))
  BY <1>1, <1>2, CalmTakes
<1> QED
  BY <1>1, <1>2, <1>3, <1>4 DEF IInv, Shaped

LEMMA OfferCoresStep ==
  ASSUME IInv, NEW n \in Node, OfferCores(n)
  PROVE  IInv'
<1>1. PICK p \in Node :
        /\ p = waiting[n].from /\ p # n
        /\ Blocked(n, p) \in {"request", "cores"}
        /\ Calm(n, p, "no", Blocked(p, n))
        /\ DOMAIN waiting' = Node /\ DOMAIN data' = Node
  BY DataCome DEF OfferCores
<1>2. HeadType(n, p) = "none"
  BY <1>1 DEF OfferCores
<1>3. PICK x : /\ x.type = "REP_AGENT_REQ_CORES"
               /\ Becomes(Post(Net, n, p, x))
  <2>1. PICK cores :
          Becomes(Post(Net, n, p, [type |-> "REP_AGENT_REQ_CORES",
                                   cores |-> cores]))
    BY <1>1 DEF OfferCores
  <2> DEFINE x == [type |-> "REP_AGENT_REQ_CORES", cores |-> cores]
  <2>2. x.type = "REP_AGENT_REQ_CORES"
    OBVIOUS
  <2> HIDE DEF x
  <2> QED
    BY <2>1, <2>2 DEF x
<1>4. inter[n][p] = <<>> /\ Stage(n, p) = "none" /\ Queued(inter[n][p], n, p)
  BY <1>2, StageIs
<1> DEFINE u == IF x.cores # {} THEN "offer" ELSE "nothing"
<1>5. /\ Stage(p, n) = "SELFOPT_REQ_CORES"
      /\ \A a, b, c, d :
           Talk(Stage(n, p), Stage(p, n), a, b, c, d, Blocked(n, p),
                Blocked(p, n)) =>
           /\ a = "none" /\ b = "none"
           /\ Talk(u, Stage(p, n), u, "none", c, d, "no", Blocked(p, n))
  <2>1. PICK k \in {"request", "cores"} : k = Blocked(n, p)
    BY <1>1
  <2>2. PICK a, b, c, d :
          Talk("none", Stage(p, n), a, b, c, d, k, Blocked(p, n))
    BY <1>1, <1>4, <2>1 DEF IInv, Talked
  <2>3. Stage(p, n) = "SELFOPT_REQ_CORES"
    BY <2>2, RegionComes
  <2>4. u \in {"offer", "nothing"}
    OBVIOUS
  <2> HIDE DEF u
  <2> QED
    BY <1>4, <2>1, <2>3, <2>4, RegionComes
<1>6. x.type \in May(n, p)
  <2>1. HeadType(p, n) = "SELFOPT_REQ_CORES"
    BY <1>5, StageIs
  <2>2. "SELFOPT_REQ_CORES" \in May(p, n)
    BY <2>1, StageIs
  <2>3. p \in Agent
    BY <2>2 DEF May, Offers, Reports
  <2> QED
    BY <1>1, <1>3, <2>3 DEF May, Offers
<1>7. PICK r : r = Post(Net, n, p, x)
  OBVIOUS
<1>8. /\ IsNet(r) /\ OnlyWith(Net, r, n, p) /\ Becomes(r)
      /\ r.inter[n][p] = Append(inter[n][p], x)
      /\ r.mail[p] = Append(mail[p], [from |-> n, msg |-> SignalOf(x)])
  <2>1. PICK net : net = Net
    OBVIOUS
  <2>2. IsNet(net) /\ net.inter = inter /\ net.mail = mail
    BY <2>1, NowIs DEF IInv
  <2>3. Posts(net, r, n, p, x)
    BY <1>7, <2>1 DEF Posts
  <2>4. /\ IsNet(r) /\ OnlyWith(net, r, n, p)
        /\ r.inter[n][p] = Append(net.inter[n][p], x)
        /\ r.mail[p] = IF net.inter[n][p] = <<>>
                       THEN Append(net.mail[p], [from |-> n, msg |-> SignalOf(x)])
                       ELSE net.mail[p]
    BY SMTT(30), <2>2, <2>3, PostIs
  <2> QED
    BY <1>3, <1>4, <1>7, <2>1, <2>2, <2>4
<1>9. Queued(r.inter[n][p], n, p) /\ Top(r.inter[n][p]) = u
  <2>1. PICK q : q = inter[n][p]
    OBVIOUS
  <2>2. Queued(q, n, p) /\ q = <<>>
    BY <1>4, <2>1
  <2>3. /\ Queued(Append(q, x), n, p) /\ Append(q, x) # <<>>
        /\ Head(Append(q, x)) = x
    BY <1>6, <2>2, QueueGrows
  <2> QED
    BY <1>3, <1>8, <2>1, <2>3 DEF Top
<1>10. Extends(mail[p], r.mail[p], n, u) /\ u # "none"
  <2>1. Counts(SignalOf(x), u) /\ u # "none"
    BY <1>3, Signals DEF Counts
  <2> QED
    BY <1>8, <2>1, Sent
<1> HIDE DEF u
<1>11. \A a, b, c, d :
         Talk(Stage(n, p), Stage(p, n), a, b, c, d, Blocked(n, p),
              Blocked(p, n)) =>
         /\ u = "none" \/ b = "none"
         /\ Talk(Top(r.inter[n][p]), Stage(p, n), First(a, u),
                 Second(a, b, u), c, d, "no", Blocked(p, n))
  <2>1. First("none", u) = u /\ Second("none", "none", u) = "none"
    BY DEF First, Second
  <2> QED
    BY <1>5, <1>9, <2>1
<1> QED
  BY <1>1, <1>8, <1>9, <1>10, <1>11, NetStep

LEMMA CollectOfferStep ==
  ASSUME IInv, NEW n \in Node, CollectOffer(n)
  PROVE  IInv'
<1>1. PICK p \in Node :
        /\ p = waiting[n].from /\ p # n
        /\ Blocked(n, p) \in {"request", "cores"}
        /\ Calm(n, p, "no", Blocked(p, n))
        /\ DOMAIN waiting' = Node /\ DOMAIN data' = Node
  BY DataCome DEF CollectOffer
<1>2. HeadType(n, p) = "SELFOPT_REQ_CORES"
  BY <1>1 DEF CollectOffer
<1>3. PICK x : /\ x.type = "REP_AGENT_OFFER_PENDING"
               /\ Becomes(Rehead(Net, n, p, x))
  <2> DEFINE x == [type |-> "REP_AGENT_OFFER_PENDING"]
  <2>1. x.type = "REP_AGENT_OFFER_PENDING" /\ Becomes(Rehead(Net, n, p, x))
    BY <1>1 DEF CollectOffer
  <2> HIDE DEF x
  <2> QED
    BY <2>1
<1>4. /\ inter[n][p] # <<>> /\ Stage(n, p) = "SELFOPT_REQ_CORES"
      /\ Queued(inter[n][p], n, p) /\ "SELFOPT_REQ_CORES" \in May(n, p)
  BY <1>2, StageIs
<1>5. x.type \in May(n, p)
  BY <1>3, <1>4 DEF May, Asker, Offers, Reports
<1>6. PICK r : r = Rehead(Net, n, p, x)
  OBVIOUS
<1>7. /\ IsNet(r) /\ OnlyWith(Net, r, n, p) /\ Becomes(r)
      /\ r.mail = mail /\ r.inter[n][p] = <<x>> \o Tail(inter[n][p])
  <2>1. IsNet(Net) /\ Net.inter = inter /\ Net.mail = mail
    BY NowIs DEF IInv
  <2>2. /\ IsNet(r) /\ OnlyWith(Net, r, n, p) /\ r.mail = Net.mail
        /\ r.inter[n][p] = <<x>> \o Tail(Net.inter[n][p])
    BY SMTT(30), <1>6, <2>1, ReheadIs
  <2> QED
    BY <1>3, <1>6, <2>1, <2>2
<1>8. /\ Queued(r.inter[n][p], n, p)
      /\ Top(r.inter[n][p]) = "REP_AGENT_OFFER_PENDING"
  <2>1. /\ Queued(r.inter[n][p], n, p)
        /\ r.inter[n][p] # <<>> /\ Head(r.inter[n][p]) = x
    BY <1>4, <1>5, <1>7, QueueGoesOn
  <2> QED
    BY <1>3, <2>1 DEF Top
<1>9. Extends(mail[p], r.mail[p], n, "none")
  BY <1>7 DEF Extends
<1>10. \A a, b, c, d :
         Talk(Stage(n, p), Stage(p, n), a, b, c, d, Blocked(n, p),
              Blocked(p, n)) =>
         /\ "none" = "none" \/ b = "none"
         /\ Talk(Top(r.inter[n][p]), Stage(p, n), First(a, "none"),
                 Second(a, b, "none"), c, d, "no", Blocked(p, n))
  <2>1. PICK k \in {"request", "cores"} : k = Blocked(n, p)
    BY <1>1
  <2>2. \A z, b : First(z, "none") = z /\ Second(z, b, "none") = b
    BY DEF First, Second
  <2> QED
    BY <1>4, <1>8, <2>1, <2>2, CoresCome
<1> QED
  BY <1>1, <1>7, <1>8, <1>9, <1>10, NetStep

\* Between the signal handled and r, the queues of n for others than p are the
\* same or a report has joined them.
Spreads(r, n, p) ==
  /\ \A m \in Node : m # n => r.inter[m] = inter[m]
  /\ r.inter[n][n] = inter[n][n] /\ r.mail[n] = Tail(mail[n])
  /\ \A m \in Node : m \notin {n, p} =>
       \/ r.inter[n][m] = inter[n][m] /\ r.mail[m] = mail[m]
       \/ Joins(inter[n][m], r.inter[n][m], mail[m], r.mail[m], n, m)

\* n sends the peer signals, as in PeerStep, and others reports.
LEMMA SpreadStep ==
  ASSUME IInv, NEW n \in Node, NEW p \in Node, Handles(n, p),
         NEW r, IsNet(r), Spreads(r, n, p), Becomes(r),
         waiting' = waiting, data' = data,
         Queued(r.inter[n][p], n, p), NEW k, NEW l, NEW q,
         Extends(mail[p], q, n, k), Extends(q, r.mail[p], n, l),
         \A a, b, d :
           Talk(Stage(n, p), Stage(p, n), a, b,
                Kind(Head(mail[n]).msg), d, "no", Blocked(p, n)) =>
           /\ k = "none" \/ b = "none"
           /\ l = "none" \/ Second(a, b, k) = "none"
           /\ Talk(Top(r.inter[n][p]), Stage(p, n),
                   First(First(a, k), l), Second(First(a, k), Second(a, b, k), l),
                   d, "none", "no", Blocked(p, n))
  PROVE  IInv'
<1>1. /\ p # n /\ Listed(Tail(mail[n]))
      /\ \A m, a, b :
           m # p /\ Line(mail[n], m, a, b) => Line(Tail(mail[n]), m, a, b)
  BY Handled DEF Handles
<1>2. PICK a, b, d :
        /\ Line(mail[p], n, a, b) /\ Line(Tail(mail[n]), p, d, "none")
        /\ Talk(Stage(n, p), Stage(p, n), a, b, Kind(Head(mail[n]).msg), d, "no",
                Blocked(p, n))
  BY Handled DEF Handles
<1>3. inter' = r.inter /\ mail' = r.mail
  BY DEF Becomes
<1>4. /\ mail'[n] = Tail(mail[n]) /\ Shaped' /\ inter'[n][n] = inter[n][n]
      /\ \A m \in Node : m # n => inter'[m] = inter[m]
      /\ \A m \in Node : m \notin {n, p} => Aside(n, m)
  BY <1>3 DEF Spreads, Aside, Extends, Shaped, IsNet, Handles
<1>5. /\ k = "none" \/ b = "none"
      /\ l = "none" \/ Second(a, b, k) = "none"
      /\ Talk(Top(r.inter[n][p]), Stage(p, n), First(First(a, k), l),
              Second(First(a, k), Second(a, b, k), l), d, "none", "no",
              Blocked(p, n))
  BY <1>2
<1>6. Calm(n, p, "no", Blocked(p, n))
  BY CalmNow DEF Handles
<1>7. Fits(n, p)
  <2>1. Blocked(n, p)' = "no" /\ Blocked(p, n)' = Blocked(p, n)
    BY <1>6 DEF Calm
  <2>2. /\ inter'[p] = inter[p] /\ Queued(inter'[n][p], n, p)
        /\ Extends(q, mail'[p], n, l) /\ Line(mail'[n], p, d, "none")
        /\ Talk(Top(inter'[n][p]), Stage(p, n), First(First(a, k), l),
              Second(First(a, k), Second(a, b, k), l), d, "none",
              Blocked(n, p)', Blocked(p, n)')
    BY <1>1, <1>2, <1>3, <1>4, <1>5, <2>1
  <2> QED
    BY <1>1, <1>2, <1>5, <2>2, PeerFits
<1>8. Listed(mail'[n]) /\ \A m : m # p => Unread(n, m)
  BY <1>1, <1>4 DEF Unread
<1> QED
  BY <1>1, <1>4, <1>6, <1>7, <1>8, Stepped

\* Who gives cores away tells its controller.
LEMMA GivenStep ==
  ASSUME IInv, NEW n \in Agent, Receives(n, "REP_OFFERS"),
         HeadType(n, Peer(n)) = "AGENT_OFFER_SENT",
         NEW x, x.type = "IDAG_REM_CORES_DDS",
         Becomes(Pop(Post(Send(Taken(n), n, Peer(n), Ack), n, idag_mask[n], x),
                     n, Peer(n))),
         waiting' = waiting, data' = data
  PROVE  IInv'
<1>1. PICK p \in Node :
        /\ p # n /\ Handles(n, p) /\ Head(mail[n]).msg.sig = "REP_OFFERS"
  BY Received DEF IInv, Shaped, Node
<1>2. p = Peer(n) /\ Kind(Head(mail[n]).msg) = "REP_OFFERS"
  BY <1>1 DEF Handles, Kind
<1>3. PICK c : c = idag_mask[n]
  OBVIOUS
<1>4. n \in Node /\ c \in Controller /\ c \in Node /\ c \notin Agent
  BY <1>3, ClusterAssumption DEF Core, Node
<1>5. /\ inter[n][p] # <<>> /\ "AGENT_OFFER_SENT" \in May(n, p)
      /\ Queued(inter[n][p], n, p) /\ Queued(inter[p][n], p, n)
  BY <1>2, <1>4, StageIs
<1>6. p \in Agent /\ c \notin {n, p}
  BY <1>4, <1>5 DEF May, Asker, Reports
<1>7. x.type \in Waiting \cap May(n, c)
  BY <1>4, <1>6 DEF May, Waiting, Reports
<1>8. PICK acked : acked = Send(Taken(n), n, p, [sig |-> "ACK"])
  OBVIOUS
<1>9. PICK told : told = Post(acked, n, c, x)
  OBVIOUS
<1>10. PICK r : r = Pop(told, n, p) /\ Becomes(r)
  BY <1>2, <1>3, <1>8, <1>9 DEF Ack
<1>11. /\ IsNet(acked) /\ OnlyWith(Taken(n), acked, n, p)
       /\ acked.inter = inter /\ Extends(mail[p], acked.mail[p], n, "ACK")
  BY <1>1, <1>4, <1>8, Replying
<1>12. \A m \in Node : /\ m \notin {n, p} => acked.mail[m] = mail[m]
                       /\ acked.mail[n] = Tail(mail[n])
  BY <1>1, <1>4, <1>11, TakenIs DEF OnlyWith, IInv
<1>13. /\ IsNet(told) /\ OnlyWith(acked, told, n, c)
       /\ told.inter[n][c] = Append(acked.inter[n][c], x)
       /\ told.mail[c] =
            IF acked.inter[n][c] = <<>>
            THEN Append(acked.mail[c], [from |-> n, msg |-> SignalOf(x)])
            ELSE acked.mail[c]
  <2>1. IsNet(acked) /\ Posts(acked, told, n, c, x)
    BY <1>9, <1>11 DEF Posts
  <2> QED
    BY <1>4, <2>1, PostIs
<1>14. /\ told.inter[n][p] = inter[n][p] /\ told.mail[p] = acked.mail[p]
       /\ Joins(inter[n][c], told.inter[n][c], mail[c], told.mail[c], n, c)
  <2>1. /\ told.inter[n][c] = Append(inter[n][c], x)
        /\ told.mail[c] =
             IF inter[n][c] = <<>>
             THEN Append(mail[c], [from |-> n, msg |-> SignalOf(x)])
             ELSE mail[c]
    BY <1>4, <1>6, <1>11, <1>12, <1>13
  <2>2. Joins(inter[n][c], Append(inter[n][c], x), mail[c], told.mail[c], n, c)
    BY <1>7, <2>1, Joining
  <2> QED
    BY <1>6, <1>11, <1>13, <2>1, <2>2 DEF OnlyWith
<1> DEFINE u == Top(r.inter[n][p])
<1>15. /\ IsNet(r) /\ OnlyWith(told, r, n, p) /\ Queued(r.inter[n][p], n, p)
       /\ u \in Idle \cup Reports /\ Extends(acked.mail[p], r.mail[p], n, Call(u))
  BY <1>4, <1>5, <1>10, <1>13, <1>14, PopIs
<1>16. Apart(u, Stage(p, n))
  BY <1>4, <1>5, <1>15, Fit DEF Stage
<1>17. Spreads(r, n, p)
  <2>1. \A m \in Node : m # n => r.inter[m] = inter[m]
    BY <1>11, <1>13, <1>15 DEF OnlyWith
  <2>2. r.inter[n][n] = inter[n][n] /\ r.mail[n] = Tail(mail[n])
    BY <1>1, <1>4, <1>6, <1>11, <1>12, <1>13, <1>15 DEF OnlyWith
  <2>3. r.inter[n][c] = told.inter[n][c] /\ r.mail[c] = told.mail[c]
    BY <1>4, <1>6, <1>15 DEF OnlyWith
  <2>4. \A m \in Node : m \notin {n, p, c} =>
          r.inter[n][m] = inter[n][m] /\ r.mail[m] = mail[m]
    BY <1>11, <1>12, <1>13, <1>15 DEF OnlyWith
  <2>5. Joins(inter[n][c], r.inter[n][c], mail[c], r.mail[c], n, c)
    BY <1>14, <2>3
  <2> QED
    BY <2>1, <2>2, <2>4, <2>5 DEF Spreads
<1> HIDE DEF u
<1>18. \A a, b, d :
         Talk(Stage(n, p), Stage(p, n), a, b, Kind(Head(mail[n]).msg), d, "no",
              Blocked(p, n)) =>
         /\ "ACK" = "none" \/ b = "none"
         /\ Call(u) = "none" \/ Second(a, b, "ACK") = "none"
         /\ Talk(u, Stage(p, n), First(First(a, "ACK"), Call(u)),
                 Second(First(a, "ACK"), Second(a, b, "ACK"), Call(u)),
                 d, "none", "no", Blocked(p, n))
  <2>1. \A l : /\ First(First("none", "ACK"), l) = "ACK"
               /\ Second(First("none", "ACK"), Second("none", "none", "ACK"), l) = l
               /\ Second("none", "none", "ACK") = "none"
    BY DEF First, Second
  <2> QED
    BY <1>2, <1>15, <1>16, <2>1, AnswerComes
<1> QED
  BY <1>1, <1>4, <1>10, <1>11, <1>15, <1>17, <1>18, SpreadStep DEF u

LEMMA RepOffersYesStep ==
  ASSUME IInv, NEW n \in Node, RepOffersYes(n)
  PROVE  IInv'
<1>1. /\ waiting' = waiting /\ data' = data /\ Receives(n, "REP_OFFERS")
      /\ HeadType(n, Peer(n)) = "AGENT_OFFER_SENT"
  BY DEF RepOffersYes
<1>2. CASE n \in Controller
  <2>1. Becomes(Pop(Send(Taken(n), n, Peer(n), Ack), n, Peer(n)))
    BY <1>2 DEF RepOffersYes
  <2> QED
    BY <1>1, <2>1, AnsweredStep
<1>3. CASE n \notin Controller
  <2> DEFINE cores == Head(inter[n][Peer(n)]).cores
             x == [type |-> "IDAG_REM_CORES_DDS", cores |-> cores,
                   old |-> n, new |-> Peer(n)]
  <2>1. x.type = "IDAG_REM_CORES_DDS" /\ n \in Agent
    BY <1>3 DEF Node
  <2>2. Becomes(Pop(Post(Send(Taken(n), n, Peer(n), Ack), n, idag_mask[n], x),
                    n, Peer(n)))
    BY <1>3 DEF RepOffersYes
  <2> HIDE DEF x
  <2> QED
    BY <1>1, <2>1, <2>2, GivenStep
<1> QED
  BY <1>2, <1>3

\* What controller c hears of p, it passes on, if p is a manager.
PostsAll(net, r, n, items) == r = PostAll(net, n, items)
Forwards(net, r, c, x) == r = Forward(net, c, x)
Reporting(x) == \A cores : [x EXCEPT !.cores = cores].type \in Reports

LEMMA ForwardIs ==
  ASSUME NEW net, IsNet(net), NEW c \in Controller, NEW x, Reporting(x), NEW r,
         Forwards(net, r, c, x)
  PROVE  /\ IsNet(r) /\ \A m \in Node : m # c => r.inter[m] = net.inter[m]
         /\ \A m \in Node : m \notin Controller \ {c} =>
              r.inter[c][m] = net.inter[c][m] /\ r.mail[m] = net.mail[m]
         /\ \A m \in Node :
              \/ r.inter[c][m] = net.inter[c][m] /\ r.mail[m] = net.mail[m]
              \/ Joins(net.inter[c][m], r.inter[c][m], net.mail[m], r.mail[m],
                       c, m)
<1> DEFINE others == {d \in Controller \ {c} : InCluster(d, x.cores) # {}}
           items == [d \in others |-> [x EXCEPT !.cores = InCluster(d, @)]]
<1>1. r = PostAll(net, c, items)
  BY DEF Forward, Forwards
<1>2. \A p \in DOMAIN items : items[p].type \in Waiting \cap May(c, p)
  <2> SUFFICES ASSUME NEW p \in others
               PROVE  items[p].type \in Waiting \cap May(c, p)
    OBVIOUS
  <2>1. items[p].type \in Reports
    BY DEF Reporting
  <2>2. p \in Controller /\ p # c /\ p \notin Agent
    BY ClusterAssumption
  <2> QED
    BY <2>1, <2>2 DEF Waiting, May
<1>3. DOMAIN items \subseteq Controller \ {c}
  OBVIOUS
<1> HIDE DEF items
<1>4. /\ IsNet(r) /\ \A m \in Node : m # c => r.inter[m] = net.inter[m]
      /\ \A p \in Node :
           IF p \in DOMAIN items
           THEN Joins(net.inter[c][p], r.inter[c][p], net.mail[p], r.mail[p],
                      c, p)
           ELSE r.inter[c][p] = net.inter[c][p] /\ r.mail[p] = net.mail[p]
  <2>1. c \in Node
    BY DEF Node
  <2> QED
    BY <1>1, <1>2, <2>1, PostAllIs
<1> QED
  BY <1>3, <1>4

\* A report is acknowledged; net has the queues as they were.
LEMMA ReportStep ==
  ASSUME IInv, NEW c \in Controller, NEW p \in Node, p # c, Handles(c, p),
         Kind(Head(mail[c]).msg) \in {"ADD_CORES_DDS", "REM_CORES_DDS", "FINISH"},
         waiting' = waiting, data' = data,
         NEW net, IsNet(net), net.mail = Taken(c).mail,
         \A m \in Node : m # c => net.inter[m] = inter[m],
         \A m \in Node : net.inter[c][m] = inter[c][m],
         NEW acked, Sends(net, acked, c, p, Ack), NEW x, Reporting(x), NEW r,
         r = acked \/ (p \notin Controller /\ Forwards(acked, r, c, x)),
         Becomes(r)
  PROVE  IInv'
<1>1. c \in Node
  BY DEF Node
<1>2. /\ net.mail[c] = Tail(mail[c])
      /\ \A m \in Node : m # c => net.mail[m] = mail[m]
  BY <1>1, TakenIs DEF IInv
<1>3. /\ IsNet(acked) /\ OnlyWith(net, acked, c, p) /\ acked.inter = net.inter
      /\ acked.mail[p] = Append(net.mail[p], [from |-> c, msg |-> Ack])
  BY <1>1, SendIs
<1>4. Extends(mail[p], acked.mail[p], c, "ACK")
  <2>1. Counts(Ack, "ACK") /\ "ACK" # "none"
    BY DEF Counts, Message, Sigs, Kind, Ack
  <2> QED
    BY <1>2, <1>3, <2>1, Sent
<1>5. /\ IsNet(r) /\ \A m \in Node : m # c => r.inter[m] = acked.inter[m]
      /\ \A m \in {c, p} :
           r.inter[c][m] = acked.inter[c][m] /\ r.mail[m] = acked.mail[m]
      /\ \A m \in Node :
           \/ r.inter[c][m] = acked.inter[c][m] /\ r.mail[m] = acked.mail[m]
           \/ Joins(acked.inter[c][m], r.inter[c][m], acked.mail[m], r.mail[m],
                    c, m)
  <2>1. CASE r = acked
    BY <1>3, <2>1
  <2>2. CASE p \notin Controller /\ Forwards(acked, r, c, x)
    <3>1. /\ IsNet(r) /\ \A m \in Node : m # c => r.inter[m] = acked.inter[m]
          /\ \A m \in Node : m \notin Controller \ {c} =>
               r.inter[c][m] = acked.inter[c][m] /\ r.mail[m] = acked.mail[m]
          /\ \A m \in Node :
               \/ r.inter[c][m] = acked.inter[c][m] /\ r.mail[m] = acked.mail[m]
               \/ Joins(acked.inter[c][m], r.inter[c][m], acked.mail[m],
                        r.mail[m], c, m)
      BY <1>3, <2>2, ForwardIs
    <3> QED
      BY <1>1, <2>2, <3>1
  <2> QED
    BY <2>1, <2>2
<1>6. Spreads(r, c, p)
  <2>1. \A m \in Node : m # c => r.inter[m] = inter[m]
    BY <1>3, <1>5
  <2>2. \A m \in Node : m \notin {c, p} =>
          acked.inter[c][m] = inter[c][m] /\ acked.mail[m] = mail[m]
    BY <1>2, <1>3 DEF OnlyWith
  <2>3. r.inter[c][c] = inter[c][c] /\ r.mail[c] = Tail(mail[c])
    BY <1>1, <1>2, <1>3, <1>5 DEF OnlyWith
  <2>4. \A m \in Node : m \notin {c, p} =>
          \/ r.inter[c][m] = inter[c][m] /\ r.mail[m] = mail[m]
          \/ Joins(inter[c][m], r.inter[c][m], mail[m], r.mail[m], c, m)
    <3> SUFFICES ASSUME NEW m \in Node, m \notin {c, p}
                 PROVE  \/ r.inter[c][m] = inter[c][m] /\ r.mail[m] = mail[m]
                        \/ Joins(inter[c][m], r.inter[c][m], mail[m], r.mail[m],
                                 c, m)
      OBVIOUS
    <3>1. acked.inter[c][m] = inter[c][m] /\ acked.mail[m] = mail[m]
      BY <2>2
    <3>2. \/ r.inter[c][m] = acked.inter[c][m] /\ r.mail[m] = acked.mail[m]
          \/ Joins(acked.inter[c][m], r.inter[c][m], acked.mail[m], r.mail[m],
                   c, m)
      BY <1>5
    <3> QED
      BY <3>1, <3>2
  <2> QED
    BY <2>1, <2>3, <2>4 DEF Spreads
<1>7. r.inter[c][p] = inter[c][p] /\ r.mail[p] = acked.mail[p]
  BY <1>3, <1>5
<1>8. Queued(r.inter[c][p], c, p) /\ Top(r.inter[c][p]) = Stage(c, p)
  BY <1>1, <1>7, StageIs DEF Stage
<1>9. Extends(acked.mail[p], r.mail[p], c, "none")
  BY <1>7 DEF Extends
<1>10. \A a, b, d :
         Talk(Stage(c, p), Stage(p, c), a, b, Kind(Head(mail[c]).msg), d, "no",
              Blocked(p, c)) =>
         /\ "ACK" = "none" \/ b = "none"
         /\ "none" = "none" \/ Second(a, b, "ACK") = "none"
         /\ Talk(Top(r.inter[c][p]), Stage(p, c),
                 First(First(a, "ACK"), "none"),
                 Second(First(a, "ACK"), Second(a, b, "ACK"), "none"),
                 d, "none", "no", Blocked(p, c))
  <2>1. PICK k \in {"ADD_CORES_DDS", "REM_CORES_DDS", "FINISH"} :
          k = Kind(Head(mail[c]).msg)
    OBVIOUS
  <2>2. \A z, b : First(z, "none") = z /\ Second(z, b, "none") = b
    BY DEF First, Second
  <2> QED
    BY <1>8, <2>1, <2>2, ReportComes
<1> QED
  BY <1>1, <1>4, <1>5, <1>6, <1>8, <1>9, <1>10, SpreadStep

\* A report of cores is acknowledged and may be passed on.
LEMMA BookStep ==
  ASSUME IInv, NEW c \in Controller, NEW sig \in {"ADD_CORES_DDS", "REM_CORES_DDS"},
         Receives(c, sig), waiting' = waiting, data' = data,
         NEW x, Reporting(x),
         \/ Becomes(Send(Taken(c), c, Peer(c), Ack))
         \/ /\ Peer(c) \notin Controller
            /\ Becomes(Forward(Send(Taken(c), c, Peer(c), Ack), c, x))
  PROVE  IInv'
<1>1. c \in Node
  BY DEF Node
<1>2. PICK p \in Node :
        /\ p # c /\ Handles(c, p) /\ Head(mail[c]).msg.sig = sig
  BY <1>1, Received DEF IInv, Shaped
<1>3. /\ p = Peer(c)
      /\ Kind(Head(mail[c]).msg) \in {"ADD_CORES_DDS", "REM_CORES_DDS", "FINISH"}
  BY <1>2 DEF Handles, Kind
<1>4. PICK net : net = Taken(c)
  OBVIOUS
<1>5. /\ IsNet(net) /\ net.mail = Taken(c).mail
      /\ \A m \in Node : m # c => net.inter[m] = inter[m]
      /\ \A m \in Node : net.inter[c][m] = inter[c][m]
  BY <1>1, <1>4, TakenIs DEF IInv
<1>6. PICK acked : acked = Send(net, c, p, Ack)
  OBVIOUS
<1>7. Sends(net, acked, c, p, Ack)
  BY <1>6 DEF Sends
<1>8. PICK r : /\ r = acked \/ (p \notin Controller /\ Forwards(acked, r, c, x))
               /\ Becomes(r)
  BY <1>3, <1>4, <1>6 DEF Forwards
<1> QED
  BY <1>2, <1>3, <1>5, <1>7, <1>8, ReportStep

LEMMA AddCoresDDSStep ==
  ASSUME IInv, NEW c \in Controller, AddCoresDDS(c)
  PROVE  IInv'
<1>1. waiting' = waiting /\ data' = data /\ Receives(c, "ADD_CORES_DDS")
  BY DEF AddCoresDDS
<1> DEFINE x == [type |-> "IDAG_ADD_CORES_DDS",
                 cores |-> Head(mail[c]).msg.cores, agent |-> Peer(c)]
<1>2. Reporting(x)
  BY DEF Reporting, Reports
<1>3. \/ Becomes(Send(Taken(c), c, Peer(c), Ack))
      \/ /\ Peer(c) \notin Controller
         /\ Becomes(Forward(Send(Taken(c), c, Peer(c), Ack), c, x))
  BY DEF AddCoresDDS
<1> HIDE DEF x
<1> QED
  BY <1>1, <1>2, <1>3, BookStep

LEMMA RemCoresDDSStep ==
  ASSUME IInv, NEW c \in Controller, RemCoresDDS(c)
  PROVE  IInv'
<1>1. waiting' = waiting /\ data' = data /\ Receives(c, "REM_CORES_DDS")
  BY DEF RemCoresDDS
<1> DEFINE x == [type |-> "IDAG_REM_CORES_DDS",
                 cores |-> Head(mail[c]).msg.cores, old |-> Peer(c),
                 new |-> Head(mail[c]).msg.new]
<1>2. Reporting(x)
  BY DEF Reporting, Reports
<1>3. \/ Becomes(Send(Taken(c), c, Peer(c), Ack))
      \/ /\ Peer(c) \notin Controller
         /\ Becomes(Forward(Send(Taken(c), c, Peer(c), Ack), c, x))
  BY DEF RemCoresDDS
<1> HIDE DEF x
<1> QED
  BY <1>1, <1>2, <1>3, BookStep

\* What sig_FINISH drops is nothing: the controller asks nobody for cores, and
\* offers of it to a manager that has not answered them keep that one from
\* reporting.
LEMMA FinishStep ==
  ASSUME IInv, NEW c \in Controller, Finish(c)
  PROVE  IInv'
<1>1. waiting' = waiting /\ data' = data /\ Receives(c, "FINISH")
  BY DEF Finish
<1>2. c \in Node /\ c \notin Agent
  BY ClusterAssumption DEF Node
<1>3. PICK p \in Node :
        /\ p # c /\ Handles(c, p) /\ Head(mail[c]).msg.sig = "FINISH"
        /\ \E a, b, d :
             Talk(Stage(c, p), Stage(p, c), a, b, Kind(Head(mail[c]).msg), d,
                  "no", Blocked(p, c))
  BY <1>1, <1>2, Received DEF IInv, Shaped
<1>4. p = Peer(c) /\ Kind(Head(mail[c]).msg) = "FINISH"
  BY <1>3 DEF Handles, Kind
<1> DEFINE x == [type |-> "REMOVE_APP", cores |-> Head(mail[c]).msg.cores,
                 agent |-> p]
<1>5. Reporting(x)
  BY DEF Reporting, Reports
<1>6. PICK net : net = IF p \notin Controller
                       THEN [Taken(c) EXCEPT !.inter[c][p] = <<>>] ELSE Taken(c)
  OBVIOUS
<1>7. PICK acked : acked = Send(net, c, p, Ack)
  OBVIOUS
<1>8. PICK r : /\ r = acked \/ (p \notin Controller /\ Forwards(acked, r, c, x))
               /\ Becomes(r)
  <2>1. Becomes(IF p \notin Controller THEN Forward(acked, c, x) ELSE acked)
    BY <1>4, <1>6, <1>7 DEF Finish
  <2> HIDE DEF x
  <2> QED
    BY <2>1 DEF Forwards
<1>9. /\ IsNet(Taken(c)) /\ Taken(c).inter = inter
  BY <1>2, TakenIs DEF IInv
<1>10. /\ IsNet(net) /\ net.mail = Taken(c).mail
       /\ \A m \in Node : m # c => net.inter[m] = inter[m]
       /\ \A m \in Node : net.inter[c][m] = inter[c][m]
  <2>1. CASE p \in Controller
    BY <1>6, <1>9, <2>1
  <2>2. CASE p \notin Controller
    <3>1. Keeps(Taken(c), net, c, p, <<>>)
      BY <1>6, <2>2 DEF Keeps
    <3>2. /\ IsNet(net) /\ OnlyWith(Taken(c), net, c, p)
          /\ net.mail = Taken(c).mail /\ net.inter[c][p] = <<>>
      BY <1>2, <1>9, <3>1, SetIs
    <3>3. Stage(c, p) \in {"none"} \cup Reports
      <4>1. PICK k \in {"ADD_CORES_DDS", "REM_CORES_DDS", "FINISH"} :
              k = Kind(Head(mail[c]).msg)
        BY <1>4
      <4> QED
        BY <1>3, <4>1, ReportComes
    <3>4. p \in Agent
      BY <2>2 DEF Node
    <3>5. inter[c][p] = <<>>
      BY <1>2, <3>3, <3>4, StageIs DEF May, Offers, Reports
    <3> QED
      BY <1>9, <3>2, <3>5 DEF OnlyWith
  <2> QED
    BY <2>1, <2>2
<1>11. Sends(net, acked, c, p, Ack)
  BY <1>7 DEF Sends
<1>12. Kind(Head(mail[c]).msg) \in {"ADD_CORES_DDS", "REM_CORES_DDS", "FINISH"}
  BY <1>4
<1> HIDE DEF x
<1> QED
  BY <1>1, <1>3, <1>5, <1>8, <1>10, <1>11, <1>12, ReportStep

\* SIG_APP_TERMINATED is no part of a talk.
LEMMA AppTerminatedStep ==
  ASSUME IInv, NEW c \in Controller, AppTerminated(c)
  PROVE  IInv'
<1>1. /\ waiting' = waiting /\ data' = data /\ Becomes(Taken(c))
      /\ waiting[c] = NoSignal /\ mail[c] # <<>>
      /\ Head(mail[c]).msg.sig = "APP_TERMINATED"
  BY DEF AppTerminated, Receives
<1>2. c \in Node
  BY DEF Node
<1>3. /\ inter' = inter /\ mail'[c] = Tail(mail[c])
      /\ \A m \in Node : m # c => mail'[m] = mail[m]
      /\ DOMAIN mail' = Node
  BY <1>1, <1>2, TakenIs DEF IInv, IsNet, Becomes
<1>4. /\ Listed(Tail(mail[c]))
      /\ \A m, a, b : Line(mail[c], m, a, b) => Line(Tail(mail[c]), m, a, b)
  BY <1>1, <1>2, LineTaken DEF IInv, Lists
<1>5. /\ Waits' /\ \A m \in Node : Area(m)'
      /\ \A l, m \in Node : Blocked(l, m)' = Blocked(l, m)
      /\ \A m \in Node : Blocked(c, m) = "no" /\ Blocked(c, m)' = "no"
  BY <1>1, <1>2, NoWait
<1>6. Own(c) /\ \A m : Unread(c, m)
  BY <1>1, <1>3, <1>4 DEF Own, Unread, IInv, Shaped
<1>7. \A m \in Node : m # c => Fits(c, m)
  <2> SUFFICES ASSUME NEW m \in Node, m # c PROVE Fits(c, m)
    OBVIOUS
  <2>1. Aside(c, m) /\ Unread(c, m) /\ inter'[m] = inter[m]
    BY <1>3, <1>6 DEF Aside, Extends
  <2> QED
    BY <1>2, <1>5, <2>1, AsideFits
<1> QED
  BY <1>2, <1>5, <1>6, <1>7, Assembled
-----------------------------------------------------------------------------
(* What a manager does by itself.                                            *)

\* Its controller is another node, and may be told something.
LEMMA Controlled ==
  ASSUME NEW a \in Agent
  PROVE  /\ a \in Node /\ a \notin Controller /\ Zero \in Node /\ Zero # a
         /\ idag_mask[a] \in Controller /\ idag_mask[a] \in Node
         /\ idag_mask[a] # a
         /\ \A v \in Reports : v \in Waiting \cap May(a, idag_mask[a])
<1>1. a \in Node /\ a \notin Controller
  BY ClusterAssumption DEF Node
<1>2. idag_mask[a] \in Controller /\ idag_mask[a] \in Node
  BY <1>1, ClusterAssumption DEF Core, Node
<1>3. idag_mask[a] # a /\ idag_mask[a] \notin Agent
  BY <1>1, <1>2, ClusterAssumption
<1> QED
  BY <1>1, <1>2, <1>3, ClusterAssumption DEF Node, Waiting, May

LEMMA DiscoveryDoneStep ==
  ASSUME IInv, NEW a \in Agent, DiscoveryDone(a)
  PROVE  IInv'
<1>1. waiting[a] = NoSignal /\ waiting' = waiting /\ data' = data /\ a \in Node
  BY DEF DiscoveryDone, Node
<1>2. PICK targets \in Targets[a] :
        Becomes(PostAll(Net, a, [t \in targets |->
                          [type |-> "SELFOPT_REQ_CORES_PENDING"]]))
  BY DEF DiscoveryDone
<1>3. targets \subseteq Node \ {a}
  BY StartAssumption
<1> DEFINE items == [t \in targets |-> [type |-> "SELFOPT_REQ_CORES_PENDING"]]
<1>4. /\ DOMAIN items \subseteq Node \ {a}
      /\ \A p \in DOMAIN items : items[p].type \in Waiting \cap May(a, p)
  BY <1>3 DEF Waiting, May, Asker
<1>5. PICK r : r = PostAll(Net, a, items) /\ Becomes(r)
  BY <1>2
<1> HIDE DEF items
<1>6. IsNet(Net) /\ Net.inter = inter /\ Net.mail = mail
  BY NowIs DEF IInv
<1>7. /\ IsNet(r) /\ \A m \in Node : m # a => r.inter[m] = Net.inter[m]
      /\ \A p \in Node :
           IF p \in DOMAIN items
           THEN Joins(Net.inter[a][p], r.inter[a][p], Net.mail[p], r.mail[p],
                      a, p)
           ELSE r.inter[a][p] = Net.inter[a][p] /\ r.mail[p] = Net.mail[p]
  BY <1>1, <1>4, <1>5, <1>6, PostAllIs
<1>8. inter' = r.inter /\ mail' = r.mail
  BY <1>5 DEF Becomes
<1>9. \A p \in Node : p # a => Aside(a, p)
  BY <1>6, <1>7, <1>8 DEF Aside, Extends
<1>10. Shaped'
  BY <1>1, <1>7, <1>8 DEF Shaped, IsNet, IInv
<1>11. mail'[a] = mail[a] /\ inter'[a][a] = inter[a][a]
  BY <1>1, <1>4, <1>6, <1>7, <1>8
<1>12. \A m \in Node : m # a => inter'[m] = inter[m]
  BY <1>6, <1>7, <1>8
<1> QED
  BY <1>1, <1>9, <1>10, <1>11, <1>12, ProgramStep

\* The manager has told its controller something, if anything.
Reported(net, a) ==
  /\ IsNet(net) /\ OnlyWith(Net, net, a, idag_mask[a])
  /\ LET c == idag_mask[a]
     IN  \/ net.inter[a][c] = inter[a][c] /\ net.mail[c] = mail[c]
         \/ Joins(inter[a][c], net.inter[a][c], mail[c], net.mail[c], a, c)

LEMMA Reporter ==
  ASSUME IInv, NEW a \in Agent, NEW net, NEW x, x.type \in Reports,
         net = Net \/ Posts(Net, net, a, idag_mask[a], x)
  PROVE  Reported(net, a)
<1>1. IsNet(Net) /\ Net.inter = inter /\ Net.mail = mail
  BY NowIs DEF IInv
<1>2. CASE net = Net
  BY <1>1, <1>2 DEF Reported, OnlyWith
<1>3. CASE Posts(Net, net, a, idag_mask[a], x)
  <2>1. PICK c : c = idag_mask[a]
    OBVIOUS
  <2>2. /\ a \in Node /\ c \in Node /\ x.type \in Waiting \cap May(a, c)
        /\ IsNet(Net) /\ Posts(Net, net, a, c, x)
    BY <1>1, <1>3, <2>1, Controlled
  <2>3. PICK old : old = Net
    OBVIOUS
  <2>4. IsNet(old) /\ Posts(old, net, a, c, x)
    BY <2>2, <2>3
  <2>5. /\ IsNet(net) /\ OnlyWith(old, net, a, c)
        /\ net.inter[a][c] = Append(old.inter[a][c], x)
        /\ net.mail[c] =
             IF old.inter[a][c] = <<>>
             THEN Append(old.mail[c], [from |-> a, msg |-> SignalOf(x)])
             ELSE old.mail[c]
    BY <2>2, <2>4, PostIs
  <2>6. old.inter[a][c] = inter[a][c] /\ old.mail[c] = mail[c]
    BY <1>1, <2>3
  <2>7. Joins(inter[a][c], Append(inter[a][c], x), mail[c], net.mail[c], a, c)
    <3>1. net.mail[c] =
            IF inter[a][c] = <<>>
            THEN Append(mail[c], [from |-> a, msg |-> SignalOf(x)]) ELSE mail[c]
      BY <2>5, <2>6
    <3> QED
      BY <2>2, <3>1, Joining
  <2> QED
    BY <2>1, <2>3, <2>5, <2>6, <2>7 DEF Reported
<1> QED
  BY <1>2, <1>3

\* Then core 0 hears that the application is over, unless it knows already.
LEMMA TellZeroStep ==
  ASSUME IInv, NEW a \in Agent, waiting[a] = NoSignal, waiting' = waiting,
         data' = data, NEW net, Reported(net, a),
         NEW r, \/ r = net
                \/ /\ idag_mask[a] # Zero \/ net = Net
                   /\ Sends(net, r, a, Zero, [sig |-> "APP_TERMINATED"]),
         Becomes(r)
  PROVE  IInv'
<1>1. PICK c : c = idag_mask[a]
  OBVIOUS
<1>2. /\ a \in Node /\ Zero \in Node /\ Zero # a /\ c \in Node /\ c # a
  BY <1>1, Controlled
<1>3. IsNet(Net) /\ Net.inter = inter /\ Net.mail = mail
  BY NowIs DEF IInv
<1>4. /\ IsNet(net) /\ \A m \in Node : m # a => net.inter[m] = inter[m]
      /\ \A m \in Node : m # c =>
           net.inter[a][m] = inter[a][m] /\ net.mail[m] = mail[m]
      /\ \/ net.inter[a][c] = inter[a][c] /\ net.mail[c] = mail[c]
         \/ Joins(inter[a][c], net.inter[a][c], mail[c], net.mail[c], a, c)
  BY <1>1, <1>3 DEF Reported, OnlyWith
<1>5. /\ IsNet(r) /\ r.inter = net.inter
      /\ \A m \in Node : m # Zero => r.mail[m] = net.mail[m]
      /\ \/ r.mail[Zero] = net.mail[Zero]
         \/ /\ net.mail[Zero] = mail[Zero] /\ net.inter[a][Zero] = inter[a][Zero]
            /\ Extends(mail[Zero], r.mail[Zero], a, "none")
  <2>1. CASE r = net
    BY <1>4, <2>1
  <2>2. CASE /\ idag_mask[a] # Zero \/ net = Net
             /\ Sends(net, r, a, Zero, [sig |-> "APP_TERMINATED"])
    <3> DEFINE t == [sig |-> "APP_TERMINATED"]
    <3>1. IsNet(net) /\ Sends(net, r, a, Zero, t)
      BY <1>4, <2>2
    <3> HIDE DEF t
    <3>2. /\ IsNet(r) /\ OnlyWith(net, r, a, Zero) /\ r.inter = net.inter
          /\ r.mail[Zero] = Append(net.mail[Zero], [from |-> a, msg |-> t])
      BY <1>2, <3>1, SendIs
    <3>3. net.mail[Zero] = mail[Zero] /\ net.inter[a][Zero] = inter[a][Zero]
      BY <1>1, <1>2, <1>3, <1>4, <2>2
    <3>4. Extends(mail[Zero], r.mail[Zero], a, "none")
      BY <3>2, <3>3 DEF Extends, t
    <3> QED
      BY <3>2, <3>3, <3>4 DEF OnlyWith
  <2> QED
    BY <2>1, <2>2
<1>6. inter' = r.inter /\ mail' = r.mail
  BY DEF Becomes
<1>7. \A m \in Node : m # a => Aside(a, m)
  <2>1. ASSUME NEW m \in Node, m # a, m # Zero PROVE Aside(a, m)
    BY <1>2, <1>4, <1>5, <1>6, <2>1 DEF Aside, Extends
  <2>2. Aside(a, Zero)
    BY <1>2, <1>4, <1>5, <1>6 DEF Aside, Extends
  <2> QED
    BY <2>1, <2>2
<1>8. Shaped'
  BY <1>5, <1>6 DEF Shaped, IsNet, IInv
<1>9. mail'[a] = mail[a] /\ inter'[a][a] = inter[a][a]
  BY <1>2, <1>4, <1>5, <1>6
<1>10. \A m \in Node : m # a => inter'[m] = inter[m]
  BY <1>4, <1>5, <1>6
<1> QED
  BY <1>2, <1>7, <1>8, <1>9, <1>10, ProgramStep

LEMMA AgentZombieStep ==
  ASSUME IInv, NEW a \in Agent, AgentZombie(a)
  PROVE  IInv'
<1>1. waiting[a] = NoSignal /\ waiting' = waiting /\ data' = data
  BY DEF AgentZombie, Free
<1>2. PICK next_state : Becomes(TellZero(Net, a, next_state))
  BY DEF AgentZombie
<1>3. PICK r : /\ \/ r = Net
                  \/ Sends(Net, r, a, Zero, [sig |-> "APP_TERMINATED"])
               /\ Becomes(r)
  BY <1>2 DEF TellZero, Sends
<1>4. Reported(Net, a)
  <2>1. PICK x : x = [type |-> "REMOVE_APP"]
    OBVIOUS
  <2>2. x.type \in Reports
    BY <2>1 DEF Reports
  <2> QED
    BY <2>2, Reporter
<1> QED
  BY <1>1, <1>3, <1>4, TellZeroStep

LEMMA AgentEndsStep ==
  ASSUME IInv, NEW a \in Agent, AgentEnds(a)
  PROVE  IInv'
<1>1. waiting[a] = NoSignal /\ waiting' = waiting /\ data' = data
  BY DEF AgentEnds, Free
<1> DEFINE x == [type |-> "REMOVE_APP", cores |-> Cores(a), agent |-> a]
<1>2. x.type \in Reports
  BY DEF Reports
<1>3. PICK next_state :
        Becomes(TellZero(Post(Net, a, idag_mask[a], x), a, next_state))
  BY DEF AgentEnds
<1> HIDE DEF x
<1>4. PICK net : net = Post(Net, a, idag_mask[a], x)
  OBVIOUS
<1>5. PICK r : /\ \/ r = net
                  \/ /\ idag_mask[a] # Zero
                     /\ Sends(net, r, a, Zero, [sig |-> "APP_TERMINATED"])
               /\ Becomes(r)
  BY <1>3, <1>4 DEF TellZero, Sends
<1>6. Reported(net, a)
  <2>1. Posts(Net, net, a, idag_mask[a], x)
    BY <1>4 DEF Posts
  <2> QED
    BY <1>2, <2>1, Reporter
<1> QED
  BY <1>1, <1>5, <1>6, TellZeroStep

\* Every offer that waits for it is answered.
Answers(net, r, a) == r = AnswerOffers(net, a)
Replies(net, r, a) ==
  /\ IsNet(r) /\ \A m \in Node : m # a => r.inter[m] = net.inter[m]
  /\ \A p \in Node : p \notin Unanswered(a) =>
       r.inter[a][p] = net.inter[a][p] /\ r.mail[p] = net.mail[p]
  /\ \A p \in Unanswered(a) : \E x :
       /\ x.type = "REP_AGENT_OFFER_SENT" /\ x.answer = Answer(a, p)
       /\ r.inter[a][p] = <<x>> \o Tail(net.inter[a][p])
       /\ r.mail[p] = Append(net.mail[p], [from |-> a, msg |-> SignalOf(x)])

LEMMA AnswerOffersIs ==
  ASSUME NEW net, IsNet(net), NEW a \in Node, NEW r, Answers(net, r, a)
  PROVE  Replies(net, r, a)
<1> DEFINE reply(p) == [type |-> "REP_AGENT_OFFER_SENT", answer |-> Answer(a, p)]
           I == [net.inter EXCEPT ![a] = [p \in Node |->
                   IF p \in Unanswered(a)
                   THEN <<reply(p)>> \o Tail(net.inter[a][p])
                   ELSE net.inter[a][p]]]
           M == [p \in Node |->
                   IF p \in Unanswered(a)
                   THEN Append(net.mail[p],
                               [from |-> a, msg |-> SignalOf(reply(p))])
                   ELSE net.mail[p]]
<1>1. r = [inter |-> I, mail |-> M]
  BY DEF AnswerOffers, Answers
<1>2. \A p : /\ reply(p).type = "REP_AGENT_OFFER_SENT"
            /\ reply(p).answer = Answer(a, p)
  OBVIOUS
<1>3. Unanswered(a) \subseteq Node
  BY DEF Unanswered
<1> HIDE DEF reply
<1>4. DOMAIN I = Node /\ (\A m \in Node : DOMAIN I[m] = Node) /\ DOMAIN M = Node
  BY DEF IsNet
<1>5. /\ \A m \in Node : m # a => I[m] = net.inter[m]
      /\ \A p \in Node : I[a][p] = IF p \in Unanswered(a)
                                   THEN <<reply(p)>> \o Tail(net.inter[a][p])
                                   ELSE net.inter[a][p]
      /\ \A p \in Node : M[p] =
           IF p \in Unanswered(a)
           THEN Append(net.mail[p], [from |-> a, msg |-> SignalOf(reply(p))])
           ELSE net.mail[p]
  BY DEF IsNet
<1> HIDE DEF I, M
<1>6. IsNet(r) /\ r.inter = I /\ r.mail = M
  BY <1>1, <1>4, NetIs
<1>7. ASSUME NEW p \in Unanswered(a)
      PROVE  \E x : /\ x.type = "REP_AGENT_OFFER_SENT" /\ x.answer = Answer(a, p)
                    /\ r.inter[a][p] = <<x>> \o Tail(net.inter[a][p])
                    /\ r.mail[p] =
                         Append(net.mail[p], [from |-> a, msg |-> SignalOf(x)])
  <2>1. PICK x : x = reply(p)
    OBVIOUS
  <2>2. /\ r.inter[a][p] = <<x>> \o Tail(net.inter[a][p])
        /\ r.mail[p] = Append(net.mail[p], [from |-> a, msg |-> SignalOf(x)])
    BY <1>3, <1>5, <1>6, <2>1
  <2> QED
    BY <1>2, <2>1, <2>2
<1> QED
  BY <1>5, <1>6, <1>7 DEF Replies

\* Queue q of an offer, which a report may have joined, goes on.
LEMMA AnsweredFits ==
  ASSUME IInv, NEW a \in Node, NEW p \in Node, p # a,
         waiting[a] = NoSignal, waiting' = waiting, data' = data,
         HeadType(a, p) = "REP_AGENT_OFFER_PENDING",
         inter'[p] = inter[p], mail'[a] = mail[a], NEW q,
         q = inter[a][p] \/ Joins(inter[a][p], q, mail[p], mail[p], a, p),
         NEW x, x.type = "REP_AGENT_OFFER_SENT",
         inter'[a][p] = <<x>> \o Tail(q),
         mail'[p] = Append(mail[p], [from |-> a, msg |-> SignalOf(x)])
  PROVE  Fits(a, p)
<1>1. /\ inter[a][p] # <<>> /\ Stage(a, p) = "REP_AGENT_OFFER_PENDING"
      /\ Queued(inter[a][p], a, p) /\ "REP_AGENT_OFFER_PENDING" \in May(a, p)
  BY StageIs
<1>2. x.type \in May(a, p)
  BY <1>1 DEF May, Asker, Offers, Reports
<1>3. Queued(q, a, p) /\ q # <<>>
  <2>1. CASE q = inter[a][p]
    BY <1>1, <2>1
  <2>2. CASE Joins(inter[a][p], q, mail[p], mail[p], a, p)
    <3>1. PICK y : /\ y.type \in Waiting /\ y.type \in May(a, p)
                   /\ q = Append(inter[a][p], y)
      BY <2>2 DEF Joins
    <3>2. PICK old : old = inter[a][p] /\ old # <<>> /\ Queued(old, a, p)
      BY <1>1
    <3>3. Queued(Append(old, y), a, p) /\ Append(old, y) # <<>>
      BY <3>1, <3>2, QueueGrows
    <3> QED
      BY <3>1, <3>2, <3>3
  <2> QED
    BY <2>1, <2>2
<1>4. /\ Queued(inter'[a][p], a, p)
      /\ Top(inter'[a][p]) = "REP_AGENT_OFFER_SENT"
  <2>1. /\ Queued(<<x>> \o Tail(q), a, p) /\ <<x>> \o Tail(q) # <<>>
        /\ Head(<<x>> \o Tail(q)) = x
    BY <1>2, <1>3, QueueGoesOn
  <2> QED
    BY <2>1 DEF Top
<1>5. Extends(mail[p], mail'[p], a, "REP_OFFERS")
  <2>1. Counts(SignalOf(x), "REP_OFFERS")
    BY Signals DEF Counts
  <2> QED
    BY <2>1, Sent
<1>6. PICK e, b, c, d :
        /\ Line(mail[p], a, e, b) /\ Line(mail[a], p, c, d)
        /\ Talk("REP_AGENT_OFFER_PENDING", Stage(p, a), e, b, c, d,
                Blocked(a, p), Blocked(p, a))
  BY <1>1 DEF IInv, Talked
<1>7. /\ e = "none" /\ b = "none"
      /\ Talk("REP_AGENT_OFFER_SENT", Stage(p, a), "REP_OFFERS", "none", c, d,
              Blocked(a, p), Blocked(p, a))
  BY <1>6, OfferDecided
<1>8. Blocked(a, p)' = Blocked(a, p) /\ Blocked(p, a)' = Blocked(p, a)
  BY NoWait
<1>9. Extends(mail'[p], mail'[p], a, "none")
  BY DEF Extends
<1>10. /\ First(First(e, "REP_OFFERS"), "none") = "REP_OFFERS"
       /\ Second(First(e, "REP_OFFERS"), Second(e, b, "REP_OFFERS"), "none")
            = "none"
  BY <1>7 DEF First, Second
<1>11. PICK t : t = mail'[p]
  OBVIOUS
<1>12. /\ Extends(mail[p], t, a, "REP_OFFERS") /\ Extends(t, mail'[p], a, "none")
       /\ Line(mail'[a], p, c, d)
       /\ Talk(Top(inter'[a][p]), Stage(p, a),
               First(First(e, "REP_OFFERS"), "none"),
               Second(First(e, "REP_OFFERS"), Second(e, b, "REP_OFFERS"), "none"),
               c, d, Blocked(a, p)', Blocked(p, a)')
  BY <1>4, <1>5, <1>6, <1>7, <1>8, <1>9, <1>10, <1>11
<1> QED
  BY <1>4, <1>6, <1>7, <1>12, PeerFits

LEMMA SelfChkOffersStep ==
  ASSUME IInv, NEW a \in Agent, SelfChkOffers(a)
  PROVE  IInv'
<1>1. waiting[a] = NoSignal /\ waiting' = waiting /\ data' = data
  BY DEF SelfChkOffers, Free
<1>2. PICK c : c = idag_mask[a]
  OBVIOUS
<1>3. a \in Node /\ c \in Node /\ c # a
  BY <1>2, Controlled
<1>4. PICK net, r : Reported(net, a) /\ Answers(net, r, a) /\ Becomes(r)
  <2> DEFINE taken == IF Accepts(a) THEN Head(selfopt_offers[a]).cores ELSE {}
             x == [type |-> "IDAG_ADD_CORES_DDS", cores |-> taken, agent |-> a]
             told == IF ~ Accepts(a) THEN Net ELSE Post(Net, a, idag_mask[a], x)
  <2>1. Becomes(AnswerOffers(told, a))
    BY DEF SelfChkOffers
  <2>2. x.type \in Reports
    BY DEF Reports
  <2> HIDE DEF x
  <2>3. PICK net : net = told
    OBVIOUS
  <2>4. net = Net \/ Posts(Net, net, a, idag_mask[a], x)
    BY <2>3 DEF Posts
  <2>5. Reported(net, a)
    BY <2>2, <2>4, Reporter
  <2>6. Becomes(AnswerOffers(net, a))
    BY <2>1, <2>3
  <2> HIDE DEF told
  <2> QED
    BY <2>5, <2>6 DEF Answers
<1>5. IsNet(Net) /\ Net.inter = inter /\ Net.mail = mail
  BY NowIs DEF IInv
<1>6. /\ IsNet(net) /\ \A m \in Node : m # a => net.inter[m] = inter[m]
      /\ \A m \in Node : m # c =>
           net.inter[a][m] = inter[a][m] /\ net.mail[m] = mail[m]
      /\ \/ net.inter[a][c] = inter[a][c] /\ net.mail[c] = mail[c]
         \/ Joins(inter[a][c], net.inter[a][c], mail[c], net.mail[c], a, c)
  BY <1>2, <1>4, <1>5 DEF Reported, OnlyWith
<1>7. /\ IsNet(r) /\ \A m \in Node : m # a => r.inter[m] = net.inter[m]
      /\ \A p \in Node : p \notin Unanswered(a) =>
           r.inter[a][p] = net.inter[a][p] /\ r.mail[p] = net.mail[p]
      /\ \A p \in Unanswered(a) : \E x :
           /\ x.type = "REP_AGENT_OFFER_SENT"
           /\ r.inter[a][p] = <<x>> \o Tail(net.inter[a][p])
           /\ r.mail[p] = Append(net.mail[p], [from |-> a, msg |-> SignalOf(x)])
  <2>1. IsNet(net) /\ a \in Node /\ Answers(net, r, a)
    BY <1>3, <1>4, <1>6
  <2>2. Replies(net, r, a)
    BY <2>1, AnswerOffersIs
  <2> QED
    BY <2>2 DEF Replies
<1>8. inter' = r.inter /\ mail' = r.mail
  BY <1>4 DEF Becomes
<1>9. a \notin Unanswered(a)
  <2>1. HeadType(a, a) \in {"none"}
    BY <1>3, StageIs DEF May
  <2> QED
    BY <2>1 DEF Unanswered
<1>10. /\ Shaped' /\ mail'[a] = mail[a] /\ inter'[a][a] = inter[a][a]
       /\ \A m \in Node : m # a => inter'[m] = inter[m]
  BY <1>1, <1>3, <1>6, <1>7, <1>8, <1>9 DEF Shaped, IsNet, IInv
<1>11. ASSUME NEW p \in Node, p # a PROVE Aside(a, p) \/ Fits(a, p)
  <2>1. CASE p \notin Unanswered(a)
    <3>1. inter'[a][p] = net.inter[a][p] /\ mail'[p] = net.mail[p]
      BY <1>7, <1>8, <2>1
    <3> QED
      BY <1>6, <3>1 DEF Aside, Extends
  <2>2. CASE p \in Unanswered(a)
    <3>1. HeadType(a, p) = "REP_AGENT_OFFER_PENDING"
      BY <2>2 DEF Unanswered
    <3>2. inter[a][p] # <<>>
      BY <3>1 DEF HeadType
    <3>3. PICK x : /\ x.type = "REP_AGENT_OFFER_SENT"
                   /\ r.inter[a][p] = <<x>> \o Tail(net.inter[a][p])
                   /\ r.mail[p] =
                        Append(net.mail[p], [from |-> a, msg |-> SignalOf(x)])
      BY <1>7, <2>2
    <3>4. PICK q : q = net.inter[a][p]
      OBVIOUS
    <3>5. /\ net.mail[p] = mail[p]
          /\ q = inter[a][p] \/ Joins(inter[a][p], q, mail[p], mail[p], a, p)
      BY <1>6, <3>2, <3>4 DEF Joins
    <3>6. /\ inter'[a][p] = <<x>> \o Tail(q)
          /\ mail'[p] = Append(mail[p], [from |-> a, msg |-> SignalOf(x)])
      BY <1>8, <3>3, <3>4, <3>5
    <3>7. inter'[p] = inter[p] /\ mail'[a] = mail[a]
      BY <1>10, <1>11
    <3> QED
      BY <1>1, <1>3, <1>11, <3>1, <3>3, <3>5, <3>6, <3>7, AnsweredFits
  <2> QED
    BY <2>1, <2>2
<1> QED
  BY <1>1, <1>3, <1>10, <1>11, ProgramStep
-----------------------------------------------------------------------------
(* The theorems.                                                             *)

LEMMA InitHolds == Init => IInv
<1> SUFFICES ASSUME Init PROVE IInv
  OBVIOUS
<1>1. /\ inter = [n \in Node |-> [p \in Node |-> <<>>]]
      /\ mail = [n \in Node |-> <<>>] /\ data = [n \in Node |-> <<>>]
      /\ waiting = [n \in Node |-> NoSignal]
  BY DEF Init
<1>2. Shaped /\ Waits /\ \A n \in Node : Area(n)
  BY <1>1 DEF Shaped, Waits, Area
<1>3. IsSeq(<<>>) /\ DOMAIN <<>> = {}
  <2>1. <<>> \in Seq({})
    OBVIOUS
  <2>2. IsSeq(<<>>)
    BY <2>1 DEF IsSeq
  <2> QED
    BY <2>2
<1>4. Queues /\ Lists
  BY <1>1, <1>3 DEF Queues, Queued, Lists, Listed
<1>5. ASSUME NEW n \in Node, NEW p \in Node PROVE Talked(n, p)
  <2>1. /\ Stage(n, p) = "none" /\ Stage(p, n) = "none"
        /\ Blocked(n, p) = "no" /\ Blocked(p, n) = "no"
    BY <1>1 DEF Stage, Top, Blocked, WaitsFor
  <2>2. Line(mail[p], n, "none", "none") /\ Line(mail[n], p, "none", "none")
    BY <1>1, <1>3 DEF Line, From
  <2>3. Talk("none", "none", "none", "none", "none", "none", "no", "no")
    BY DEF Talk, Idle, Call
  <2> QED
    BY <2>1, <2>2, <2>3 DEF Talked
<1> QED
  BY <1>2, <1>4, <1>5 DEF IInv

\* Nothing of the network changes.
LEMMA SameNet ==
  ASSUME IInv, UNCHANGED netVars
  PROVE  IInv'
BY DEF netVars, IInv, Shaped, Queues, Lists, Waits, Area, Talked, Stage, Blocked,
       WaitsFor

LEMMA NextHolds == IInv /\ [Next]_vars => IInv'
<1> SUFFICES ASSUME IInv, [Next]_vars PROVE IInv'
  OBVIOUS
<1>1. CASE UNCHANGED vars
  BY <1>1, SameNet DEF vars
<1>2. ASSUME NEW a \in Agent, Program(a) PROVE IInv'
  <2>1. CASE \/ SelfOptStart(a) \/ Timer(a) \/ LeaveAtTop(a) \/ Leave(a)
             \/ InitManChkOffers(a)
    BY <2>1, SameNet
       DEF SelfOptStart, Timer, LeaveAtTop, Leave, InitManChkOffers
  <2>2. CASE DiscoveryDone(a)
    BY <2>2, DiscoveryDoneStep
  <2>3. CASE SelfChkOffers(a)
    BY <2>3, SelfChkOffersStep
  <2>4. CASE AgentZombie(a)
    BY <2>4, AgentZombieStep
  <2>5. CASE AgentEnds(a)
    BY <2>5, AgentEndsStep
  <2> QED
    BY <1>2, <2>1, <2>2, <2>3, <2>4, <2>5 DEF Program
<1>3. ASSUME NEW a \in Agent, AppFinishes(a) PROVE IInv'
  BY <1>3, SameNet DEF AppFinishes
<1>4. ASSUME NEW n \in Node, Handler(n) PROVE IInv'
  <2>1. CASE ReqCores(n)
    BY <2>1, ReqCoresStep
  <2>2. CASE OfferCores(n)
    BY <2>2, OfferCoresStep
  <2>3. CASE CollectOffer(n)
    BY <2>3, CollectOfferStep
  <2>4. CASE AckData(n)
    BY <2>4, AckDataStep
  <2>5. CASE AckClear(n)
    BY <2>5, AckClearStep
  <2>6. CASE RepOffersNo(n)
    BY <2>6, AnsweredStep DEF RepOffersNo
  <2>7. CASE RepOffersYes(n)
    BY <2>7, RepOffersYesStep
  <2>8. CASE RejectRequest(n)
    BY <2>8, RejectRequestStep
  <2>9. CASE RejectOffer(n)
    BY <2>9, RejectOfferStep
  <2> QED
    BY <1>4, <2>1, <2>2, <2>3, <2>4, <2>5, <2>6, <2>7, <2>8, <2>9 DEF Handler
<1>5. ASSUME NEW c \in Controller, BookHandler(c) PROVE IInv'
  <2>1. CASE AddCoresDDS(c)
    BY <2>1, AddCoresDDSStep
  <2>2. CASE RemCoresDDS(c)
    BY <2>2, RemCoresDDSStep
  <2>3. CASE Finish(c)
    BY <2>3, FinishStep
  <2>4. CASE AppTerminated(c)
    BY <2>4, AppTerminatedStep
  <2> QED
    BY <1>5, <2>1, <2>2, <2>3, <2>4 DEF BookHandler
<1> QED
  BY <1>1, <1>2, <1>3, <1>4, <1>5 DEF Next

LEMMA Invariance == Spec => []IInv
<1>1. Init => IInv
  BY InitHolds
<1>2. IInv /\ [Next]_vars => IInv'
  BY NextHolds
<1> QED
  BY <1>1, <1>2, PTL DEF Spec

LEMMA UnderstoodAll == IInv => MessagesUnderstood
<1> SUFFICES ASSUME IInv, NEW n \in Node, waiting[n] = NoSignal, mail[n] # <<>>
             PROVE  Understood(n, Peer(n), Head(mail[n]).msg)
  BY DEF MessagesUnderstood
<1> DEFINE s == Head(mail[n]).msg
<1>1. CASE s.sig = "APP_TERMINATED"
  BY <1>1 DEF Understood
<1>2. CASE s.sig # "APP_TERMINATED"
  <2>1. PICK p \in Node : p = Peer(n)
    BY <1>2, Handled
  <2>2. Message(s)
    BY <1>2, Handled
  <2>3. PICK a, b, d :
          Talk(Stage(n, p), Stage(p, n), a, b, Kind(s), d, "no", Blocked(p, n))
    BY <1>2, <2>1, Handled
  <2> DEFINE v == Stage(n, p)
             k == Kind(s)
  <2>4. /\ v \notin {"offer", "nothing"} => HeadType(n, p) = v
        /\ v \in {"offer", "nothing"} => HeadType(n, p) = "REP_AGENT_REQ_CORES"
    BY StageIs DEF May, Asker, Offers, Reports
  <2>5. /\ k = "request" => v \in Idle
        /\ k \in {"offer", "nothing"} => v = "SELFOPT_REQ_CORES"
        /\ k = "REP_OFFERS" => v = "AGENT_OFFER_SENT"
        /\ k = "REJECT" =>
             v \in {"SELFOPT_REQ_CORES_PENDING", "offer", "nothing"}
        /\ k = "ACK" =>
             v \in {"SELFOPT_REQ_CORES_PENDING", "offer", "nothing",
                    "REP_AGENT_OFFER_SENT"} \cup Reports
    <3> HIDE DEF v, k
    <3>1. Apart("none", Stage(p, n)) /\ "none" \in Idle \cup Reports
      BY DEF Apart, Idle, Asker, Reports
    <3>2. PICK w, y : /\ Talk(v, w, a, b, k, d, "no", y) /\ Apart("none", w)
      BY <2>3, <3>1 DEF v, k
    <3>3. k = "request" => v \in Idle
      BY <3>2, RequestStage
    <3>4. k \in {"offer", "nothing"} => v = "SELFOPT_REQ_CORES"
      BY <3>1, <3>2, OfferEnds
    <3>5. k = "REP_OFFERS" => v = "AGENT_OFFER_SENT"
      BY <3>1, <3>2, AnswerComes
    <3>6. k = "REJECT" =>
            v \in {"SELFOPT_REQ_CORES_PENDING", "offer", "nothing"}
      BY <3>1, <3>2, RejectComes
    <3>7. k = "ACK" =>
            v \in {"SELFOPT_REQ_CORES_PENDING", "offer", "nothing",
                   "REP_AGENT_OFFER_SENT"} \cup Reports
      BY <3>1, <3>2, AckEnds
    <3> QED
      BY <3>3, <3>4, <3>5, <3>6, <3>7
  <2>6. k = IF s.sig # "REQ_CORES" THEN s.sig
            ELSE IF s.body = "request" THEN "request"
            ELSE IF s.some THEN "offer" ELSE "nothing"
    BY DEF Kind
  <2>7. s.sig = "REQ_CORES" => s.body \in {"request", "offers"}
    BY <2>2 DEF Message
  <2> HIDE DEF s, k, v
  <2>8. Understood(n, p, s)
    BY <2>4, <2>5, <2>6, <2>7 DEF Understood, Idle, Reports
  <2> QED
    BY <2>1, <2>8 DEF s
<1> QED
  BY <1>1, <1>2

\* The receiver of a signal reads it as its sender meant it, whatever the two
\* and all others did while it was under way (sig_REQ_CORES, sig_REP_OFFERS,
\* sig_ACK, sig_REJECT).
THEOREM UnderstoodHolds == Spec => []MessagesUnderstood
BY Invariance, UnderstoodAll, PTL

LEMMA Matches == IInv => HandshakeMatches
<1> SUFFICES ASSUME IInv, NEW n \in Node
             PROVE  /\ Len(data[n]) <= 1
                    /\ data[n] # <<>> =>
                         /\ waiting[n] # NoSignal
                         /\ waiting[n].from = Head(data[n]).from
                         /\ (waiting[n].msg.body = "offers") <=>
                              (Head(data[n]).cores # {})
  BY DEF HandshakeMatches
<1>1. Area(n)
  BY DEF IInv
<1>2. CASE data[n] = <<>>
  BY <1>2
<1>3. CASE data[n] # <<>>
  <2>1. PICK d : /\ data[n] = <<d>> /\ d.from = waiting[n].from
                 /\ (waiting[n].msg.body = "offers") <=> (d.cores # {})
    BY <1>1, <1>3 DEF Area
  <2>2. waiting[n] # NoSignal
    BY <1>1, <1>3 DEF Area
  <2>3. Len(data[n]) = 1 /\ Head(data[n]) = d
    BY <2>1
  <2> QED
    BY <2>1, <2>2, <2>3
<1> QED
  BY <1>2, <1>3

\* The one area and the one semaphore of a node serve all its peers; still
\* data are written only for the handler that waits, by the peer it waits for.
THEOREM HandshakeHolds == Spec => []HandshakeMatches
BY Invariance, Matches, PTL

\* A node that waits for data has none of its own to write first.
LEMMA TwoWait ==
  ASSUME NEW v, NEW w, NEW a, NEW b, NEW c, NEW d, NEW x, NEW y,
         Talk(v, w, a, b, c, d, x, y)
  PROVE  x = "no" \/ y = "no"
BY DEF Talk, Asks, Answered, Offering, Deciding, Refusing

LEMMA NotBoth == IInv => NoTwoWait
<1> SUFFICES ASSUME IInv, NEW n \in Node, NEW m \in Node,
                    WaitsFor(n, m), WaitsFor(m, n)
             PROVE  FALSE
  BY DEF NoTwoWait
<1>1. PICK a, b, c, d :
        Talk(Stage(n, m), Stage(m, n), a, b, c, d, Blocked(n, m), Blocked(m, n))
  BY DEF IInv, Talked
<1>2. Blocked(n, m) = "no" \/ Blocked(m, n) = "no"
  BY <1>1, TwoWait
<1> QED
  BY <1>2 DEF Blocked

\* Two nodes that ask each other at the same time never wait for each other.
THEOREM NoTwoWaitHolds == Spec => []NoTwoWait
BY Invariance, NotBoth, PTL
=============================================================================
