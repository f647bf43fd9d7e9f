---------------------------- MODULE PaxosProofs -----------------------------
(***************************************************************************)
(* Proofs about Paxos, for any number of cores and any values they        *)
(* propose: type correctness in every build, and agreement where a core    *)
(* suspects the controller once (PFD, Redetect = FALSE): with tPFD it uses *)
(* its counters again for a second proposal, and agreement fails.          *)
(*                                                                         *)
(* Agreement is Lamport's argument: a value that is offered at a number    *)
(* was safe there (SafeAt), so that no other value can have been chosen    *)
(* at a lower one.  What this code adds to it is that proposers only count *)
(* replies: Replies ties the two counters to sets of cores, as no core has *)
(* two replies of a kind under way and none is counted that was not made.  *)
(***************************************************************************)
EXTENDS Paxos, FiniteSetTheorems, SequenceTheorems, TLAPS

PromiseReply == {"PREPARE_ACCEPT_NO_PREVIOUS", "PREPARE_ACCEPT"}

Kind == {PromiseReply, {"ACCEPTED"}, {"ACCEPT_REQUEST"}}

\* A signal whose name is in K is under way from core d to core c, and a
\* queue holds one at most.
Has(c, d, K) == \E s \in Range(mail[c][d]) : s.sig \in K
Once(q, K) ==
  \A i, j \in DOMAIN q : q[i].sig \in K /\ q[j].sig \in K => i = j

Number(c) == proposal_number_personal[c]
-----------------------------------------------------------------------------
\* What the types rest on, in every build: a core replies only to one that
\* has proposed, and a number comes with a value.
Valued ==
  /\ \A c \in Core :
       /\ acceptor_vars[c].highest_acc_value # NoValue =>
            acceptor_vars[c].highest_acc_n \in Nat
       /\ proposer_vars[c].highest_replied_n # -1 =>
            proposer_vars[c].highest_replied_value \in Value
  /\ \A c, d \in Core : Has(c, d, PromiseReply) => Number(c) \in Nat
  /\ \A c, d \in Core : Has(d, c, {"PREPARE_REQUEST"}) => Number(c) \in Nat

TInv == TypeOK /\ Valued
-----------------------------------------------------------------------------
\* Taking the first signal of a queue leaves no other one of its kind there.
LEMMA TailFacts ==
  ASSUME NEW q \in Seq(Signal), q # <<>>, NEW K
  PROVE  /\ Tail(q) \in Seq(Signal) /\ Head(q) \in Range(q)
         /\ Head(q) \in Signal
         /\ Range(Tail(q)) \subseteq Range(q)
         /\ Once(q, K) => Once(Tail(q), K)
         /\ Once(q, K) /\ Head(q).sig \in K =>
              \A s \in Range(Tail(q)) : s.sig \notin K
<1>1. /\ 1 \in DOMAIN q /\ Head(q) = q[1] /\ q[1] \in Signal
      /\ Tail(q) \in Seq(Signal)
      /\ \A i \in DOMAIN Tail(q) :
           i \in Nat \ {0} /\ i + 1 \in DOMAIN q /\ Tail(q)[i] = q[i + 1]
  OBVIOUS
<1> HIDE DEF Signal
<1>2. Head(q) \in Range(q) /\ Range(Tail(q)) \subseteq Range(q)
  BY <1>1 DEF Range
<1>3. ASSUME Once(q, K) PROVE Once(Tail(q), K)
  <2> SUFFICES ASSUME NEW i \in DOMAIN Tail(q), NEW j \in DOMAIN Tail(q),
                      Tail(q)[i].sig \in K, Tail(q)[j].sig \in K
               PROVE  i = j
    BY DEF Once
  <2>1. i + 1 = j + 1
    BY <1>1, <1>3 DEF Once
  <2> QED
    BY <1>1, <2>1
<1>4. ASSUME Once(q, K), Head(q).sig \in K, NEW s \in Range(Tail(q))
      PROVE  s.sig \notin K
  <2>1. PICK i \in DOMAIN Tail(q) : s = Tail(q)[i]
    BY DEF Range
  <2>2. i + 1 \in DOMAIN q /\ s = q[i + 1] /\ i + 1 # 1
    BY <1>1, <2>1
  <2> QED
    BY <1>1, <1>4, <2>2 DEF Once
<1> QED
  BY <1>1, <1>2, <1>3, <1>4

\* Adding a signal keeps it the only one of its kind if there was none.
LEMMA AppendFacts ==
  ASSUME NEW q \in Seq(Signal), NEW s \in Signal, NEW K
  PROVE  /\ Append(q, s) \in Seq(Signal)
         /\ Range(Append(q, s)) = Range(q) \cup {s}
         /\ Once(q, K) /\ (s.sig \in K => \A r \in Range(q) : r.sig \notin K)
              => Once(Append(q, s), K)
<1> DEFINE A == Append(q, s)
<1>1. /\ A \in Seq(Signal) /\ DOMAIN A = DOMAIN q \cup {Len(q) + 1}
      /\ Len(q) + 1 \notin DOMAIN q
      /\ A[Len(q) + 1] = s /\ \A i \in DOMAIN q : A[i] = q[i]
  OBVIOUS
<1> HIDE DEF A, Signal
<1>2. Range(A) = Range(q) \cup {s}
  BY <1>1 DEF Range
<1>3. ASSUME Once(q, K), s.sig \in K => \A r \in Range(q) : r.sig \notin K
      PROVE  Once(A, K)
  BY <1>1, <1>3 DEF Once, Range
<1> QED
  BY <1>1, <1>2, <1>3 DEF A
-----------------------------------------------------------------------------
\* Mailboxes b come from a when signals are taken and core c sends those of S,
\* one at most, to cores of T.
Follows(a, b, c, T, S) ==
  /\ b \in [Core -> [Core -> Seq(Signal)]]
  /\ \A t, u \in Core :
       Range(b[t][u]) \subseteq
         Range(a[t][u]) \cup (IF u = c /\ t \in T THEN S ELSE {})
  /\ \A t, u \in Core, K \in Kind :
       /\ Once(a[t][u], K)
       /\ u = c /\ t \in T => \A s \in S : s.sig \in K =>
            \A r \in Range(a[t][u]) : r.sig \notin K
       => Once(b[t][u], K)

\* Taking the first signal of a queue.
LEMMA TakenFollows ==
  ASSUME mail \in [Core -> [Core -> Seq(Signal)]],
         NEW c \in Core, NEW p \in Core, mail[c][p] # <<>>
  PROVE  /\ \A T : Follows(mail, Taken(c, p), c, T, {})
         /\ \A K \in Kind : Once(mail[c][p], K) /\ Head(mail[c][p]).sig \in K =>
              \A r \in Range(Taken(c, p)[c][p]) : r.sig \notin K
         /\ Head(mail[c][p]) \in Range(mail[c][p])
         /\ Head(mail[c][p]) \in Signal
<1> DEFINE q == mail[c][p]
<1>1. /\ q \in Seq(Signal) /\ q # <<>>
      /\ \A t, u \in Core : mail[t][u] \in Seq(Signal)
  OBVIOUS
<1> HIDE DEF q, Signal
<1>2. /\ Tail(q) \in Seq(Signal) /\ Head(q) \in Range(q) /\ Head(q) \in Signal
      /\ Range(Tail(q)) \subseteq Range(q)
      /\ \A K \in Kind :
           /\ Once(q, K) => Once(Tail(q), K)
           /\ Once(q, K) /\ Head(q).sig \in K =>
                \A s \in Range(Tail(q)) : s.sig \notin K
  BY <1>1, TailFacts
<1>3. /\ Taken(c, p) \in [Core -> [Core -> Seq(Signal)]]
      /\ Taken(c, p)[c][p] = Tail(q)
      /\ \A t, u \in Core : t # c \/ u # p => Taken(c, p)[t][u] = mail[t][u]
  BY <1>2 DEF Taken, q
<1>4. \A T : Follows(mail, Taken(c, p), c, T, {})
  BY <1>2, <1>3 DEF Follows, q
<1> QED
  BY <1>2, <1>3, <1>4 DEF q

\* Adding a signal to queues of one sender.
LEMMA BoxFollows ==
  ASSUME NEW box \in [Core -> [Core -> Seq(Signal)]], NEW s \in Signal,
         NEW c \in Core, NEW T,
         NEW new \in [Core -> [Core -> Seq(Signal)]],
         \A t, u \in Core :
           \/ new[t][u] = box[t][u]
           \/ t \in T /\ u = c /\ new[t][u] = Append(box[t][u], s)
  PROVE  Follows(box, new, c, T, {s})
<1> HIDE DEF Signal, Kind
<1> SUFFICES ASSUME NEW t \in Core, NEW u \in Core
             PROVE  /\ Range(new[t][u]) \subseteq
                         Range(box[t][u]) \cup (IF u = c /\ t \in T THEN {s} ELSE {})
                    /\ \A K \in Kind :
                         /\ Once(box[t][u], K)
                         /\ u = c /\ t \in T => \A r \in {s} : r.sig \in K =>
                              \A x \in Range(box[t][u]) : x.sig \notin K
                         => Once(new[t][u], K)
  BY DEF Follows
<1>1. CASE new[t][u] = box[t][u]
  BY <1>1
<1>2. CASE t \in T /\ u = c /\ new[t][u] = Append(box[t][u], s)
  <2>1. box[t][u] \in Seq(Signal)
    OBVIOUS
  <2> QED
    BY <1>2, <2>1, AppendFacts
<1> QED
  BY <1>1, <1>2

\* Sending a signal to one core or to all.
LEMMA SendFollows ==
  ASSUME NEW box \in [Core -> [Core -> Seq(Signal)]], NEW s \in Signal,
         NEW c \in Core, NEW p \in Core
  PROVE  /\ Follows(box, Send(box, c, p, s), c, {p}, {s})
         /\ Follows(box, SendAll(box, c, s), c, Core, {s})
<1>1. \A t, u \in Core :
        box[t][u] \in Seq(Signal) /\ Append(box[t][u], s) \in Seq(Signal)
  BY AppendFacts
<1> HIDE DEF Signal
<1>2. Send(box, c, p, s) \in [Core -> [Core -> Seq(Signal)]]
      /\ \A t, u \in Core :
          \/ Send(box, c, p, s)[t][u] = box[t][u]
          \/ t \in {p} /\ u = c /\ Send(box, c, p, s)[t][u] = Append(box[t][u], s)
  BY <1>1 DEF Send
<1>3. SendAll(box, c, s) \in [Core -> [Core -> Seq(Signal)]]
      /\ \A t, u \in Core :
          \/ SendAll(box, c, s)[t][u] = box[t][u]
          \/ t \in Core /\ u = c /\ SendAll(box, c, s)[t][u] = Append(box[t][u], s)
  BY <1>1 DEF SendAll
<1> HIDE DEF Send, SendAll
<1> QED
  BY <1>2, <1>3, BoxFollows

\* A handler takes a signal and may send another: the one it took leaves none
\* of its kind behind, unless it sends one.
LEMMA Handled ==
  ASSUME mail \in [Core -> [Core -> Seq(Signal)]],
         NEW c \in Core, NEW p \in Core, mail[c][p] # <<>>,
         NEW T, NEW S, Follows(Taken(c, p), mail', c, T, S)
  PROVE  /\ Follows(mail, mail', c, T, S)
         /\ \A K \in Kind :
              /\ Once(mail[c][p], K) /\ Head(mail[c][p]).sig \in K
              /\ \A s \in S : s.sig \notin K
              => ~ Has(c, p, K)'
<1> DEFINE box == Taken(c, p)
<1>1. /\ Follows(mail, box, c, T, {})
      /\ \A K \in Kind : Once(mail[c][p], K) /\ Head(mail[c][p]).sig \in K =>
           \A r \in Range(box[c][p]) : r.sig \notin K
  BY TakenFollows
<1> HIDE DEF box, Signal, Kind
<1>2. Follows(box, mail', c, T, S)
  BY DEF box
<1>3. \A t, u \in Core : Range(box[t][u]) \subseteq Range(mail[t][u])
  BY <1>1 DEF Follows
<1>4. Follows(mail, mail', c, T, S)
  <2>1. ASSUME NEW t \in Core, NEW u \in Core, NEW K \in Kind, Once(mail[t][u], K),
               u = c /\ t \in T => \A s \in S : s.sig \in K =>
                 \A r \in Range(mail[t][u]) : r.sig \notin K
        PROVE  Once(mail'[t][u], K)
    <3>1. Once(box[t][u], K)
      BY <1>1, <2>1 DEF Follows
    <3> QED
      BY <1>2, <1>3, <2>1, <3>1 DEF Follows
  <2> QED
    BY <1>2, <1>3, <2>1 DEF Follows
<1>5. ASSUME NEW K \in Kind, Once(mail[c][p], K), Head(mail[c][p]).sig \in K,
             \A s \in S : s.sig \notin K
      PROVE  ~ Has(c, p, K)'
  BY <1>1, <1>2, <1>5 DEF Follows, Has
<1> QED
  BY <1>4, <1>5
-----------------------------------------------------------------------------
\* What the handlers do to the mailboxes.
Request(c) == [sig |-> "PREPARE_REQUEST", n |-> proposal_number_global]
Reply(c) == IF acceptor_vars[c].highest_acc_value = NoValue
            THEN [sig |-> "PREPARE_ACCEPT_NO_PREVIOUS"]
            ELSE [sig |-> "PREPARE_ACCEPT", n |-> acceptor_vars[c].highest_acc_n,
                  value |-> acceptor_vars[c].highest_acc_value]
Ask(c, v) == [sig |-> "ACCEPT_REQUEST", n |-> Number(c), value |-> v]
Answer(v) == [sig |-> "ACCEPTED", value |-> v]

LEMMA DetectMail ==
  ASSUME TInv, NEW c \in Core, Detect(c)
  PROVE  Follows(mail, mail', c, Core, {Request(c)})
<1>1. mail \in [Core -> [Core -> Seq(Signal)]] /\ Request(c) \in Signal
  BY DEF TInv, TypeOK, Request, Signal
<1> HIDE DEF Signal
<1> QED
  BY <1>1, SendFollows DEF Detect, Request

\* The signal a handler takes, and the handlers that send nothing.
LEMMA QuietMail ==
  ASSUME TInv, NEW c \in Core, NEW p \in Core, mail[c][p] # <<>>,
         mail' = Taken(c, p)
  PROVE  /\ Follows(mail, mail', c, {}, {})
         /\ \A K \in Kind : Once(mail[c][p], K) /\ Head(mail[c][p]).sig \in K =>
              ~ Has(c, p, K)'
<1>1. mail \in [Core -> [Core -> Seq(Signal)]]
  BY DEF TInv, TypeOK
<1> HIDE DEF Signal, Kind
<1> QED
  BY <1>1, TakenFollows DEF Has

LEMMA HeadFacts ==
  ASSUME TInv, NEW c \in Core, NEW p \in Core, mail[c][p] # <<>>
  PROVE  Head(mail[c][p]) \in Range(mail[c][p]) /\ Head(mail[c][p]) \in Signal
<1>1. mail \in [Core -> [Core -> Seq(Signal)]]
  BY DEF TInv, TypeOK
<1> HIDE DEF Signal, Kind
<1> QED
  BY <1>1, TakenFollows

\* A handler that takes a signal and sends one to its sender or to all.
LEMMA AnswerMail ==
  ASSUME TInv, NEW c \in Core, NEW p \in Core, mail[c][p] # <<>>,
         NEW s \in Signal, NEW T,
         \/ mail' = Send(Taken(c, p), c, p, s) /\ T = {p}
         \/ mail' = SendAll(Taken(c, p), c, s) /\ T = Core
  PROVE  /\ Follows(mail, mail', c, T, {s})
         /\ \A K \in Kind :
              /\ Once(mail[c][p], K) /\ Head(mail[c][p]).sig \in K
              /\ s.sig \notin K
              => ~ Has(c, p, K)'
<1>1. mail \in [Core -> [Core -> Seq(Signal)]]
  BY DEF TInv, TypeOK
<1> HIDE DEF Signal, Kind
<1>2. Taken(c, p) \in [Core -> [Core -> Seq(Signal)]]
  BY <1>1, TakenFollows DEF Follows
<1> HIDE DEF Taken, Send, SendAll
<1>3. Follows(Taken(c, p), mail', c, T, {s})
  BY ZenonT(30), <1>2, SendFollows
<1> QED
  BY <1>1, <1>3, Handled

\* A process that exits reads its mail no more.
LEMMA LearnMail ==
  ASSUME TInv, NEW c \in Core, NEW p \in Core, Learn(c, p)
  PROVE  Follows(mail, mail', c, {}, {})
<1>1. /\ mail \in [Core -> [Core -> Seq(Signal)]]
      /\ mail' = [mail EXCEPT ![c] = [d \in Core |-> <<>>]]
  BY DEF TInv, TypeOK, Learn
<1> HIDE DEF Signal, Kind
<1>2. /\ mail' \in [Core -> [Core -> Seq(Signal)]]
      /\ \A t, u \in Core : mail'[t][u] = mail[t][u] \/ mail'[t][u] = <<>>
  <2>1. <<>> \in Seq(Signal)
    OBVIOUS
  <2> QED
    BY <1>1, <2>1
<1>3. Range(<<>>) = {} /\ \A K : Once(<<>>, K)
  BY DEF Range, Once
<1> QED
  BY <1>2, <1>3 DEF Follows
-----------------------------------------------------------------------------
(* The types.                                                              *)

LEMMA InitTypes == Init => TInv
<1> SUFFICES ASSUME Init PROVE TInv
  OBVIOUS
<1>1. mail \in [Core -> [Core -> Seq(Signal)]]
  <2>1. <<>> \in Seq(Signal)
    OBVIOUS
  <2> QED
    BY <2>1 DEF Init
<1>2. TypeOK
  BY <1>1 DEF Init, TypeOK
<1>3. \A c, d \in Core : Range(mail[c][d]) = {}
  BY DEF Init, Range
<1>4. Valued
  BY <1>3 DEF Init, Valued, Has
<1> QED
  BY <1>2, <1>4 DEF TInv

\* Mail keeps Valued if requests and replies are sent as they should be.
LEMMA ValuedMail ==
  ASSUME TInv, NEW c \in Core, NEW T, NEW S, Follows(mail, mail', c, T, S),
         \A d \in Core : Number(d) \in Nat => Number(d)' \in Nat,
         \A s \in S : s.sig = "PREPARE_REQUEST" => Number(c)' \in Nat,
         \A s \in S, t \in T \cap Core :
           s.sig \in PromiseReply => Number(t)' \in Nat
  PROVE  /\ \A t, u \in Core : Has(t, u, PromiseReply)' => Number(t)' \in Nat
         /\ \A t, u \in Core : Has(u, t, {"PREPARE_REQUEST"})' => Number(t)' \in Nat
<1>1. \A t, u \in Core : Has(t, u, PromiseReply) => Number(t) \in Nat
  BY DEF TInv, Valued
<1>2. \A t, u \in Core : Has(u, t, {"PREPARE_REQUEST"}) => Number(t) \in Nat
  BY DEF TInv, Valued
<1> HIDE DEF PromiseReply, Number
<1>3. ASSUME NEW t \in Core, NEW u \in Core, Has(t, u, PromiseReply)'
      PROVE  Number(t)' \in Nat
  <2>1. PICK s \in Range(mail'[t][u]) : s.sig \in PromiseReply
    BY <1>3 DEF Has, PromiseReply
  <2>2. s \in Range(mail[t][u]) \/ (u = c /\ t \in T /\ s \in S)
    BY <2>1 DEF Follows
  <2> QED
    BY <1>1, <2>1, <2>2 DEF Has
<1>4. ASSUME NEW t \in Core, NEW u \in Core, Has(u, t, {"PREPARE_REQUEST"})'
      PROVE  Number(t)' \in Nat
  <2>1. PICK s \in Range(mail'[u][t]) : s.sig = "PREPARE_REQUEST"
    BY <1>4 DEF Has
  <2>2. s \in Range(mail[u][t]) \/ (t = c /\ s \in S)
    BY <2>1 DEF Follows
  <2> QED
    BY <1>2, <2>1, <2>2 DEF Has
<1> QED
  BY <1>3, <1>4

LEMMA DetectTypes ==
  ASSUME TInv, NEW c \in Core, Detect(c)
  PROVE  TInv'
<1>1. Follows(mail, mail', c, Core, {Request(c)})
  BY DetectMail
<1>2. /\ \A d \in Core : Number(d) \in Nat => Number(d)' \in Nat
      /\ Number(c)' \in Nat
      /\ proposal_number_personal' \in [Core -> Nat \cup {-1}]
      /\ proposal_number_global' \in Nat
  BY DEF TInv, TypeOK, Detect, Number
<1>3. TypeOK'
  BY <1>1, <1>2 DEF TInv, TypeOK, Detect, Follows, sentVars
<1>4. Request(c).sig \notin PromiseReply
  BY DEF Request, PromiseReply
<1>5. Valued'
  BY <1>1, <1>2, <1>4, ValuedMail
     DEF TInv, Valued, Detect
<1> QED
  BY <1>3, <1>5 DEF TInv

\* Handlers that only take signals, or exit.
LEMMA QuietTypes ==
  ASSUME TInv, NEW c \in Core, Follows(mail, mail', c, {}, {}),
         running' \in [Core -> BOOLEAN],
         UNCHANGED <<proposalVars, acceptor_vars, proposer_vars, sentVars,
                     promised, accepted>>
  PROVE  TInv'
<1>1. UNCHANGED <<proposal_number_global, proposal_number_personal,
                  PREPARE_ACCEPT_SENT, SIG_LEARN_SENT, announced,
                  acceptor_vars, proposer_vars, promised, accepted>>
  BY DEF proposalVars, sentVars
<1>2. TypeOK'
  BY <1>1 DEF TInv, TypeOK, Follows
<1>3. Valued'
  BY <1>1, ValuedMail DEF TInv, Valued, Number
<1> QED
  BY <1>2, <1>3 DEF TInv

LEMMA PrepareRequestTypes ==
  ASSUME TInv, NEW c \in Core, NEW p \in Core, PrepareRequest(c, p)
  PROVE  /\ TInv'
         /\ Reply(c) \in Signal /\ Follows(mail, mail', c, {p}, {Reply(c)})
         /\ Head(mail[c][p]) \in Range(mail[c][p])
         /\ Head(mail[c][p]).sig = "PREPARE_REQUEST"
         /\ Head(mail[c][p]).n \in Nat
<1> DEFINE s == Head(mail[c][p])
<1>1. /\ s \in Range(mail[c][p]) /\ s \in Signal /\ s.sig = "PREPARE_REQUEST"
      /\ mail[c][p] # <<>>
  BY HeadFacts DEF PrepareRequest, Receives
<1>2. s.n \in Nat /\ Number(p) \in Nat
  BY <1>1 DEF Signal, TInv, Valued, Has
<1>3. Reply(c) \in Signal /\ Reply(c).sig \in PromiseReply
      /\ Reply(c).sig # "PREPARE_REQUEST"
  BY DEF TInv, Valued, TypeOK, Reply, Signal, PromiseReply
<1>4. Follows(mail, mail', c, {p}, {Reply(c)})
  BY <1>1, <1>3, AnswerMail DEF PrepareRequest, Reply
<1>5. acceptor_vars' \in [Core -> [highest_proposed_n : Nat \cup {-1},
                                 highest_acc_n : Nat \cup {-1},
                                 highest_acc_value : Value \cup {NoValue}]]
      /\ \A d \in Core :
           /\ acceptor_vars'[d].highest_acc_n = acceptor_vars[d].highest_acc_n
           /\ acceptor_vars'[d].highest_acc_value = acceptor_vars[d].highest_acc_value
  <2>1. acceptor_vars[c] \in [highest_proposed_n : Nat \cup {-1},
                              highest_acc_n : Nat \cup {-1},
                              highest_acc_value : Value \cup {NoValue}]
    BY DEF TInv, TypeOK
  <2>2. acceptor_vars' = [acceptor_vars EXCEPT ![c] =
                            [acceptor_vars[c] EXCEPT !.highest_proposed_n = s.n]]
    BY DEF PrepareRequest
  <2> QED
    BY <1>2, <2>1, <2>2 DEF TInv, TypeOK
<1>6. UNCHANGED <<running, proposal_number_global, proposal_number_personal,
                  PREPARE_ACCEPT_SENT, SIG_LEARN_SENT, announced,
                  proposer_vars, accepted>>
      /\ promised' = promised \cup {<<c, s.n>>}
  BY DEF PrepareRequest, proposalVars, sentVars
<1> HIDE DEF s
<1>7. TypeOK'
  <2>1. promised' \subseteq Core \X Nat
    BY <1>2, <1>6 DEF TInv, TypeOK
  <2>2. mail' \in [Core -> [Core -> Seq(Signal)]]
    BY <1>4 DEF Follows
  <2> QED
    BY <1>5, <1>6, <2>1, <2>2 DEF TInv, TypeOK
<1>8. Valued'
  BY <1>2, <1>3, <1>4, <1>5, <1>6, ValuedMail DEF TInv, Valued, Number
<1> QED
  BY <1>1, <1>2, <1>3, <1>4, <1>7, <1>8 DEF TInv, s

ProposerVars == [highest_replied_n : Nat \cup {-1},
                 highest_replied_value : Value \cup {NoValue},
                 cores_promised : Nat, cores_accepted : Nat]

\* What a proposer does once "mine" counts a promise: it asks for acceptance of
\* value v, or counts on.
Asks(c, mine, v) ==
  /\ Quorum(mine.cores_promised) /\ ~ PREPARE_ACCEPT_SENT[c]
  /\ PREPARE_ACCEPT_SENT' = [PREPARE_ACCEPT_SENT EXCEPT ![c] = TRUE]
  /\ proposer_vars' = [proposer_vars EXCEPT ![c] =
                         [mine EXCEPT !.highest_replied_value = v]]
  /\ Follows(mail, mail', c, Core, {Ask(c, v)})
CountsOn(c, mine) ==
  /\ proposer_vars' = [proposer_vars EXCEPT ![c] = mine]
  /\ PREPARE_ACCEPT_SENT' = PREPARE_ACCEPT_SENT
  /\ Follows(mail, mail', c, {}, {})

LEMMA PromisedEffect ==
  ASSUME TInv, NEW c \in Core, NEW p \in Core, mail[c][p] # <<>>,
         Head(mail[c][p]).sig \in PromiseReply,
         NEW mine, NEW v \in Value, Promised(c, p, mine, v)
  PROVE  /\ Asks(c, mine, v) \/ CountsOn(c, mine)
         /\ Once(mail[c][p], PromiseReply) => ~ Has(c, p, PromiseReply)'
<1>1. Number(c) \in Nat
  BY HeadFacts DEF TInv, Valued, Has
<1>2. Ask(c, v) \in Signal /\ Ask(c, v).sig \notin PromiseReply
  BY <1>1 DEF Ask, Signal, PromiseReply
<1>3. PromiseReply \in Kind
  BY DEF Kind
<1> HIDE DEF Signal, PromiseReply, Kind
<1>4. CASE Quorum(mine.cores_promised) /\ ~ PREPARE_ACCEPT_SENT[c]
  <2>1. mail' = SendAll(Taken(c, p), c, Ask(c, v))
    BY <1>4 DEF Promised, Ask, Number
  <2>2. /\ Follows(mail, mail', c, Core, {Ask(c, v)})
        /\ Once(mail[c][p], PromiseReply) => ~ Has(c, p, PromiseReply)'
    BY <1>2, <1>3, <2>1, AnswerMail
  <2> QED
    BY <1>4, <2>2 DEF Promised, Asks
<1>5. CASE ~ (Quorum(mine.cores_promised) /\ ~ PREPARE_ACCEPT_SENT[c])
  <2>1. mail' = Taken(c, p)
    BY <1>5 DEF Promised
  <2>2. /\ Follows(mail, mail', c, {}, {})
        /\ Once(mail[c][p], PromiseReply) => ~ Has(c, p, PromiseReply)'
    BY <1>3, <2>1, QuietMail
  <2> QED
    BY <1>5, <2>2 DEF Promised, CountsOn
<1> QED
  BY <1>4, <1>5

LEMMA PromisedTypes ==
  ASSUME TInv, NEW c \in Core, NEW p \in Core, mail[c][p] # <<>>,
         Head(mail[c][p]).sig \in PromiseReply,
         NEW mine \in ProposerVars, NEW v \in Value, Promised(c, p, mine, v),
         mine.highest_replied_n # -1 => mine.highest_replied_value \in Value,
         UNCHANGED <<running, proposalVars, acceptor_vars, SIG_LEARN_SENT,
                     announced, promised, accepted>>
  PROVE  TInv'
<1>1. UNCHANGED <<running, proposal_number_global, proposal_number_personal,
                  acceptor_vars, SIG_LEARN_SENT, announced, promised, accepted>>
  BY DEF proposalVars
<1>2. CASE Asks(c, mine, v)
  <2>1. [mine EXCEPT !.highest_replied_value = v] \in ProposerVars
    BY DEF ProposerVars
  <2>2. /\ proposer_vars' \in [Core -> ProposerVars]
        /\ PREPARE_ACCEPT_SENT' \in [Core -> BOOLEAN]
        /\ \A d \in Core : proposer_vars'[d].highest_replied_n # -1 =>
             proposer_vars'[d].highest_replied_value \in Value
    BY <1>2, <2>1 DEF Asks, TInv, TypeOK, Valued, ProposerVars
  <2>3. TypeOK'
    BY <1>1, <1>2, <2>2 DEF TInv, TypeOK, Asks, Follows, ProposerVars
  <2>4. Ask(c, v).sig = "ACCEPT_REQUEST" /\ "ACCEPT_REQUEST" \notin PromiseReply
    BY DEF Ask, PromiseReply
  <2>5. Valued'
    BY <1>1, <1>2, <2>2, <2>4, ValuedMail DEF TInv, Valued, Asks, Number
  <2> QED
    BY <2>3, <2>5 DEF TInv
<1>3. CASE CountsOn(c, mine)
  <2>1. /\ proposer_vars' \in [Core -> ProposerVars]
        /\ PREPARE_ACCEPT_SENT' \in [Core -> BOOLEAN]
        /\ \A d \in Core : proposer_vars'[d].highest_replied_n # -1 =>
             proposer_vars'[d].highest_replied_value \in Value
    BY <1>3 DEF CountsOn, TInv, TypeOK, Valued, ProposerVars
  <2>2. TypeOK'
    BY <1>1, <1>3, <2>1 DEF TInv, TypeOK, CountsOn, Follows, ProposerVars
  <2>3. Valued'
    BY <1>1, <1>3, <2>1, ValuedMail DEF TInv, Valued, CountsOn, Number
  <2> QED
    BY <2>2, <2>3 DEF TInv
<1> QED
  BY <1>2, <1>3, PromisedEffect

\* What counts a promise without and with a value.
CountedPromise(c) == [proposer_vars[c] EXCEPT !.cores_promised = @ + 1]
Learned(c, p) == Keeps(CountedPromise(c), Head(mail[c][p]))

LEMMA NoPreviousParts ==
  ASSUME TInv, NEW c \in Core, NEW p \in Core, PrepareAcceptNoPrevious(c, p)
  PROVE  /\ mail[c][p] # <<>> /\ running[c]
         /\ Head(mail[c][p]).sig = "PREPARE_ACCEPT_NO_PREVIOUS"
         /\ CountedPromise(c) \in ProposerVars
         /\ CountedPromise(c).highest_replied_n # -1 =>
              CountedPromise(c).highest_replied_value \in Value
         /\ \E v \in Value :
              /\ Promised(c, p, CountedPromise(c), v)
              /\ proposer_vars[c].highest_replied_value \in {NoValue, v}
<1>1. proposer_vars[c] \in ProposerVars
  BY DEF TInv, TypeOK, ProposerVars
<1>2. /\ CountedPromise(c) \in ProposerVars
      /\ CountedPromise(c).highest_replied_n = proposer_vars[c].highest_replied_n
      /\ CountedPromise(c).highest_replied_value =
           proposer_vars[c].highest_replied_value
  BY <1>1 DEF CountedPromise, ProposerVars
<1>3. index[c] \subseteq Value
  BY ValueAssumption
<1>4. PICK v \in IF CountedPromise(c).highest_replied_value = NoValue THEN index[c]
                 ELSE {CountedPromise(c).highest_replied_value} :
           Promised(c, p, CountedPromise(c), v)
  BY DEF PrepareAcceptNoPrevious, CountedPromise
<1>5. v \in Value /\ proposer_vars[c].highest_replied_value \in {NoValue, v}
  BY <1>1, <1>2, <1>3, <1>4 DEF ProposerVars
<1> QED
  BY <1>2, <1>4, <1>5 DEF PrepareAcceptNoPrevious, Receives, TInv, Valued

LEMMA PrepareAcceptParts ==
  ASSUME TInv, NEW c \in Core, NEW p \in Core, PrepareAccept(c, p)
  PROVE  /\ mail[c][p] # <<>> /\ running[c]
         /\ Head(mail[c][p]).sig = "PREPARE_ACCEPT"
         /\ Head(mail[c][p]) \in Range(mail[c][p])
         /\ Head(mail[c][p]).n \in Nat /\ Head(mail[c][p]).value \in Value
         /\ Learned(c, p) \in ProposerVars
         /\ Learned(c, p).highest_replied_n # -1
         /\ Learned(c, p).highest_replied_value \in Value
         /\ Promised(c, p, Learned(c, p), Learned(c, p).highest_replied_value)
<1>1. proposer_vars[c] \in ProposerVars
  BY DEF TInv, TypeOK, ProposerVars
<1>2. /\ CountedPromise(c) \in ProposerVars
      /\ CountedPromise(c).highest_replied_n = proposer_vars[c].highest_replied_n
      /\ CountedPromise(c).highest_replied_value =
           proposer_vars[c].highest_replied_value
  BY <1>1 DEF CountedPromise, ProposerVars
<1>3. /\ mail[c][p] # <<>> /\ running[c]
      /\ Head(mail[c][p]).sig = "PREPARE_ACCEPT"
      /\ Promised(c, p, Learned(c, p), Learned(c, p).highest_replied_value)
  BY DEF PrepareAccept, Receives, Learned, CountedPromise
<1>4. Head(mail[c][p]) \in Range(mail[c][p]) /\ Head(mail[c][p]) \in Signal
  BY <1>3, HeadFacts
<1>5. Head(mail[c][p]).n \in Nat /\ Head(mail[c][p]).value \in Value
  BY <1>3, <1>4 DEF Signal
<1>6. /\ Learned(c, p) \in ProposerVars
      /\ Learned(c, p).highest_replied_n # -1
  <2> DEFINE mine == CountedPromise(c)
             s == Head(mail[c][p])
             kept == [mine EXCEPT !.highest_replied_n = s.n,
                                  !.highest_replied_value = s.value]
  <2>1. mine \in ProposerVars /\ s.n \in Nat /\ s.value \in Value
    BY <1>2, <1>5
  <2>2. Learned(c, p) = IF s.n > mine.highest_replied_n THEN kept ELSE mine
    BY DEF Learned, Keeps
  <2> HIDE DEF mine, s
  <2>3. kept \in ProposerVars /\ kept.highest_replied_n = s.n
    BY <2>1 DEF ProposerVars
  <2>4. mine.highest_replied_n \in Nat \cup {-1}
    BY <2>1 DEF ProposerVars
  <2> HIDE DEF kept
  <2> QED
    BY <2>1, <2>2, <2>3, <2>4
<1>7. Learned(c, p).highest_replied_value \in Value
  BY <1>1, <1>2, <1>5 DEF Learned, Keeps, ProposerVars, TInv, Valued
<1> QED
  BY <1>3, <1>4, <1>5, <1>6, <1>7

LEMMA PromiseTypes ==
  ASSUME TInv, NEW c \in Core, NEW p \in Core,
         PrepareAcceptNoPrevious(c, p) \/ PrepareAccept(c, p)
  PROVE  TInv'
<1>1. CASE PrepareAcceptNoPrevious(c, p)
  <2>1. PICK v \in Value : Promised(c, p, CountedPromise(c), v)
    BY <1>1, NoPreviousParts
  <2>2. Head(mail[c][p]).sig \in PromiseReply /\ mail[c][p] # <<>>
    BY <1>1, NoPreviousParts DEF PromiseReply
  <2>3. UNCHANGED <<running, proposalVars, acceptor_vars, SIG_LEARN_SENT,
                    announced, promised, accepted>>
    BY <1>1 DEF PrepareAcceptNoPrevious
  <2> QED
    BY <1>1, <2>1, <2>2, <2>3, NoPreviousParts, PromisedTypes
<1>2. CASE PrepareAccept(c, p)
  <2>1. Head(mail[c][p]).sig \in PromiseReply /\ mail[c][p] # <<>>
    BY <1>2, PrepareAcceptParts DEF PromiseReply
  <2>2. UNCHANGED <<running, proposalVars, acceptor_vars, SIG_LEARN_SENT,
                    announced, promised, accepted>>
    BY <1>2 DEF PrepareAccept
  <2> QED
    BY <1>2, <2>1, <2>2, PrepareAcceptParts, PromisedTypes
<1> QED
  BY <1>1, <1>2

\* A value is accepted, or turned down without a word.
Accepts(c, p) ==
  LET s == Head(mail[c][p])
  IN  /\ ~ ToldHigher(c, s.n)
      /\ acceptor_vars' = [acceptor_vars EXCEPT ![c] =
           [highest_proposed_n |-> s.n, highest_acc_n |-> s.n,
            highest_acc_value |-> s.value]]
      /\ accepted' = accepted \cup {<<c, s.n, s.value>>}
      /\ Follows(mail, mail', c, {p}, {Answer(s.value)})
TurnsDown(c) ==
  /\ UNCHANGED <<acceptor_vars, accepted>>
  /\ Follows(mail, mail', c, {}, {})

LEMMA AcceptRequestEffect ==
  ASSUME TInv, NEW c \in Core, NEW p \in Core, AcceptRequest(c, p)
  PROVE  /\ Head(mail[c][p]) \in Range(mail[c][p])
         /\ Head(mail[c][p]).sig = "ACCEPT_REQUEST"
         /\ Head(mail[c][p]).n \in Nat /\ Head(mail[c][p]).value \in Value
         /\ Accepts(c, p) \/ TurnsDown(c)
         /\ Once(mail[c][p], {"ACCEPT_REQUEST"}) =>
              ~ Has(c, p, {"ACCEPT_REQUEST"})'
         /\ UNCHANGED <<running, proposalVars, proposer_vars, sentVars, promised>>
<1> DEFINE s == Head(mail[c][p])
<1>1. /\ mail[c][p] # <<>> /\ s \in Range(mail[c][p]) /\ s \in Signal
      /\ s.sig = "ACCEPT_REQUEST"
  BY HeadFacts DEF AcceptRequest, Receives
<1>2. s.n \in Nat /\ s.value \in Value
  BY <1>1 DEF Signal
<1>3. Answer(s.value) \in Signal /\ Answer(s.value).sig = "ACCEPTED"
  BY <1>2 DEF Answer, Signal
<1>4. {"ACCEPT_REQUEST"} \in Kind
  BY DEF Kind
<1> HIDE DEF Signal, Kind
<1>5. CASE ToldHigher(c, s.n)
  <2>1. mail' = Taken(c, p) /\ UNCHANGED <<acceptor_vars, accepted>>
    BY <1>5 DEF AcceptRequest
  <2>2. /\ Follows(mail, mail', c, {}, {})
        /\ Once(mail[c][p], {"ACCEPT_REQUEST"}) => ~ Has(c, p, {"ACCEPT_REQUEST"})'
    BY <1>1, <1>4, <2>1, QuietMail
  <2> QED
    BY <1>1, <1>2, <2>1, <2>2 DEF TurnsDown, AcceptRequest
<1>6. CASE ~ ToldHigher(c, s.n)
  <2>1. /\ mail' = Send(Taken(c, p), c, p, Answer(s.value))
        /\ accepted' = accepted \cup {<<c, s.n, s.value>>}
        /\ acceptor_vars' = [acceptor_vars EXCEPT ![c] =
             [highest_proposed_n |-> s.n, highest_acc_n |-> s.n,
              highest_acc_value |-> s.value]]
    BY <1>6 DEF AcceptRequest, Answer
  <2>2. /\ Follows(mail, mail', c, {p}, {Answer(s.value)})
        /\ Once(mail[c][p], {"ACCEPT_REQUEST"}) => ~ Has(c, p, {"ACCEPT_REQUEST"})'
    BY <1>1, <1>3, <1>4, <2>1, AnswerMail
  <2> QED
    BY <1>1, <1>2, <1>6, <2>1, <2>2 DEF Accepts, AcceptRequest
<1> QED
  BY <1>5, <1>6

LEMMA AcceptRequestTypes ==
  ASSUME TInv, NEW c \in Core, NEW p \in Core, AcceptRequest(c, p)
  PROVE  TInv'
<1> DEFINE s == Head(mail[c][p])
<1>1. /\ s.n \in Nat /\ s.value \in Value /\ s.value # NoValue
      /\ UNCHANGED <<running, proposal_number_global, proposal_number_personal,
                     proposer_vars, PREPARE_ACCEPT_SENT, SIG_LEARN_SENT,
                     announced, promised>>
  BY AcceptRequestEffect, ValueAssumption DEF proposalVars, sentVars
<1>2. CASE Accepts(c, p)
  <2>1. /\ acceptor_vars' \in [Core -> [highest_proposed_n : Nat \cup {-1},
                                        highest_acc_n : Nat \cup {-1},
                                        highest_acc_value : Value \cup {NoValue}]]
        /\ \A d \in Core : acceptor_vars'[d].highest_acc_value # NoValue =>
             acceptor_vars'[d].highest_acc_n \in Nat
    <3>1. [highest_proposed_n |-> s.n, highest_acc_n |-> s.n,
           highest_acc_value |-> s.value]
             \in [highest_proposed_n : Nat \cup {-1}, highest_acc_n : Nat \cup {-1},
                  highest_acc_value : Value \cup {NoValue}]
      BY <1>1
    <3> QED
      BY <1>1, <1>2, <3>1 DEF Accepts, TInv, TypeOK, Valued
  <2>2. accepted' \subseteq Core \X Nat \X Value
    BY <1>1, <1>2 DEF Accepts, TInv, TypeOK
  <2>3. TypeOK'
    BY <1>1, <1>2, <2>1, <2>2 DEF Accepts, TInv, TypeOK, Follows
  <2>4. Answer(s.value).sig = "ACCEPTED" /\ "ACCEPTED" \notin PromiseReply
    BY DEF Answer, PromiseReply
  <2>5. Follows(mail, mail', c, {p}, {Answer(s.value)})
    BY <1>2 DEF Accepts
  <2> HIDE DEF s
  <2>6. Valued'
    BY <1>1, <2>1, <2>4, <2>5, ValuedMail DEF TInv, Valued, Number
  <2> QED
    BY <2>3, <2>6 DEF TInv
<1>3. CASE TurnsDown(c)
  BY <1>3, AcceptRequestEffect, QuietTypes DEF TurnsDown, TInv, TypeOK
<1> QED
  BY <1>2, <1>3, AcceptRequestEffect

\* An acceptance is counted, and the value announced or not.
LEMMA AcceptedEffect ==
  ASSUME TInv, NEW c \in Core, NEW p \in Core, Accepted(c, p)
  PROVE  LET s == Head(mail[c][p])
             count == proposer_vars[c].cores_accepted + 1
         IN  /\ s \in Range(mail[c][p]) /\ s.sig = "ACCEPTED" /\ s.value \in Value
             /\ Follows(mail, mail', c, Core,
                  {[sig |-> "LEARN", value |-> s.value]})
             /\ Once(mail[c][p], {"ACCEPTED"}) => ~ Has(c, p, {"ACCEPTED"})'
             /\ proposer_vars' = [proposer_vars EXCEPT ![c] =
                  [proposer_vars[c] EXCEPT !.cores_accepted = count]]
             /\ \/ /\ Quorum(count) /\ ~ SIG_LEARN_SENT[c]
                   /\ SIG_LEARN_SENT' = [SIG_LEARN_SENT EXCEPT ![c] = TRUE]
                   /\ announced' = [announced EXCEPT ![c] = s.value]
                \/ UNCHANGED <<SIG_LEARN_SENT, announced>>
             /\ UNCHANGED <<running, proposalVars, acceptor_vars,
                            PREPARE_ACCEPT_SENT, promised, accepted>>
<1> DEFINE s == Head(mail[c][p])
           learn == [sig |-> "LEARN", value |-> s.value]
<1>1. /\ mail[c][p] # <<>> /\ s \in Range(mail[c][p]) /\ s \in Signal
      /\ s.sig = "ACCEPTED"
  BY HeadFacts DEF Accepted, Receives
<1>2. s.value \in Value /\ learn \in Signal /\ learn.sig = "LEARN"
  BY <1>1 DEF Signal
<1>3. {"ACCEPTED"} \in Kind
  BY DEF Kind
<1> HIDE DEF Signal, Kind
<1>4. /\ mail' = SendAll(Taken(c, p), c, learn) \/ mail' = Taken(c, p)
  BY DEF Accepted
<1>5. /\ Follows(mail, mail', c, Core, {learn})
      /\ Once(mail[c][p], {"ACCEPTED"}) => ~ Has(c, p, {"ACCEPTED"})'
  <2>1. CASE mail' = SendAll(Taken(c, p), c, learn)
    BY <1>1, <1>2, <1>3, <2>1, AnswerMail
  <2>2. CASE mail' = Taken(c, p)
    <3>1. /\ Follows(mail, mail', c, {}, {})
          /\ Once(mail[c][p], {"ACCEPTED"}) => ~ Has(c, p, {"ACCEPTED"})'
      BY <1>1, <1>3, <2>2, QuietMail
    <3> QED
      BY <3>1 DEF Follows
  <2> QED
    BY <1>4, <2>1, <2>2
<1> HIDE DEF learn
<1>6. proposer_vars' = [proposer_vars EXCEPT ![c] =
        [proposer_vars[c] EXCEPT !.cores_accepted =
           proposer_vars[c].cores_accepted + 1]]
  BY DEF Accepted
<1> QED
  BY <1>1, <1>2, <1>5, <1>6 DEF Accepted, learn

LEMMA AcceptedTypes ==
  ASSUME TInv, NEW c \in Core, NEW p \in Core, Accepted(c, p)
  PROVE  TInv'
<1> DEFINE s == Head(mail[c][p])
           learn == [sig |-> "LEARN", value |-> s.value]
<1>1. /\ s.value \in Value /\ Follows(mail, mail', c, Core, {learn})
      /\ UNCHANGED <<running, proposal_number_global, proposal_number_personal,
                     acceptor_vars, PREPARE_ACCEPT_SENT, promised, accepted>>
  BY AcceptedEffect DEF proposalVars
<1>2. /\ proposer_vars' \in [Core -> ProposerVars]
      /\ \A d \in Core : proposer_vars'[d].highest_replied_n # -1 =>
             proposer_vars'[d].highest_replied_value \in Value
  <2>1. proposer_vars[c] \in ProposerVars
    BY DEF TInv, TypeOK, ProposerVars
  <2> DEFINE mine == [proposer_vars[c] EXCEPT !.cores_accepted =
                        proposer_vars[c].cores_accepted + 1]
  <2>2. /\ mine \in ProposerVars
        /\ mine.highest_replied_n = proposer_vars[c].highest_replied_n
        /\ mine.highest_replied_value = proposer_vars[c].highest_replied_value
    BY <2>1 DEF ProposerVars
  <2>3. proposer_vars' = [proposer_vars EXCEPT ![c] = mine]
    BY AcceptedEffect
  <2> HIDE DEF mine
  <2>4. proposer_vars \in [Core -> ProposerVars]
    BY DEF TInv, TypeOK, ProposerVars
  <2> QED
    BY <2>2, <2>3, <2>4 DEF TInv, Valued
<1>3. SIG_LEARN_SENT' \in [Core -> BOOLEAN]
      /\ announced' \in [Core -> Value \cup {NoValue}]
  BY AcceptedEffect DEF TInv, TypeOK
<1>4. TypeOK'
  BY <1>1, <1>2, <1>3 DEF TInv, TypeOK, Follows, ProposerVars
<1>5. learn.sig = "LEARN" /\ "LEARN" \notin PromiseReply
  BY DEF PromiseReply
<1> HIDE DEF learn
<1>6. Valued'
  BY <1>1, <1>2, <1>5, ValuedMail DEF TInv, Valued, Number
<1> QED
  BY <1>4, <1>6 DEF TInv

\* The handlers that change nothing but mail and who runs.
LEMMA QuietHandlers ==
  ASSUME TInv, NEW c \in Core, NEW p \in Core,
         PrepareRequestOld(c, p) \/ Learn(c, p)
  PROVE  /\ Follows(mail, mail', c, {}, {})
         /\ \A d \in Core : running'[d] => running[d]
         /\ running' \in [Core -> BOOLEAN]
         /\ UNCHANGED <<proposalVars, acceptor_vars, proposer_vars, sentVars,
                        promised, accepted>>
<1>1. CASE PrepareRequestOld(c, p)
  BY <1>1, QuietMail DEF PrepareRequestOld, Receives, TInv, TypeOK
<1>2. CASE Learn(c, p)
  BY <1>2, LearnMail DEF Learn, TInv, TypeOK
<1> QED
  BY <1>1, <1>2

LEMMA StepTypes == TInv /\ [Next]_vars => TInv'
<1> SUFFICES ASSUME TInv, [Next]_vars PROVE TInv'
  OBVIOUS
<1>1. ASSUME NEW c \in Core, Detect(c) PROVE TInv'
  BY <1>1, DetectTypes
<1>2. ASSUME NEW c \in Core, NEW p \in Core, Handler(c, p) PROVE TInv'
  BY <1>2, QuietHandlers, QuietTypes, PrepareRequestTypes, PromiseTypes,
     AcceptRequestTypes, AcceptedTypes DEF Handler
<1>3. CASE UNCHANGED vars
  BY <1>3 DEF TInv, TypeOK, Valued, Has, Number, vars, proposalVars, sentVars
<1> QED
  BY <1>1, <1>2, <1>3 DEF Next

\* In every build, each variable has its type: no signal without its number
\* or value is ever sent, and no core is asked to accept NoValue.
THEOREM TypeCorrect == Spec => []TypeOK
<1>1. TInv => TypeOK
  BY DEF TInv
<1> QED
  BY InitTypes, StepTypes, <1>1, PTL DEF Spec

-----------------------------------------------------------------------------
(* Majorities, one value for a number, and agreement.                        *)

\* Those whose promise, or acceptance, proposer c has counted or will never.
PromisedTo(c) == {d \in Core : /\ <<d, Number(c)>> \in promised
                               /\ ~ Has(c, d, PromiseReply)}
AcceptedFor(c) == {d \in Core : /\ \E v \in Value : <<d, Number(c), v>> \in accepted
                                /\ ~ Has(c, d, {"ACCEPTED"})}

\* A value is offered at a number: somebody is asked to accept it, or did.
Offered(n, v) ==
  \/ \E d \in Core : <<d, n, v>> \in accepted
  \/ \E c, d \in Core :
       [sig |-> "ACCEPT_REQUEST", n |-> n, value |-> v] \in Range(mail[d][c])

Majority == {Q \in SUBSET Core : Quorum(Cardinality(Q))}

\* d did not accept anything at number n and never will.
WontAccept(d, n) ==
  /\ \A w \in Value : <<d, n, w>> \notin accepted
  /\ acceptor_vars[d].highest_proposed_n > n

SafeAt(n, v) ==
  \A m \in 0..(n - 1) : \E Q \in Majority : \A d \in Q :
    <<d, m, v>> \in accepted \/ WontAccept(d, m)

Chosen(n, v) == \E Q \in Majority : \A d \in Q : <<d, n, v>> \in accepted
-----------------------------------------------------------------------------
\* Numbers are given out once.
Numbers ==
  /\ \A c \in Core : Number(c) < proposal_number_global
  /\ \A c, d \in Core : c # d /\ Number(c) # -1 => Number(c) # Number(d)
  /\ \A p \in promised : p[2] < proposal_number_global

\* Requests carry the number of their proposer, and ask for acceptance only
\* once, of cores that have not accepted yet.
Requests ==
  \A c, d \in Core : \A s \in Range(mail[d][c]) :
    /\ s.sig = "PREPARE_REQUEST" => s.n = Number(c)
    /\ s.sig = "ACCEPT_REQUEST" =>
         /\ s.n = Number(c) /\ PREPARE_ACCEPT_SENT[c]
         /\ \A v \in Value : <<d, Number(c), v>> \notin accepted
         /\ Once(mail[d][c], {"ACCEPT_REQUEST"})

\* Replies belong to the proposal of the core that gets them, and each core
\* has at most one of a kind under way.
Replies ==
  \A c, d \in Core :
    /\ Has(c, d, PromiseReply) =>
         <<d, Number(c)>> \in promised /\ Once(mail[c][d], PromiseReply)
    /\ \A s \in Range(mail[c][d]) : s.sig = "ACCEPTED" =>
         <<d, Number(c), s.value>> \in accepted /\ Once(mail[c][d], {"ACCEPTED"})

Counters ==
  \A c \in Core :
    /\ proposer_vars[c].cores_promised <= Cardinality(PromisedTo(c))
    /\ proposer_vars[c].cores_accepted <= Cardinality(AcceptedFor(c))

\* An acceptor keeps to its promises and knows the last value it accepted.
Acceptors ==
  /\ \A p \in promised : acceptor_vars[p[1]].highest_proposed_n >= p[2]
  /\ \A d \in Core :
       LET a == acceptor_vars[d]
       IN  /\ a.highest_acc_n <= a.highest_proposed_n
           /\ a.highest_acc_value = NoValue <=> a.highest_acc_n = -1
           /\ a.highest_acc_n # -1 =>
                <<d, a.highest_acc_n, a.highest_acc_value>> \in accepted
           /\ \A n \in Nat, v \in Value :
                <<d, n, v>> \in accepted => n <= a.highest_acc_n

\* What a promise tells of the values accepted at lower numbers.
Reports ==
  \A c, d \in Core : \A s \in Range(mail[c][d]) :
    /\ s.sig = "PREPARE_ACCEPT" =>
         /\ s.n < Number(c) /\ <<d, s.n, s.value>> \in accepted
         /\ \A n \in Nat, v \in Value :
              <<d, n, v>> \in accepted /\ n < Number(c) => n <= s.n
    /\ s.sig = "PREPARE_ACCEPT_NO_PREVIOUS" =>
         \A n \in Nat, v \in Value :
           <<d, n, v>> \in accepted => n >= Number(c)

\* What a proposer knows of them until it asks for acceptance.
Proposers ==
  \A c \in Core : ~ PREPARE_ACCEPT_SENT[c] =>
    LET k == proposer_vars[c].highest_replied_n
        v == proposer_vars[c].highest_replied_value
    IN  /\ IF k = -1 THEN v = NoValue
           ELSE k < Number(c) /\ \E d \in Core : <<d, k, v>> \in accepted
        /\ running[c] => \A d \in PromisedTo(c), n \in Nat, w \in Value :
             <<d, n, w>> \in accepted /\ n < Number(c) => n <= k

\* Each number has a proposer that asked for acceptance, with one value that
\* is safe there.
Offers ==
  \A n \in Nat, v \in Value : Offered(n, v) =>
    /\ \E c \in Core : PREPARE_ACCEPT_SENT[c] /\ Number(c) = n
    /\ \A w \in Value : Offered(n, w) => v = w
    /\ SafeAt(n, v)

\* Who asks for acceptance has a majority of promises, who announces a value
\* one of acceptances.
Sent ==
  \A c \in Core :
    /\ PREPARE_ACCEPT_SENT[c] =>
         {d \in Core : <<d, Number(c)>> \in promised} \in Majority
    /\ ~ SIG_LEARN_SENT[c] => announced[c] = NoValue
    /\ announced[c] # NoValue =>
         announced[c] \in Value /\ Chosen(Number(c), announced[c])

IInv ==
  /\ TInv /\ Numbers /\ Requests /\ Replies /\ Counters /\ Acceptors
  /\ Reports /\ Proposers /\ Offers /\ Sent
-----------------------------------------------------------------------------
(* What the invariant's parts rest on.                                     *)

\* Sets of cores are finite, so that a larger one counts more, one core more
\* counts one more, and two majorities meet.
LEMMA CoreSets ==
  ASSUME NEW A \in SUBSET Core, NEW B \in SUBSET Core
  PROVE  /\ Cardinality(A) \in Nat
         /\ A \subseteq B => Cardinality(A) <= Cardinality(B)
         /\ A \subseteq B => \A x \in B \ A : Cardinality(A) + 1 <= Cardinality(B)
         /\ A \in Majority /\ B \in Majority => A \cap B # {}
<1>1. IsFiniteSet(Core) /\ IsFiniteSet(A) /\ IsFiniteSet(B)
  BY ClusterAssumption, FS_Subset
<1>2. Cardinality(A) \in Nat /\ Cardinality(B) \in Nat /\ Cardinality(Core) \in Nat
  BY <1>1, FS_CardinalityType
<1>3. A \subseteq B => Cardinality(A) <= Cardinality(B)
  BY <1>1, FS_Subset
<1>4. ASSUME A \subseteq B, NEW x \in B \ A
      PROVE  Cardinality(A) + 1 <= Cardinality(B)
  <2>1. Cardinality(A \cup {x}) = Cardinality(A) + 1 /\ A \cup {x} \subseteq B
    BY <1>1, <1>4, FS_AddElement
  <2> QED
    BY <1>1, <2>1, FS_Subset
<1>5. ASSUME A \in Majority, B \in Majority
      PROVE  A \cap B # {}
  <2>1. Cardinality(A) + Cardinality(B) > Cardinality(Core)
    BY <1>2, <1>5, ClusterAssumption DEF Majority, Quorum, majority
  <2> QED
    BY <1>1, <2>1, FS_MajoritiesIntersect
<1> QED
  BY <1>2, <1>3, <1>4, <1>5

\* A majority is not empty, and a larger set is one too.
LEMMA Majorities ==
  /\ {} \notin Majority
  /\ \A A, B \in SUBSET Core : A \in Majority /\ A \subseteq B => B \in Majority
<1>1. Cardinality({}) = 0
  BY FS_EmptySet
<1>2. {} \notin Majority
  BY <1>1, ClusterAssumption DEF Majority, Quorum, majority
<1>3. \A A, B \in SUBSET Core : A \in Majority /\ A \subseteq B => B \in Majority
  BY CoreSets, ClusterAssumption DEF Majority, Quorum, majority
<1> QED
  BY <1>2, <1>3

\* The mailboxes of b hold what those of a held, but for the first signal of p
\* to c.
Stay(a, b, c, p) ==
  \A t, u \in Core :
    Range(a[t][u]) \subseteq
      Range(b[t][u]) \cup (IF t = c /\ u = p THEN {Head(a[c][p])} ELSE {})

LEMMA TakenStay ==
  ASSUME TInv, NEW c \in Core, NEW p \in Core, mail[c][p] # <<>>
  PROVE  Stay(mail, Taken(c, p), c, p)
<1> DEFINE q == mail[c][p]
<1>1. q \in Seq(Signal) /\ q # <<>> /\ \A t \in Core : mail[t] \in [Core -> Seq(Signal)]
  BY DEF TInv, TypeOK
<1>2. Range(q) \subseteq Range(Tail(q)) \cup {Head(q)}
  <2> HIDE DEF q
  <2> SUFFICES ASSUME NEW i \in DOMAIN q, i # 1
               PROVE  \E j \in DOMAIN Tail(q) : q[i] = Tail(q)[j]
    BY <1>1 DEF Range
  <2>1. i - 1 \in DOMAIN Tail(q) /\ Tail(q)[i - 1] = q[i]
    BY <1>1
  <2> QED
    BY <2>1
<1>3. \A t, u \in Core : Taken(c, p)[t][u] =
        IF t = c /\ u = p THEN Tail(q) ELSE mail[t][u]
  BY <1>1 DEF Taken, TInv, TypeOK
<1> QED
  BY <1>2, <1>3 DEF Stay

LEMMA SendStay ==
  ASSUME NEW box \in [Core -> [Core -> Seq(Signal)]], NEW s \in Signal,
         NEW c \in Core, NEW p \in Core, NEW t \in Core, NEW u \in Core
  PROVE  /\ Range(box[t][u]) \subseteq Range(Send(box, c, p, s)[t][u])
         /\ Range(box[t][u]) \subseteq Range(SendAll(box, c, s)[t][u])
         /\ running[p] => s \in Range(Send(box, c, p, s)[p][c])
<1>1. \A x, y \in Core : /\ box[x] \in [Core -> Seq(Signal)]
                         /\ box[x][y] \in Seq(Signal)
  OBVIOUS
<1>2. \A x, y \in Core :
        Range(Append(box[x][y], s)) = Range(box[x][y]) \cup {s}
  BY <1>1, AppendFacts
<1> HIDE DEF Signal
<1>3. /\ Send(box, c, p, s)[t][u] = box[t][u] \/
         Send(box, c, p, s)[t][u] = Append(box[t][u], s)
      /\ running[p] => Send(box, c, p, s)[p][c] = Append(box[p][c], s)
  BY <1>1 DEF Send
<1>4. SendAll(box, c, s)[t][u] = box[t][u] \/
      SendAll(box, c, s)[t][u] = Append(box[t][u], s)
  BY <1>1 DEF SendAll
<1> QED
  BY ZenonT(30), <1>2, <1>3, <1>4

\* Only a process that exits loses signals.
LEMMA HandlersStay ==
  ASSUME TInv, NEW c \in Core, NEW p \in Core, Handler(c, p)
  PROVE  /\ Learn(c, p) \/ (Stay(mail, mail', c, p) /\ running' = running)
         /\ PrepareRequest(c, p) /\ running[p] =>
              Reply(c) \in Range(mail'[p][c])
<1> DEFINE box == Taken(c, p)
           value == Head(mail[c][p]).value
<1>1. CASE Learn(c, p)
  <2>1. Head(mail[c][p]).sig = "LEARN"
    BY <1>1 DEF Learn, Receives
  <2>2. ~ PrepareRequest(c, p)
    BY <2>1 DEF PrepareRequest, Receives
  <2> QED
    BY <1>1, <2>2
<1>2. CASE ~ Learn(c, p)
  <2>1. mail[c][p] # <<>> /\ running' = running
    BY <1>2 DEF Handler, PrepareRequestOld, PrepareRequest,
      PrepareAcceptNoPrevious, PrepareAccept, AcceptRequest, Accepted, Receives
  <2>2. Stay(mail, box, c, p) /\ box \in [Core -> [Core -> Seq(Signal)]]
    BY <2>1, TakenStay, TakenFollows DEF Follows, TInv, TypeOK
  <2>3. ASSUME \/ mail' = box
               \/ \E s \in Signal :
                    mail' = Send(box, c, p, s) \/ mail' = SendAll(box, c, s)
        PROVE  Stay(mail, mail', c, p)
    <3> HIDE DEF Signal, Send, SendAll, box
    <3>1. \A t, u \in Core : Range(box[t][u]) \subseteq Range(mail'[t][u])
      BY <2>2, <2>3, SendStay
    <3> QED
      BY <2>2, <3>1 DEF Stay
  <2>4. CASE PrepareRequestOld(c, p)
    BY <2>1, <2>3, <2>4 DEF PrepareRequestOld, PrepareRequest
  <2>5. CASE PrepareRequest(c, p)
    <3>1. Reply(c) \in Signal /\ mail' = Send(box, c, p, Reply(c))
      BY <2>5, PrepareRequestTypes DEF PrepareRequest, Reply
    <3> QED
      BY <2>1, <2>2, <2>3, <3>1, SendStay
  <2>6. CASE PrepareAcceptNoPrevious(c, p) \/ PrepareAccept(c, p)
    <3>1. PICK v \in Value : \E mine \in ProposerVars : Promised(c, p, mine, v)
      <4>1. CASE PrepareAcceptNoPrevious(c, p)
        BY <4>1, NoPreviousParts
      <4>2. CASE PrepareAccept(c, p)
        BY <4>2, PrepareAcceptParts
      <4> QED
        BY <2>6, <4>1, <4>2
    <3>2. Head(mail[c][p]).sig \in PromiseReply
      BY <2>6, NoPreviousParts, PrepareAcceptParts DEF PromiseReply
    <3>3. Number(c) \in Nat
      BY <2>1, <3>2, HeadFacts DEF TInv, Valued, Has
    <3>4. Ask(c, v) \in Signal
      BY <3>3 DEF Ask, Signal
    <3>5. mail' = SendAll(box, c, Ask(c, v)) \/ mail' = box
      BY <3>1 DEF Promised, Ask, Number
    <3>6. ~ PrepareRequest(c, p)
      BY <3>2 DEF PrepareRequest, Receives, PromiseReply
    <3> QED
      BY <2>1, <2>3, <3>4, <3>5, <3>6
  <2>7. CASE AcceptRequest(c, p)
    <3>1. value \in Value /\ Head(mail[c][p]).sig = "ACCEPT_REQUEST"
      BY <2>7, AcceptRequestEffect
    <3>2. Answer(value) \in Signal
      BY <3>1 DEF Answer, Signal
    <3>3. mail' = Send(box, c, p, Answer(value)) \/ mail' = box
      BY <2>7 DEF AcceptRequest, Answer
    <3>4. ~ PrepareRequest(c, p)
      BY <3>1 DEF PrepareRequest, Receives
    <3> QED
      BY <2>1, <2>3, <3>2, <3>3, <3>4
  <2>8. CASE Accepted(c, p)
    <3>1. value \in Value /\ Head(mail[c][p]).sig = "ACCEPTED"
      BY <2>8, AcceptedEffect
    <3>2. [sig |-> "LEARN", value |-> value] \in Signal
      BY <3>1 DEF Signal
    <3>3. \/ mail' = SendAll(box, c, [sig |-> "LEARN", value |-> value])
          \/ mail' = box
      BY <2>8 DEF Accepted
    <3>4. ~ PrepareRequest(c, p)
      BY <3>1 DEF PrepareRequest, Receives
    <3> QED
      BY <2>1, <2>3, <3>2, <3>3, <3>4
  <2> QED
    BY <1>2, <2>4, <2>5, <2>6, <2>7, <2>8 DEF Handler
<1> QED
  BY <1>1, <1>2
-----------------------------------------------------------------------------
(* Steps keep a part of the invariant that they have nothing to do with.   *)

LEMMA RequestsKept ==
  ASSUME Requests, NEW c \in Core, NEW T, NEW S, Follows(mail, mail', c, T, S),
         \A d \in Core : Number(d)' = Number(d)
                         /\ (PREPARE_ACCEPT_SENT[d] => PREPARE_ACCEPT_SENT'[d]),
         accepted' = accepted,
         \A s \in S : s.sig \notin {"PREPARE_REQUEST", "ACCEPT_REQUEST"}
  PROVE  Requests'
<1> SUFFICES ASSUME NEW t \in Core, NEW u \in Core, NEW s \in Range(mail'[t][u])
             PROVE  /\ s.sig = "PREPARE_REQUEST" => s.n = Number(u)'
                    /\ s.sig = "ACCEPT_REQUEST" =>
                         /\ s.n = Number(u)' /\ PREPARE_ACCEPT_SENT'[u]
                         /\ \A v \in Value : <<t, Number(u)', v>> \notin accepted'
                         /\ Once(mail'[t][u], {"ACCEPT_REQUEST"})
  BY DEF Requests
<1>1. s \in Range(mail[t][u]) \/ s \in S
  BY DEF Follows
<1>2. {"ACCEPT_REQUEST"} \in Kind
  BY DEF Kind
<1> HIDE DEF Kind, Number
<1>3. CASE s.sig = "ACCEPT_REQUEST"
  <2>1. s \in Range(mail[t][u])
    BY <1>1, <1>3
  <2>2. Once(mail[t][u], {"ACCEPT_REQUEST"})
    BY <1>3, <2>1 DEF Requests
  <2>3. Once(mail'[t][u], {"ACCEPT_REQUEST"})
    BY <1>2, <2>2 DEF Follows
  <2> QED
    BY <1>3, <2>1, <2>3 DEF Requests
<1>4. CASE s.sig = "PREPARE_REQUEST"
  BY <1>1, <1>4 DEF Requests
<1> QED
  BY <1>3, <1>4

LEMMA RepliesKept ==
  ASSUME Replies, NEW c \in Core, NEW T, NEW S, Follows(mail, mail', c, T, S),
         \A d \in Core : Number(d)' = Number(d),
         promised \subseteq promised', accepted \subseteq accepted',
         \A s \in S : s.sig \notin PromiseReply /\ s.sig # "ACCEPTED"
  PROVE  Replies'
<1>1. {"ACCEPTED"} \in Kind /\ PromiseReply \in Kind
  BY DEF Kind
<1> HIDE DEF Kind, Number, PromiseReply
<1> SUFFICES ASSUME NEW t \in Core, NEW u \in Core, NEW s \in Range(mail'[t][u])
             PROVE  /\ s.sig \in PromiseReply =>
                         <<u, Number(t)'>> \in promised' /\ Once(mail'[t][u], PromiseReply)
                    /\ s.sig = "ACCEPTED" =>
                         /\ <<u, Number(t)', s.value>> \in accepted'
                         /\ Once(mail'[t][u], {"ACCEPTED"})
  BY DEF Replies, Has, PromiseReply
<1>2. s \in Range(mail[t][u]) \/ s \in S
  BY DEF Follows
<1>3. CASE s.sig \in PromiseReply
  <2>1. Has(t, u, PromiseReply)
    BY <1>2, <1>3 DEF Has
  <2>2. Once(mail[t][u], PromiseReply) /\ <<u, Number(t)>> \in promised
    BY <2>1 DEF Replies
  <2>3. Once(mail'[t][u], PromiseReply)
    BY <1>1, <2>2 DEF Follows
  <2> QED
    BY <1>3, <2>2, <2>3 DEF PromiseReply
<1>4. CASE s.sig = "ACCEPTED"
  <2>1. s \in Range(mail[t][u])
    BY <1>2, <1>4
  <2>2. Once(mail[t][u], {"ACCEPTED"}) /\ <<u, Number(t), s.value>> \in accepted
    BY <1>4, <2>1 DEF Replies
  <2>3. Once(mail'[t][u], {"ACCEPTED"})
    BY <1>1, <2>2 DEF Follows
  <2> QED
    BY <1>4, <2>2, <2>3 DEF PromiseReply
<1> QED
  BY <1>3, <1>4

\* What is counted only grows, as long as nothing new of the kind is sent by
\* one that is counted.
LEMMA CountedKept ==
  ASSUME NEW c \in Core, NEW T, NEW S, Follows(mail, mail', c, T, S),
         NEW t \in Core, Number(t)' = Number(t),
         promised \subseteq promised', accepted \subseteq accepted'
  PROVE  /\ (\A s \in S : s.sig \notin PromiseReply) \/ t \notin T
            \/ c \notin PromisedTo(t)
              => PromisedTo(t) \subseteq PromisedTo(t)'
         /\ (\A s \in S : s.sig # "ACCEPTED") \/ t \notin T
            \/ c \notin AcceptedFor(t)
              => AcceptedFor(t) \subseteq AcceptedFor(t)'
<1>1. ASSUME NEW d \in Core, NEW s \in Range(mail'[t][d])
      PROVE  s \in Range(mail[t][d]) \/ (s \in S /\ d = c /\ t \in T)
  BY DEF Follows
<1> HIDE DEF Number
<1>2. ASSUME (\A s \in S : s.sig \notin PromiseReply) \/ t \notin T
               \/ c \notin PromisedTo(t),
             NEW d \in PromisedTo(t)
      PROVE  d \in PromisedTo(t)'
  BY <1>1, <1>2 DEF PromisedTo, Has, PromiseReply
<1>3. ASSUME (\A s \in S : s.sig # "ACCEPTED") \/ t \notin T
               \/ c \notin AcceptedFor(t),
             NEW d \in AcceptedFor(t)
      PROVE  d \in AcceptedFor(t)'
  BY <1>1, <1>3 DEF AcceptedFor, Has
<1> QED
  BY <1>2, <1>3

LEMMA CountersKept ==
  ASSUME Counters, TInv, TInv',
         \A t \in Core :
           /\ PromisedTo(t) \subseteq PromisedTo(t)'
           /\ AcceptedFor(t) \subseteq AcceptedFor(t)'
           /\ \/ proposer_vars'[t].cores_promised = proposer_vars[t].cores_promised
              \/ /\ proposer_vars'[t].cores_promised
                      = proposer_vars[t].cores_promised + 1
                 /\ PromisedTo(t)' \ PromisedTo(t) # {}
           /\ \/ proposer_vars'[t].cores_accepted = proposer_vars[t].cores_accepted
              \/ /\ proposer_vars'[t].cores_accepted
                      = proposer_vars[t].cores_accepted + 1
                 /\ AcceptedFor(t)' \ AcceptedFor(t) # {}
  PROVE  Counters'
<1> SUFFICES ASSUME NEW t \in Core
             PROVE  /\ proposer_vars'[t].cores_promised <= Cardinality(PromisedTo(t)')
                    /\ proposer_vars'[t].cores_accepted <= Cardinality(AcceptedFor(t)')
  BY DEF Counters
<1> DEFINE P == PromisedTo(t)
           Q == PromisedTo(t)'
           A == AcceptedFor(t)
           B == AcceptedFor(t)'
<1>1. /\ P \in SUBSET Core /\ Q \in SUBSET Core
      /\ A \in SUBSET Core /\ B \in SUBSET Core
  BY DEF PromisedTo, AcceptedFor
<1>2. /\ proposer_vars[t].cores_promised \in Nat
      /\ proposer_vars[t].cores_accepted \in Nat
  BY DEF TInv, TypeOK
<1>3. /\ proposer_vars[t].cores_promised <= Cardinality(P)
      /\ proposer_vars[t].cores_accepted <= Cardinality(A)
  BY DEF Counters
<1>4. P \subseteq Q /\ A \subseteq B
  OBVIOUS
<1> HIDE DEF P, Q, A, B
<1>5. /\ Cardinality(P) \in Nat /\ Cardinality(Q) \in Nat
      /\ Cardinality(P) <= Cardinality(Q)
      /\ Q \ P # {} => Cardinality(P) + 1 <= Cardinality(Q)
  BY <1>1, <1>4, CoreSets
<1>6. /\ Cardinality(A) \in Nat /\ Cardinality(B) \in Nat
      /\ Cardinality(A) <= Cardinality(B)
      /\ B \ A # {} => Cardinality(A) + 1 <= Cardinality(B)
  BY <1>1, <1>4, CoreSets
<1>7. /\ \/ proposer_vars'[t].cores_promised = proposer_vars[t].cores_promised
         \/ /\ proposer_vars'[t].cores_promised
                 = proposer_vars[t].cores_promised + 1
            /\ Q \ P # {}
      /\ \/ proposer_vars'[t].cores_accepted = proposer_vars[t].cores_accepted
         \/ /\ proposer_vars'[t].cores_accepted
                 = proposer_vars[t].cores_accepted + 1
            /\ B \ A # {}
  BY DEF P, Q, A, B
<1>8. proposer_vars'[t].cores_promised <= Cardinality(Q)
  BY <1>2, <1>3, <1>5, <1>7
<1>9. proposer_vars'[t].cores_accepted <= Cardinality(B)
  BY <1>2, <1>3, <1>6, <1>7
<1> QED
  BY <1>8, <1>9 DEF Q, B

LEMMA ReportsKept ==
  ASSUME Reports, NEW c \in Core, NEW T, NEW S, Follows(mail, mail', c, T, S),
         \A d \in Core : Number(d)' = Number(d),
         accepted' = accepted, \A s \in S : s.sig \notin PromiseReply
  PROVE  Reports'
<1> HIDE DEF Number
<1> SUFFICES ASSUME NEW t \in Core, NEW u \in Core, NEW s \in Range(mail'[t][u])
             PROVE  /\ s.sig = "PREPARE_ACCEPT" =>
                         /\ s.n < Number(t)' /\ <<u, s.n, s.value>> \in accepted'
                         /\ \A n \in Nat, v \in Value :
                              <<u, n, v>> \in accepted' /\ n < Number(t)' => n <= s.n
                    /\ s.sig = "PREPARE_ACCEPT_NO_PREVIOUS" =>
                         \A n \in Nat, v \in Value :
                           <<u, n, v>> \in accepted' => n >= Number(t)'
  BY DEF Reports
<1>1. s \in Range(mail[t][u]) \/ s \in S
  BY DEF Follows
<1> QED
  BY <1>1 DEF Reports, PromiseReply

LEMMA OfferedKept ==
  ASSUME NEW c \in Core, NEW T, NEW S, Follows(mail, mail', c, T, S),
         accepted' = accepted, \A s \in S : s.sig # "ACCEPT_REQUEST",
         NEW n, NEW v, Offered(n, v)'
  PROVE  Offered(n, v)
<1> DEFINE s == [sig |-> "ACCEPT_REQUEST", n |-> n, value |-> v]
<1>1. s.sig = "ACCEPT_REQUEST"
  OBVIOUS
<1> HIDE DEF s
<1>2. \A t, u \in Core : s \in Range(mail'[t][u]) => s \in Range(mail[t][u])
  BY <1>1 DEF Follows
<1> QED
  BY <1>2 DEF Offered, s

\* A safe value stays safe, as acceptors keep to what they promised.
LEMMA SafeKept ==
  ASSUME TInv, NEW n \in Nat, NEW v, SafeAt(n, v), accepted \subseteq accepted',
         \A d \in Core : acceptor_vars'[d].highest_proposed_n
                           >= acceptor_vars[d].highest_proposed_n
                         /\ acceptor_vars'[d].highest_proposed_n \in Nat \cup {-1},
         \A d \in Core, m \in Nat, w \in Value :
           <<d, m, w>> \in accepted' =>
             <<d, m, w>> \in accepted \/ m >= acceptor_vars[d].highest_proposed_n
  PROVE  SafeAt(n, v)'
<1> SUFFICES ASSUME NEW m \in 0..(n - 1)
             PROVE  \E Q \in Majority : \A d \in Q :
                      <<d, m, v>> \in accepted' \/ WontAccept(d, m)'
  BY DEF SafeAt, Majority
<1>1. PICK Q \in Majority : \A d \in Q :
        <<d, m, v>> \in accepted \/ WontAccept(d, m)
  BY DEF SafeAt
<1>2. ASSUME NEW d \in Q PROVE <<d, m, v>> \in accepted' \/ WontAccept(d, m)'
  <2>1. d \in Core /\ m \in Nat /\ acceptor_vars[d].highest_proposed_n \in Nat \cup {-1}
    BY DEF Majority, TInv, TypeOK
  <2>2. CASE <<d, m, v>> \in accepted
    BY <2>2
  <2>3. CASE WontAccept(d, m)
    BY <2>1, <2>3 DEF WontAccept
  <2> QED
    BY <1>1, <2>2, <2>3
<1> QED
  BY <1>2

LEMMA ChosenKept ==
  ASSUME NEW n, NEW v, Chosen(n, v), accepted \subseteq accepted'
  PROVE  Chosen(n, v)'
BY DEF Chosen, Majority

LEMMA OffersKept ==
  ASSUME TInv, Offers, accepted \subseteq accepted',
         \A n \in Nat, v \in Value : Offered(n, v)' => Offered(n, v),
         \A d \in Core : PREPARE_ACCEPT_SENT[d] /\ Number(d) \in Nat =>
           PREPARE_ACCEPT_SENT'[d] /\ Number(d)' = Number(d),
         \A d \in Core : acceptor_vars'[d].highest_proposed_n
                           >= acceptor_vars[d].highest_proposed_n
                         /\ acceptor_vars'[d].highest_proposed_n \in Nat \cup {-1},
         \A d \in Core, m \in Nat, w \in Value :
           <<d, m, w>> \in accepted' =>
             <<d, m, w>> \in accepted \/ m >= acceptor_vars[d].highest_proposed_n
  PROVE  Offers'
<1> HIDE DEF Number
<1> SUFFICES ASSUME NEW n \in Nat, NEW v \in Value, Offered(n, v)'
             PROVE  /\ \E c \in Core : PREPARE_ACCEPT_SENT'[c] /\ Number(c)' = n
                    /\ \A w \in Value : Offered(n, w)' => v = w
                    /\ SafeAt(n, v)'
  BY DEF Offers
<1>1. /\ \E c \in Core : PREPARE_ACCEPT_SENT[c] /\ Number(c) = n
      /\ \A w \in Value : Offered(n, w) => v = w
      /\ SafeAt(n, v)
  BY DEF Offers
<1>2. SafeAt(n, v)'
  BY <1>1, SafeKept
<1> QED
  BY <1>1, <1>2

LEMMA SentKept ==
  ASSUME Sent, promised \subseteq promised', accepted \subseteq accepted',
         \A d \in Core :
           /\ Number(d)' = Number(d)
           /\ SIG_LEARN_SENT'[d] = SIG_LEARN_SENT[d]
           /\ announced'[d] = announced[d]
           /\ \/ PREPARE_ACCEPT_SENT'[d] = PREPARE_ACCEPT_SENT[d]
              \/ {e \in Core : <<e, Number(d)>> \in promised} \in Majority
  PROVE  Sent'
<1> HIDE DEF Number
<1> SUFFICES ASSUME NEW c \in Core
             PROVE  /\ PREPARE_ACCEPT_SENT'[c] =>
                         {d \in Core : <<d, Number(c)'>> \in promised'} \in Majority
                    /\ ~ SIG_LEARN_SENT'[c] => announced'[c] = NoValue
                    /\ announced'[c] # NoValue =>
                         /\ announced'[c] \in Value
                         /\ Chosen(Number(c), announced[c])'
  <2>1. Majority' = Majority
    BY DEF Majority, Quorum, majority
  <2> QED
    BY <2>1 DEF Sent
<1>1. PREPARE_ACCEPT_SENT'[c] =>
        {d \in Core : <<d, Number(c)>> \in promised} \in Majority
  BY DEF Sent
<1>2. /\ {d \in Core : <<d, Number(c)>> \in promised} \subseteq
           {d \in Core : <<d, Number(c)>> \in promised'}
      /\ {d \in Core : <<d, Number(c)>> \in promised} \in SUBSET Core
      /\ {d \in Core : <<d, Number(c)>> \in promised'} \in SUBSET Core
  OBVIOUS
<1>3. PREPARE_ACCEPT_SENT'[c] =>
        {d \in Core : <<d, Number(c)>> \in promised'} \in Majority
  BY <1>1, <1>2, Majorities
<1>4. announced[c] # NoValue => Chosen(Number(c), announced[c])'
  BY DEF Sent, Chosen, Majority
<1> QED
  BY <1>3, <1>4 DEF Sent

LEMMA NumbersKept ==
  ASSUME Numbers, \A d \in Core : Number(d)' = Number(d),
         proposal_number_global' = proposal_number_global, promised' = promised
  PROVE  Numbers'
BY DEF Numbers

LEMMA AcceptorsKept ==
  ASSUME Acceptors, UNCHANGED <<acceptor_vars, promised, accepted>>
  PROVE  Acceptors'
BY DEF Acceptors

\* Proposers is a statement about each core.
Knows(c, k, v, Q) ==
  /\ IF k = -1 THEN v = NoValue
     ELSE k < Number(c) /\ \E d \in Core : <<d, k, v>> \in accepted
  /\ running[c] => \A d \in Q, n \in Nat, w \in Value :
       <<d, n, w>> \in accepted /\ n < Number(c) => n <= k
Informed(c) ==
  ~ PREPARE_ACCEPT_SENT[c] =>
    Knows(c, proposer_vars[c].highest_replied_n,
          proposer_vars[c].highest_replied_value, PromisedTo(c))

LEMMA ProposersParts == Proposers <=> \A c \in Core : Informed(c)
BY DEF Proposers, Informed, Knows

LEMMA InformedKept ==
  ASSUME TInv, Acceptors, NEW t \in Core, Informed(t), Number(t)' = Number(t),
         PREPARE_ACCEPT_SENT'[t] = PREPARE_ACCEPT_SENT[t],
         proposer_vars'[t].highest_replied_n = proposer_vars[t].highest_replied_n,
         proposer_vars'[t].highest_replied_value
           = proposer_vars[t].highest_replied_value,
         running'[t] => running[t] /\ PromisedTo(t)' \subseteq PromisedTo(t),
         accepted \subseteq accepted',
         \A d \in Core, m \in Nat, w \in Value :
           <<d, m, w>> \in accepted' =>
             <<d, m, w>> \in accepted \/ m >= acceptor_vars[d].highest_proposed_n
  PROVE  Informed(t)'
<1>1. Number(t) \in Nat \cup {-1}
  BY DEF TInv, TypeOK, Number
<1> HIDE DEF Number
<1> DEFINE k == proposer_vars[t].highest_replied_n
           v == proposer_vars[t].highest_replied_value
<1> SUFFICES ASSUME ~ PREPARE_ACCEPT_SENT[t]
             PROVE  /\ IF k = -1 THEN v = NoValue
                       ELSE k < Number(t) /\ \E d \in Core : <<d, k, v>> \in accepted'
                    /\ running'[t] => \A d \in PromisedTo(t)', n \in Nat, w \in Value :
                         <<d, n, w>> \in accepted' /\ n < Number(t) => n <= k
  BY DEF Informed, Knows
<1>2. Knows(t, k, v, PromisedTo(t))
  BY DEF Informed
<1>3. ASSUME running'[t], NEW d \in PromisedTo(t)', NEW n \in Nat, NEW w \in Value,
             <<d, n, w>> \in accepted', n < Number(t)
      PROVE  n <= k
  <2>1. running[t] /\ d \in PromisedTo(t)
    BY <1>3
  <2>2. d \in Core /\ <<d, Number(t)>> \in promised
    BY <2>1 DEF PromisedTo
  <2>3. acceptor_vars[d].highest_proposed_n >= Number(t)
    BY <2>2 DEF Acceptors
  <2>4. acceptor_vars[d].highest_proposed_n \in Nat \cup {-1}
    BY <2>2 DEF TInv, TypeOK
  <2>5. <<d, n, w>> \in accepted
    BY <1>1, <1>3, <2>2, <2>3, <2>4
  <2> QED
    BY <1>2, <1>3, <2>1, <2>5 DEF Knows
<1> HIDE DEF k, v
<1>4. IF k = -1 THEN v = NoValue
      ELSE k < Number(t) /\ \E d \in Core : <<d, k, v>> \in accepted'
  BY <1>2 DEF Knows
<1> QED
  BY <1>3, <1>4

\* No core is taken for one whose promise was handled before it was.
LEMMA PromisedToSame ==
  ASSUME NEW t \in Core, NEW c \in Core, NEW p \in Core,
         Stay(mail, mail', c, p), Number(t)' = Number(t),
         \A d \in Core : <<d, Number(t)>> \in promised' =>
           <<d, Number(t)>> \in promised \/ Has(t, d, PromiseReply)'
  PROVE  /\ t # c \/ Head(mail[c][p]).sig \notin PromiseReply =>
              PromisedTo(t)' \subseteq PromisedTo(t)
         /\ PromisedTo(t)' \subseteq PromisedTo(t) \cup {p}
<1> HIDE DEF Number, PromiseReply
<1>1. ASSUME NEW d \in PromisedTo(t)', d \notin PromisedTo(t)
      PROVE  t = c /\ d = p /\ Head(mail[c][p]).sig \in PromiseReply
  <2>1. <<d, Number(t)>> \in promised /\ ~ Has(t, d, PromiseReply)' /\ d \in Core
    BY DEF PromisedTo, PromiseReply
  <2>2. Has(t, d, PromiseReply)
    BY <1>1, <2>1 DEF PromisedTo
  <2>3. PICK s \in Range(mail[t][d]) : s.sig \in PromiseReply
    BY <2>2 DEF Has
  <2>4. s \notin Range(mail'[t][d])
    BY <2>1, <2>3 DEF Has, PromiseReply
  <2> QED
    BY <2>1, <2>3, <2>4 DEF Stay
<1> QED
  BY <1>1
-----------------------------------------------------------------------------
(* The steps.                                                              *)

\* Facts about the state that many steps use.
LEMMA StateFacts ==
  ASSUME TInv
  PROVE  /\ proposal_number_global \in Nat
         /\ \A c \in Core : Number(c) \in Nat \cup {-1}
         /\ \A p \in promised : p \in Core \X Nat
         /\ \A a \in accepted : a \in Core \X Nat \X Value
         /\ \A d \in Core :
              /\ acceptor_vars[d].highest_proposed_n \in Nat \cup {-1}
              /\ acceptor_vars[d].highest_acc_n \in Nat \cup {-1}
              /\ proposer_vars[d].highest_replied_n \in Nat \cup {-1}
              /\ proposer_vars[d].cores_promised \in Nat
              /\ proposer_vars[d].cores_accepted \in Nat
         /\ \A t, u \in Core : Range(mail[t][u]) \subseteq Signal
<1>1. \A t, u \in Core : mail[t][u] \in Seq(Signal)
  BY DEF TInv, TypeOK
<1>2. \A t, u \in Core : Range(mail[t][u]) \subseteq Signal
  <2> HIDE DEF Signal
  <2> QED
    BY <1>1 DEF Range
<1> QED
  BY <1>2 DEF TInv, TypeOK, Number

LEMMA SignalFacts ==
  ASSUME NEW s \in Signal
  PROVE  /\ s.sig \in {"PREPARE_REQUEST", "PREPARE_ACCEPT", "ACCEPT_REQUEST"} =>
              s.n \in Nat
         /\ s.sig \in {"PREPARE_ACCEPT", "ACCEPT_REQUEST", "ACCEPTED"} =>
              s.value \in Value
BY DEF Signal

\* A queue without signals of a kind has not two of them.
LEMMA NoneOnce ==
  ASSUME NEW q, NEW K, \A r \in Range(q) : r.sig \notin K
  PROVE  Once(q, K)
BY DEF Once, Range

\* Nothing is known, sent or accepted for a core that has not proposed yet.
LEMMA Unstarted ==
  ASSUME IInv, NEW c \in Core, Number(c) = -1
  PROVE  /\ ~ PREPARE_ACCEPT_SENT[c] /\ announced[c] = NoValue
         /\ PromisedTo(c) = {} /\ AcceptedFor(c) = {}
         /\ proposer_vars[c].highest_replied_n = -1
         /\ proposer_vars[c].highest_replied_value = NoValue
         /\ \A t \in Core : \A s \in Range(mail[t][c]) :
              s.sig \notin {"PREPARE_REQUEST", "ACCEPT_REQUEST"}
         /\ \A t \in Core : \A s \in Range(mail[c][t]) :
              s.sig \notin PromiseReply \cup {"ACCEPTED"}
<1> HIDE DEF Number
<1>1. /\ \A d : <<d, Number(c)>> \notin promised
      /\ \A d, v : <<d, Number(c), v>> \notin accepted
  BY StateFacts DEF IInv
<1>2. ~ PREPARE_ACCEPT_SENT[c]
  <2>1. {d \in Core : <<d, Number(c)>> \in promised} = {}
    BY <1>1
  <2> QED
    BY <2>1, Majorities DEF IInv, Sent
<1>3. announced[c] = NoValue
  BY <1>1, Majorities DEF IInv, Sent, Chosen
<1>4. PromisedTo(c) = {} /\ AcceptedFor(c) = {}
  BY <1>1 DEF PromisedTo, AcceptedFor
<1>5. /\ proposer_vars[c].highest_replied_n = -1
      /\ proposer_vars[c].highest_replied_value = NoValue
  <2>1. proposer_vars[c].highest_replied_n \in Nat \cup {-1}
    BY StateFacts DEF IInv
  <2> QED
    BY <1>2, <2>1 DEF IInv, Proposers
<1>6. ASSUME NEW t \in Core, NEW s \in Range(mail[t][c])
      PROVE  s.sig \notin {"PREPARE_REQUEST", "ACCEPT_REQUEST"}
  <2>1. s \in Signal
    BY StateFacts DEF IInv
  <2>2. s.sig \in {"PREPARE_REQUEST", "ACCEPT_REQUEST"} =>
          s.n \in Nat /\ s.n = Number(c)
    BY <2>1, SignalFacts DEF IInv, Requests
  <2> QED
    BY <2>2
<1>7. ASSUME NEW t \in Core, NEW s \in Range(mail[c][t])
      PROVE  s.sig \notin PromiseReply \cup {"ACCEPTED"}
  BY <1>1 DEF IInv, Replies, Has
<1> QED
  BY <1>2, <1>3, <1>4, <1>5, <1>6, <1>7

\* A core starts an election, with a number of its own.
LEMMA DetectStep ==
  ASSUME IInv, NEW c \in Core, Detect(c), ~ Redetect
  PROVE  IInv'
<1> DEFINE G == proposal_number_global
<1>1. /\ Number(c) = -1 /\ Number(c)' = G /\ proposal_number_global' = G + 1
      /\ \A d \in Core : d # c => Number(d)' = Number(d)
      /\ G \in Nat
      /\ UNCHANGED <<running, acceptor_vars, proposer_vars, PREPARE_ACCEPT_SENT,
                     SIG_LEARN_SENT, announced, promised, accepted>>
  BY DEF Detect, Number, sentVars, IInv, TInv, TypeOK
<1>2. Follows(mail, mail', c, Core, {Request(c)})
  BY DetectMail DEF IInv
<1>3. \A t, u \in Core : Range(mail[t][u]) \subseteq Range(mail'[t][u])
  <2>1. mail' = SendAll(mail, c, Request(c)) /\ Request(c) \in Signal
        /\ mail \in [Core -> [Core -> Seq(Signal)]]
    BY <1>1 DEF Detect, Request, Signal, IInv, TInv, TypeOK
  <2> QED
    BY <2>1, SendStay
<1>4. TInv'
  BY DetectTypes DEF IInv
<1>5. Request(c).sig = "PREPARE_REQUEST" /\ Request(c).n = G
  BY DEF Request
<1>6. {"ACCEPT_REQUEST"} \in Kind /\ {"ACCEPTED"} \in Kind /\ PromiseReply \in Kind
      /\ "PREPARE_REQUEST" \notin PromiseReply
  BY DEF Kind, PromiseReply
<1> HIDE DEF Number, G
<1>7. Numbers'
  <2>1. \A d \in Core : Number(d) < G /\ Number(d) \in Nat \cup {-1}
    BY StateFacts DEF IInv, Numbers, G
  <2>2. \A p \in promised : p[2] < G /\ p[2] \in Nat
    BY StateFacts DEF IInv, Numbers, G
  <2> QED
    BY <1>1, <2>1, <2>2 DEF IInv, Numbers
<1>8. Requests'
  <2> SUFFICES ASSUME NEW t \in Core, NEW u \in Core, NEW s \in Range(mail'[t][u])
               PROVE  /\ s.sig = "PREPARE_REQUEST" => s.n = Number(u)'
                      /\ s.sig = "ACCEPT_REQUEST" =>
                           /\ s.n = Number(u)' /\ PREPARE_ACCEPT_SENT'[u]
                           /\ \A v \in Value : <<t, Number(u)', v>> \notin accepted'
                           /\ Once(mail'[t][u], {"ACCEPT_REQUEST"})
    BY DEF Requests
  <2>1. s \in Range(mail[t][u]) \/ (u = c /\ s = Request(c))
    BY <1>2 DEF Follows
  <2>2. CASE u = c
    BY <1>1, <1>5, <2>1, <2>2, Unstarted
  <2>3. CASE u # c
    <3>1. Once(mail[t][u], {"ACCEPT_REQUEST"}) => Once(mail'[t][u], {"ACCEPT_REQUEST"})
      BY <1>2, <1>6, <2>3 DEF Follows
    <3> QED
      BY <1>1, <2>1, <2>3, <3>1 DEF IInv, Requests
  <2> QED
    BY <2>2, <2>3
<1>9. \A t, u \in Core : \A s \in Range(mail'[t][u]) :
        s.sig \in PromiseReply \cup {"ACCEPTED"} =>
          s \in Range(mail[t][u]) /\ t # c
  <2> SUFFICES ASSUME NEW t \in Core, NEW u \in Core, NEW s \in Range(mail'[t][u]),
                      s.sig \in PromiseReply \cup {"ACCEPTED"}
               PROVE  s \in Range(mail[t][u]) /\ t # c
    OBVIOUS
  <2>1. s \in Range(mail[t][u]) \/ s = Request(c)
    BY <1>2 DEF Follows
  <2>2. s \in Range(mail[t][u])
    BY <1>5, <1>6, <2>1
  <2> QED
    BY <1>1, <2>2, Unstarted
<1>10. Replies'
  <2> SUFFICES ASSUME NEW t \in Core, NEW u \in Core, NEW s \in Range(mail'[t][u])
               PROVE  /\ s.sig \in PromiseReply =>
                           /\ <<u, Number(t)'>> \in promised'
                           /\ Once(mail'[t][u], PromiseReply)
                      /\ s.sig = "ACCEPTED" =>
                           /\ <<u, Number(t)', s.value>> \in accepted'
                           /\ Once(mail'[t][u], {"ACCEPTED"})
    BY DEF Replies, Has, PromiseReply
  <2>1. Once(mail[t][u], PromiseReply) => Once(mail'[t][u], PromiseReply)
    BY <1>2, <1>5, <1>6 DEF Follows
  <2>2. Once(mail[t][u], {"ACCEPTED"}) => Once(mail'[t][u], {"ACCEPTED"})
    BY <1>2, <1>5, <1>6 DEF Follows
  <2>3. CASE s.sig \in PromiseReply
    BY <1>1, <1>9, <2>1, <2>3 DEF IInv, Replies, Has, PromiseReply
  <2>4. CASE s.sig = "ACCEPTED"
    BY <1>1, <1>9, <2>2, <2>4 DEF IInv, Replies, PromiseReply
  <2> QED
    BY <2>3, <2>4
<1>11. Counters'
  <2>1. \A t \in Core : t # c => /\ PromisedTo(t) \subseteq PromisedTo(t)'
                                 /\ AcceptedFor(t) \subseteq AcceptedFor(t)'
    BY <1>1, <1>2, <1>5, <1>6, CountedKept
  <2>2. PromisedTo(c) = {} /\ AcceptedFor(c) = {}
    BY <1>1, Unstarted
  <2> QED
    BY <1>1, <1>4, <2>1, <2>2, CountersKept DEF IInv
<1>12. Acceptors'
  BY <1>1, AcceptorsKept DEF IInv
<1>13. Reports'
  <2> SUFFICES ASSUME NEW t \in Core, NEW u \in Core, NEW s \in Range(mail'[t][u]),
                      s.sig \in PromiseReply
               PROVE  /\ s.sig = "PREPARE_ACCEPT" =>
                         /\ s.n < Number(t)' /\ <<u, s.n, s.value>> \in accepted'
                         /\ \A n \in Nat, v \in Value :
                              <<u, n, v>> \in accepted' /\ n < Number(t)' => n <= s.n
                      /\ s.sig = "PREPARE_ACCEPT_NO_PREVIOUS" =>
                         \A n \in Nat, v \in Value :
                           <<u, n, v>> \in accepted' => n >= Number(t)'
    BY DEF Reports, PromiseReply
  <2> QED
    BY <1>1, <1>9 DEF IInv, Reports
<1>14. Proposers'
  <2>1. ASSUME NEW t \in Core, t # c PROVE Informed(t)'
    <3>1. \A d \in Core : Has(t, d, PromiseReply) => Has(t, d, PromiseReply)'
      BY <1>3 DEF Has, PromiseReply
    <3>2. PromisedTo(t)' \subseteq PromisedTo(t)
      BY <1>1, <2>1, <3>1 DEF PromisedTo
    <3> QED
      BY <1>1, <2>1, <3>2, InformedKept, ProposersParts DEF IInv
  <2>2. Informed(c)'
    <3>1. \A d \in PromisedTo(c)' : FALSE
      <4>1. \A d : <<d, G>> \notin promised
        BY StateFacts DEF IInv, Numbers, G
      <4> QED
        BY <1>1, <4>1 DEF PromisedTo
    <3>2. /\ proposer_vars'[c].highest_replied_n = -1
          /\ proposer_vars'[c].highest_replied_value = NoValue
      BY <1>1, Unstarted
    <3> QED
      BY <3>1, <3>2 DEF Informed, Knows
  <2>3. Proposers' <=> \A t \in Core : Informed(t)'
    BY DEF Proposers, Informed, Knows
  <2> QED
    BY <2>1, <2>2, <2>3
<1>15. Offers'
  <2>1. \A n \in Nat, v \in Value : Offered(n, v)' => Offered(n, v)
    BY <1>1, <1>2, <1>5, OfferedKept
  <2>2. \A d \in Core : acceptor_vars'[d].highest_proposed_n
                           >= acceptor_vars[d].highest_proposed_n
                         /\ acceptor_vars'[d].highest_proposed_n \in Nat \cup {-1}
    BY <1>1, StateFacts DEF IInv
  <2>3. \A d \in Core : PREPARE_ACCEPT_SENT[d] /\ Number(d) \in Nat =>
          PREPARE_ACCEPT_SENT'[d] /\ Number(d)' = Number(d)
    BY <1>1
  <2> QED
    BY <1>1, <2>1, <2>2, <2>3, OffersKept DEF IInv
<1>16. Sent'
  <2> SUFFICES ASSUME NEW d \in Core
               PROVE  /\ PREPARE_ACCEPT_SENT[d] =>
                           {e \in Core : <<e, Number(d)'>> \in promised} \in Majority
                      /\ ~ SIG_LEARN_SENT[d] => announced[d] = NoValue
                      /\ announced[d] # NoValue =>
                           /\ announced[d] \in Value
                           /\ Chosen(Number(d)', announced[d])
    BY <1>1 DEF Sent, Majority, Chosen
  <2> QED
    BY <1>1, Unstarted DEF IInv, Sent
<1> QED
  BY <1>4, <1>7, <1>8, <1>10, <1>11, <1>12, <1>13, <1>14, <1>15, <1>16 DEF IInv

\* A step that sends nothing and changes nothing but who runs.
LEMMA QuietStep ==
  ASSUME IInv, NEW c \in Core, NEW p \in Core, Follows(mail, mail', c, {}, {}),
         \A t \in Core : running'[t] =>
           running[t] /\ PromisedTo(t)' \subseteq PromisedTo(t),
         TInv',
         UNCHANGED <<proposalVars, acceptor_vars, proposer_vars, sentVars,
                     promised, accepted>>
  PROVE  IInv'
<1>1. /\ \A d \in Core : Number(d)' = Number(d)
      /\ UNCHANGED <<proposal_number_global, acceptor_vars, proposer_vars,
                     PREPARE_ACCEPT_SENT, SIG_LEARN_SENT, announced, promised,
                     accepted>>
  BY DEF Number, proposalVars, sentVars
<1> HIDE DEF Number
<1>2. Numbers' /\ Acceptors'
  BY <1>1, NumbersKept, AcceptorsKept DEF IInv
<1>3. Requests' /\ Replies' /\ Reports'
  BY <1>1, RequestsKept, RepliesKept, ReportsKept DEF IInv
<1>4. Counters'
  BY <1>1, CountedKept, CountersKept DEF IInv
<1>5. Proposers'
  <2>1. \A t \in Core : Informed(t)'
    BY <1>1, InformedKept, ProposersParts DEF IInv
  <2>2. Proposers' <=> \A t \in Core : Informed(t)'
    BY DEF Proposers, Informed, Knows
  <2> QED
    BY <2>1, <2>2
<1>6. Offers'
  <2>1. \A n \in Nat, v \in Value : Offered(n, v)' => Offered(n, v)
    BY <1>1, OfferedKept
  <2>2. \A d \in Core : acceptor_vars'[d].highest_proposed_n
                           >= acceptor_vars[d].highest_proposed_n
                         /\ acceptor_vars'[d].highest_proposed_n \in Nat \cup {-1}
    BY <1>1, StateFacts DEF IInv
  <2> QED
    BY <1>1, <2>1, <2>2, OffersKept DEF IInv
<1>7. Sent'
  BY <1>1, SentKept DEF IInv
<1> QED
  BY <1>2, <1>3, <1>4, <1>5, <1>6, <1>7 DEF IInv

\* A core promises: it has neither promised nor replied for this number.
LEMMA PrepareRequestStep ==
  ASSUME IInv, NEW c \in Core, NEW p \in Core, PrepareRequest(c, p)
  PROVE  IInv'
<1> DEFINE s == Head(mail[c][p])
           r == Reply(c)
           N == Number(p)
<1>1. /\ TInv' /\ r \in Signal /\ Follows(mail, mail', c, {p}, {r})
      /\ s \in Range(mail[c][p]) /\ s.sig = "PREPARE_REQUEST" /\ s.n \in Nat
  BY PrepareRequestTypes DEF IInv
<1>2. s.n = N /\ N \in Nat
  BY <1>1 DEF IInv, Requests
<1>3. /\ \A d \in Core : Number(d)' = Number(d)
      /\ UNCHANGED <<running, proposal_number_global, proposer_vars,
                     PREPARE_ACCEPT_SENT, SIG_LEARN_SENT, announced, accepted>>
      /\ promised' = promised \cup {<<c, N>>}
  BY <1>2 DEF PrepareRequest, Number, proposalVars, sentVars
<1>4. /\ acceptor_vars[c].highest_proposed_n < N
      /\ acceptor_vars'[c].highest_proposed_n = N
      /\ \A d \in Core :
           /\ d # c => acceptor_vars'[d].highest_proposed_n
                         = acceptor_vars[d].highest_proposed_n
           /\ acceptor_vars'[d].highest_acc_n = acceptor_vars[d].highest_acc_n
           /\ acceptor_vars'[d].highest_acc_value = acceptor_vars[d].highest_acc_value
  <2>1. /\ acceptor_vars[c].highest_proposed_n \in Nat \cup {-1}
        /\ acceptor_vars \in [Core -> [highest_proposed_n : Nat \cup {-1},
                                 highest_acc_n : Nat \cup {-1},
                                 highest_acc_value : Value \cup {NoValue}]]
    BY DEF IInv, TInv, TypeOK
  <2>2. /\ acceptor_vars[c].highest_proposed_n < N
        /\ acceptor_vars' = [acceptor_vars EXCEPT ![c] =
                               [acceptor_vars[c] EXCEPT !.highest_proposed_n = N]]
    <3>1. /\ Newer(c, N)
          /\ acceptor_vars' = [acceptor_vars EXCEPT ![c].highest_proposed_n = N]
      BY <1>2 DEF PrepareRequest
    <3> HIDE DEF N
    <3> QED
      BY SMTT(30), <1>2, <2>1, <3>1 DEF Newer, ToldHigher
  <2> HIDE DEF N
  <2> QED
    BY <2>1, <2>2
<1>5. Stay(mail, mail', c, p) /\ (running[p] => r \in Range(mail'[p][c]))
  <2>1. ~ Learn(c, p) /\ Handler(c, p)
    BY <1>1 DEF Learn, Receives, Handler
  <2> QED
    BY <2>1, HandlersStay DEF IInv
<1>6. /\ r.sig \in PromiseReply /\ r.sig # "ACCEPTED" /\ s.sig \notin PromiseReply
      /\ r.sig \notin {"PREPARE_REQUEST", "ACCEPT_REQUEST"}
      /\ {"ACCEPTED"} \in Kind /\ PromiseReply \in Kind
      /\ {"ACCEPTED"} # PromiseReply
      /\ r.sig = "PREPARE_ACCEPT_NO_PREVIOUS" => acceptor_vars[c].highest_acc_value = NoValue
      /\ r.sig = "PREPARE_ACCEPT" =>
           /\ acceptor_vars[c].highest_acc_value # NoValue
           /\ r.n = acceptor_vars[c].highest_acc_n
           /\ r.value = acceptor_vars[c].highest_acc_value
  BY <1>1 DEF Reply, PromiseReply, Kind
<1> HIDE DEF Number, N, r, s
<1>7. <<c, N>> \notin promised
  BY <1>4, <1>2, StateFacts DEF IInv, Acceptors
<1>8. ~ Has(p, c, PromiseReply)
  BY <1>7 DEF IInv, Replies, N
<1>9. Numbers'
  BY <1>2, <1>3 DEF IInv, Numbers, N
<1>10. Requests'
  BY <1>1, <1>3, <1>6, RequestsKept DEF IInv
<1>11. Replies'
  <2> SUFFICES ASSUME NEW t \in Core, NEW u \in Core, NEW x \in Range(mail'[t][u])
               PROVE  /\ x.sig \in PromiseReply =>
                           /\ <<u, Number(t)>> \in promised'
                           /\ Once(mail'[t][u], PromiseReply)
                      /\ x.sig = "ACCEPTED" =>
                           /\ <<u, Number(t), x.value>> \in accepted'
                           /\ Once(mail'[t][u], {"ACCEPTED"})
    BY <1>3 DEF Replies, Has, PromiseReply
  <2>1. x \in Range(mail[t][u]) \/ (t = p /\ u = c /\ x = r)
    BY <1>1 DEF Follows
  <2>2. ASSUME x.sig = "ACCEPTED"
        PROVE  /\ <<u, Number(t), x.value>> \in accepted'
               /\ Once(mail'[t][u], {"ACCEPTED"})
    <3>1. x \in Range(mail[t][u])
      BY <1>6, <2>1, <2>2
    <3>2. Once(mail[t][u], {"ACCEPTED"}) /\ <<u, Number(t), x.value>> \in accepted
      BY <2>2, <3>1 DEF IInv, Replies
    <3> QED
      BY <1>1, <1>3, <1>6, <3>2 DEF Follows
  <2>3. ASSUME x.sig \in PromiseReply
        PROVE  /\ <<u, Number(t)>> \in promised'
               /\ Once(mail'[t][u], PromiseReply)
    <3>1. CASE t = p /\ u = c
      <4>1. \A y \in Range(mail[t][u]) : y.sig \notin PromiseReply
        BY <1>8, <3>1 DEF Has
      <4>2. Once(mail[t][u], PromiseReply)
        BY <4>1, NoneOnce
      <4>3. Once(mail'[t][u], PromiseReply)
        BY <1>1, <1>6, <4>1, <4>2 DEF Follows
      <4> QED
        BY <1>3, <3>1, <4>3 DEF N
    <3>2. CASE ~ (t = p /\ u = c)
      <4>1. Has(t, u, PromiseReply)
        BY <2>1, <2>3, <3>2 DEF Has
      <4>2. <<u, Number(t)>> \in promised /\ Once(mail[t][u], PromiseReply)
        BY <4>1 DEF IInv, Replies
      <4> QED
        BY <1>1, <1>3, <1>6, <3>2, <4>2 DEF Follows
    <3> QED
      BY <3>1, <3>2
  <2> QED
    BY <2>2, <2>3
<1>12. Counters'
  <2>1. c \notin PromisedTo(p)
    BY <1>7 DEF PromisedTo, N
  <2>2. \A t \in Core : /\ PromisedTo(t) \subseteq PromisedTo(t)'
                        /\ AcceptedFor(t) \subseteq AcceptedFor(t)'
    BY <1>1, <1>3, <1>6, <2>1, CountedKept
  <2> QED
    BY <1>1, <1>3, <2>2, CountersKept DEF IInv
<1>13. Acceptors'
  <2>1. \A x \in promised' : acceptor_vars'[x[1]].highest_proposed_n >= x[2]
    <3> SUFFICES ASSUME NEW x \in promised'
                 PROVE  acceptor_vars'[x[1]].highest_proposed_n >= x[2]
      OBVIOUS
    <3>1. CASE x \in promised
      <4>1. x[1] \in Core /\ x[2] \in Nat
            /\ acceptor_vars[x[1]].highest_proposed_n >= x[2]
            /\ acceptor_vars[x[1]].highest_proposed_n \in Nat \cup {-1}
        BY <3>1, StateFacts DEF IInv, Acceptors
      <4> QED
        BY <1>2, <1>4, <4>1
    <3>2. CASE x = <<c, N>>
      BY <1>2, <1>4, <3>2
    <3> QED
      BY <1>3, <3>1, <3>2
  <2>2. \A d \in Core : acceptor_vars'[d].highest_acc_n
                          <= acceptor_vars'[d].highest_proposed_n
    <3> SUFFICES ASSUME NEW d \in Core
                 PROVE  acceptor_vars'[d].highest_acc_n
                          <= acceptor_vars'[d].highest_proposed_n
      OBVIOUS
    <3>1. /\ acceptor_vars[d].highest_acc_n <= acceptor_vars[d].highest_proposed_n
          /\ acceptor_vars[d].highest_acc_n \in Nat \cup {-1}
          /\ acceptor_vars[d].highest_proposed_n \in Nat \cup {-1}
      BY StateFacts DEF IInv, Acceptors
    <3> QED
      BY <1>2, <1>4, <3>1
  <2> QED
    BY <1>3, <1>4, <2>1, <2>2 DEF IInv, Acceptors
<1>14. Reports'
  <2> SUFFICES ASSUME NEW t \in Core, NEW u \in Core, NEW x \in Range(mail'[t][u]),
                      x.sig \in PromiseReply
               PROVE  /\ x.sig = "PREPARE_ACCEPT" =>
                         /\ x.n < Number(t)' /\ <<u, x.n, x.value>> \in accepted'
                         /\ \A n \in Nat, v \in Value :
                              <<u, n, v>> \in accepted' /\ n < Number(t)' => n <= x.n
                      /\ x.sig = "PREPARE_ACCEPT_NO_PREVIOUS" =>
                         \A n \in Nat, v \in Value :
                           <<u, n, v>> \in accepted' => n >= Number(t)'
    BY DEF Reports, PromiseReply
  <2>1. x \in Range(mail[t][u]) \/ (t = p /\ u = c /\ x = r)
    BY <1>1 DEF Follows
  <2>2. CASE x \in Range(mail[t][u])
    BY <1>3, <2>2 DEF IInv, Reports
  <2>3. CASE t = p /\ u = c /\ x = r
    <3>1. /\ acceptor_vars[c].highest_acc_n \in Nat \cup {-1}
          /\ acceptor_vars[c].highest_proposed_n \in Nat \cup {-1}
      BY StateFacts DEF IInv
    <3>2. /\ acceptor_vars[c].highest_acc_n <= acceptor_vars[c].highest_proposed_n
          /\ acceptor_vars[c].highest_acc_value = NoValue
               <=> acceptor_vars[c].highest_acc_n = -1
          /\ acceptor_vars[c].highest_acc_n # -1 =>
               <<c, acceptor_vars[c].highest_acc_n,
                    acceptor_vars[c].highest_acc_value>> \in accepted
          /\ \A n \in Nat, v \in Value :
               <<c, n, v>> \in accepted => n <= acceptor_vars[c].highest_acc_n
      BY DEF IInv, Acceptors
    <3>3. acceptor_vars[c].highest_acc_n < Number(t)
      BY <1>2, <1>4, <2>3, <3>1, <3>2 DEF N
    <3> QED
      BY <1>3, <1>6, <2>3, <3>1, <3>2, <3>3
  <2> QED
    BY <2>1, <2>2, <2>3
<1>15. Proposers'
  <2>1. ASSUME NEW t \in Core, running[t], NEW d \in Core,
               <<d, Number(t)>> \in promised'
        PROVE  <<d, Number(t)>> \in promised \/ Has(t, d, PromiseReply)'
    <3>1. CASE t = p /\ d = c
      BY <1>5, <1>6, <2>1, <3>1 DEF Has, PromiseReply
    <3>2. CASE t # p
      <4>1. Number(t) # N
        BY <1>2, <3>2 DEF IInv, Numbers, N
      <4> QED
        BY <1>3, <2>1, <4>1
    <3>3. CASE d # c
      BY <1>3, <2>1, <3>3
    <3> QED
      BY <3>1, <3>2, <3>3
  <2>2. \A t \in Core : running'[t] =>
          running[t] /\ PromisedTo(t)' \subseteq PromisedTo(t)
    BY <1>3, <1>5, <1>6, <2>1, PromisedToSame DEF s
  <2>3. \A t \in Core : Informed(t)'
    BY <1>3, <2>2, InformedKept, ProposersParts DEF IInv
  <2>4. Proposers' <=> \A t \in Core : Informed(t)'
    BY DEF Proposers, Informed, Knows
  <2> QED
    BY <2>3, <2>4
<1>16. Offers'
  <2>1. \A n \in Nat, v \in Value : Offered(n, v)' => Offered(n, v)
    BY <1>1, <1>3, <1>6, OfferedKept
  <2>2. \A d \in Core : acceptor_vars'[d].highest_proposed_n
                           >= acceptor_vars[d].highest_proposed_n
                         /\ acceptor_vars'[d].highest_proposed_n \in Nat \cup {-1}
    BY <1>2, <1>4, StateFacts DEF IInv
  <2> QED
    BY <1>3, <2>1, <2>2, OffersKept DEF IInv
<1>17. Sent'
  BY <1>3, SentKept DEF IInv
<1> QED
  BY <1>1, <1>9, <1>10, <1>11, <1>12, <1>13, <1>14, <1>15, <1>16, <1>17 DEF IInv

LEMMA InitInv == Init => IInv
<1> SUFFICES ASSUME Init PROVE IInv
  OBVIOUS
<1>1. TInv
  BY InitTypes
<1>2. /\ proposal_number_global = 0 /\ promised = {} /\ accepted = {}
      /\ \A c \in Core : /\ Number(c) = -1 /\ ~ PREPARE_ACCEPT_SENT[c]
                         /\ announced[c] = NoValue
                         /\ acceptor_vars[c].highest_proposed_n = -1
                         /\ acceptor_vars[c].highest_acc_n = -1
                         /\ acceptor_vars[c].highest_acc_value = NoValue
                         /\ proposer_vars[c].highest_replied_n = -1
                         /\ proposer_vars[c].highest_replied_value = NoValue
                         /\ proposer_vars[c].cores_promised = 0
                         /\ proposer_vars[c].cores_accepted = 0
  BY DEF Init, Number
<1>3. \A t, u \in Core : Range(mail[t][u]) = {}
  BY DEF Init, Range
<1> HIDE DEF Number, Init
<1>4. Numbers /\ Acceptors
  BY <1>2 DEF Numbers, Acceptors
<1>5. Requests /\ Replies /\ Reports
  BY <1>3 DEF Requests, Replies, Reports, Has
<1>6. Counters
  <2>1. \A A \in SUBSET Core : Cardinality(A) \in Nat
    BY CoreSets
  <2>2. \A c \in Core : PromisedTo(c) \in SUBSET Core /\ AcceptedFor(c) \in SUBSET Core
    BY DEF PromisedTo, AcceptedFor
  <2>3. \A c \in Core : Cardinality(PromisedTo(c)) >= 0
                        /\ Cardinality(AcceptedFor(c)) >= 0
    BY <2>1, <2>2
  <2> QED
    BY <1>2, <2>3 DEF Counters
<1>7. Proposers
  BY <1>2 DEF Proposers
<1>8. Offers
  BY <1>2, <1>3 DEF Offers, Offered
<1>9. Sent
  BY <1>2 DEF Sent
<1> QED
  BY <1>1, <1>4, <1>5, <1>6, <1>7, <1>8, <1>9 DEF IInv

\* The value a proposer takes is safe: a majority has promised number N, none
\* of it has accepted anything above k and below N, and k tells the value.
LEMMA PickSafe ==
  ASSUME TInv, Offers, NEW N \in Nat, NEW v \in Value, NEW k \in Nat \cup {-1},
         NEW Q \in Majority,
         \A d \in Q : /\ acceptor_vars[d].highest_proposed_n >= N
                      /\ \A n \in Nat, w \in Value :
                           <<d, n, w>> \in accepted /\ n < N => n <= k,
         k # -1 => k < N /\ \E d \in Core : <<d, k, v>> \in accepted
  PROVE  SafeAt(N, v)
<1> SUFFICES ASSUME NEW m \in 0..(N - 1)
             PROVE  \E R \in Majority : \A d \in R :
                      <<d, m, v>> \in accepted \/ WontAccept(d, m)
  BY DEF SafeAt
<1>1. m \in Nat /\ m < N
  OBVIOUS
<1>2. \A d \in Q : acceptor_vars[d].highest_proposed_n \in Nat \cup {-1}
  BY StateFacts DEF Majority
<1>3. \A d \in Q : acceptor_vars[d].highest_proposed_n > m
  BY <1>1, <1>2
<1>4. k # -1 => /\ SafeAt(k, v)
                /\ \A w \in Value : Offered(k, w) => v = w
  BY DEF Offers, Offered
<1>5. CASE m > k
  <2>1. \A d \in Q, w \in Value : <<d, m, w>> \notin accepted
    BY <1>1, <1>5
  <2> QED
    BY <1>3, <2>1 DEF WontAccept
<1>6. CASE m = k
  <2>1. \A d \in Q, w \in Value : <<d, m, w>> \in accepted => w = v
    <3>1. \A w \in Value : Offered(k, w) => v = w
      BY <1>1, <1>4, <1>6
    <3>2. \A d \in Core, w \in Value : <<d, k, w>> \in accepted => Offered(k, w)
      BY DEF Offered
    <3> QED
      BY <1>6, <3>1, <3>2 DEF Majority
  <2> QED
    BY <1>3, <2>1 DEF WontAccept
<1>7. CASE m < k
  BY <1>1, <1>4, <1>7 DEF SafeAt
<1> QED
  BY <1>1, <1>5, <1>6, <1>7

\* What a promise tells the proposer that it did not know.
LEMMA ReplyTaken ==
  ASSUME IInv, NEW c \in Core, NEW p \in Core,
         PrepareAcceptNoPrevious(c, p) \/ PrepareAccept(c, p)
  PROVE  /\ mail[c][p] # <<>> /\ running[c]
         /\ Head(mail[c][p]).sig \in PromiseReply
         /\ \E mine \in ProposerVars, v \in Value :
              /\ Promised(c, p, mine, v)
              /\ mine.cores_promised = proposer_vars[c].cores_promised + 1
              /\ mine.cores_accepted = proposer_vars[c].cores_accepted
              /\ mine.highest_replied_value \in {NoValue, v}
              /\ ~ PREPARE_ACCEPT_SENT[c] =>
                   Knows(c, mine.highest_replied_n, mine.highest_replied_value,
                         PromisedTo(c) \cup {p})
<1> DEFINE k == proposer_vars[c].highest_replied_n
           w == proposer_vars[c].highest_replied_value
           s == Head(mail[c][p])
           one == CountedPromise(c)
           two == Learned(c, p)
<1>1. /\ k \in Nat \cup {-1} /\ Number(c) \in Nat \cup {-1}
      /\ ~ PREPARE_ACCEPT_SENT[c] => Knows(c, k, w, PromisedTo(c))
  BY StateFacts, ProposersParts DEF IInv, Informed
<1>2. /\ one.highest_replied_n = k /\ one.highest_replied_value = w
      /\ one.cores_promised = proposer_vars[c].cores_promised + 1
      /\ one.cores_accepted = proposer_vars[c].cores_accepted
      /\ one \in ProposerVars
  <2>1. proposer_vars[c] \in ProposerVars
    BY DEF IInv, TInv, TypeOK, ProposerVars
  <2> QED
    BY <2>1 DEF CountedPromise, ProposerVars
<1>3. CASE PrepareAcceptNoPrevious(c, p)
  <2>1. /\ mail[c][p] # <<>> /\ running[c] /\ s.sig = "PREPARE_ACCEPT_NO_PREVIOUS"
        /\ one \in ProposerVars
    BY <1>3, NoPreviousParts DEF IInv
  <2>2. PICK v \in Value : Promised(c, p, one, v) /\ w \in {NoValue, v}
    BY <1>3, NoPreviousParts DEF IInv
  <2>3. s \in Range(mail[c][p])
    BY <2>1, HeadFacts DEF IInv
  <2> HIDE DEF s, k, w, one, Number
  <2>4. \A n \in Nat, x \in Value : <<p, n, x>> \in accepted => n >= Number(c)
    BY <2>1, <2>3 DEF IInv, Reports
  <2>5. ~ PREPARE_ACCEPT_SENT[c] => Knows(c, k, w, PromisedTo(c) \cup {p})
    BY <1>1, <2>4 DEF Knows
  <2> QED
    BY <1>2, <2>1, <2>2, <2>5 DEF PromiseReply, s
<1>4. CASE PrepareAccept(c, p)
  <2>1. /\ mail[c][p] # <<>> /\ running[c] /\ s.sig = "PREPARE_ACCEPT"
        /\ s \in Range(mail[c][p]) /\ s.n \in Nat /\ s.value \in Value
        /\ two \in ProposerVars /\ two.highest_replied_value \in Value
        /\ Promised(c, p, two, two.highest_replied_value)
    BY <1>4, PrepareAcceptParts DEF IInv
  <2>2. /\ two.cores_promised = one.cores_promised
        /\ two.cores_accepted = one.cores_accepted
        /\ s.n > k => two.highest_replied_n = s.n /\ two.highest_replied_value = s.value
        /\ ~ s.n > k => two.highest_replied_n = k /\ two.highest_replied_value = w
    <3>1. /\ two = IF s.n > one.highest_replied_n
                   THEN [one EXCEPT !.highest_replied_n = s.n,
                                    !.highest_replied_value = s.value]
                   ELSE one
      BY DEF Learned, Keeps
    <3> HIDE DEF one, two, s, k, w
    <3> QED
      BY <1>2, <3>1 DEF ProposerVars
  <2> HIDE DEF s, k, w, one, two, Number
  <2>3. /\ s.n < Number(c) /\ <<p, s.n, s.value>> \in accepted
        /\ \A n \in Nat, x \in Value :
             <<p, n, x>> \in accepted /\ n < Number(c) => n <= s.n
    BY <2>1 DEF IInv, Reports
  <2>4. ~ PREPARE_ACCEPT_SENT[c] =>
          Knows(c, two.highest_replied_n, two.highest_replied_value,
                PromisedTo(c) \cup {p})
    <3>1. CASE s.n > k
      <4>1. \A n \in Nat : n <= k => n <= s.n
        BY <1>1, <2>1, <3>1
      <4> QED
        BY <1>1, <2>1, <2>2, <2>3, <3>1, <4>1 DEF Knows
    <3>2. CASE ~ s.n > k
      <4>1. k # -1 /\ \A n \in Nat : n <= s.n => n <= k
        BY <1>1, <2>1, <3>2
      <4> QED
        BY <1>1, <2>1, <2>2, <2>3, <3>2, <4>1 DEF Knows
    <3> QED
      BY <3>1, <3>2
  <2> QED
    BY <1>2, <2>1, <2>2, <2>4 DEF PromiseReply, s
<1> QED
  BY <1>3, <1>4

\* What both steps of a proposer that takes a promise do to the counted ones.
LEMMA PromiseCounted ==
  ASSUME IInv, NEW c \in Core, NEW p \in Core, mail[c][p] # <<>>,
         Head(mail[c][p]).sig \in PromiseReply, ~ Has(c, p, PromiseReply)',
         NEW S, NEW T, Follows(mail, mail', c, T, S), Stay(mail, mail', c, p),
         \A s \in S : s.sig \notin PromiseReply /\ s.sig # "ACCEPTED",
         UNCHANGED <<running, proposal_number_personal, promised, accepted>>
  PROVE  /\ \A t \in Core : /\ PromisedTo(t) \subseteq PromisedTo(t)'
                            /\ AcceptedFor(t) \subseteq AcceptedFor(t)'
                            /\ t # c => PromisedTo(t)' \subseteq PromisedTo(t)
         /\ PromisedTo(c)' \subseteq PromisedTo(c) \cup {p}
         /\ p \in PromisedTo(c)' \ PromisedTo(c)
         /\ Head(mail[c][p]) \in Range(mail[c][p])
<1>1. \A d \in Core : Number(d)' = Number(d)
  BY DEF Number
<1>2. Head(mail[c][p]) \in Range(mail[c][p])
  BY HeadFacts DEF IInv
<1> HIDE DEF Number, PromiseReply
<1>3. Has(c, p, PromiseReply)
  BY <1>2 DEF Has
<1>4. p \in PromisedTo(c)' \ PromisedTo(c)
  BY <1>1, <1>3 DEF PromisedTo, IInv, Replies, PromiseReply
<1>5. \A t \in Core : /\ PromisedTo(t) \subseteq PromisedTo(t)'
                      /\ AcceptedFor(t) \subseteq AcceptedFor(t)'
  BY <1>1, CountedKept
<1>6. \A t \in Core : /\ t # c => PromisedTo(t)' \subseteq PromisedTo(t)
                      /\ PromisedTo(t)' \subseteq PromisedTo(t) \cup {p}
  BY <1>1, PromisedToSame
<1> QED
  BY <1>2, <1>4, <1>5, <1>6

\* Counting one more promise.
LEMMA CountsOnStep ==
  ASSUME IInv, TInv', NEW c \in Core, NEW p \in Core, mail[c][p] # <<>>, running[c],
         Head(mail[c][p]).sig \in PromiseReply, ~ Has(c, p, PromiseReply)',
         Stay(mail, mail', c, p), NEW mine, CountsOn(c, mine),
         mine.cores_promised = proposer_vars[c].cores_promised + 1,
         mine.cores_accepted = proposer_vars[c].cores_accepted,
         ~ PREPARE_ACCEPT_SENT[c] =>
           Knows(c, mine.highest_replied_n, mine.highest_replied_value,
                 PromisedTo(c) \cup {p}),
         UNCHANGED <<running, proposalVars, acceptor_vars, SIG_LEARN_SENT,
                     announced, promised, accepted>>
  PROVE  IInv'
<1>1. /\ \A d \in Core : Number(d)' = Number(d)
      /\ UNCHANGED <<running, proposal_number_global, proposal_number_personal,
                     acceptor_vars, PREPARE_ACCEPT_SENT, SIG_LEARN_SENT,
                     announced, promised, accepted>>
      /\ Follows(mail, mail', c, {}, {})
      /\ proposer_vars'[c] = mine
      /\ \A d \in Core : d # c => proposer_vars'[d] = proposer_vars[d]
  BY DEF Number, proposalVars, CountsOn, IInv, TInv, TypeOK
<1>2. /\ \A t \in Core : /\ PromisedTo(t) \subseteq PromisedTo(t)'
                         /\ AcceptedFor(t) \subseteq AcceptedFor(t)'
                         /\ t # c => PromisedTo(t)' \subseteq PromisedTo(t)
      /\ PromisedTo(c)' \subseteq PromisedTo(c) \cup {p}
      /\ p \in PromisedTo(c)' \ PromisedTo(c)
  BY <1>1, PromiseCounted
<1> HIDE DEF Number, PromiseReply
<1>3. Numbers' /\ Acceptors'
  BY <1>1, NumbersKept, AcceptorsKept DEF IInv
<1>4. Requests' /\ Replies' /\ Reports'
  BY <1>1, RequestsKept, RepliesKept, ReportsKept DEF IInv
<1>5. Counters'
  BY <1>1, <1>2, CountersKept DEF IInv
<1>6. Proposers'
  <2>1. \A t \in Core : t # c => Informed(t)'
    BY <1>1, <1>2, InformedKept, ProposersParts DEF IInv
  <2>2. Informed(c)'
    BY <1>1, <1>2 DEF Informed, Knows
  <2>3. Proposers' <=> \A t \in Core : Informed(t)'
    BY DEF Proposers, Informed, Knows
  <2> QED
    BY <2>1, <2>2, <2>3
<1>7. Offers'
  <2>1. \A n \in Nat, v \in Value : Offered(n, v)' => Offered(n, v)
    BY <1>1, OfferedKept
  <2>2. \A d \in Core : acceptor_vars'[d].highest_proposed_n
                           >= acceptor_vars[d].highest_proposed_n
                         /\ acceptor_vars'[d].highest_proposed_n \in Nat \cup {-1}
    BY <1>1, StateFacts DEF IInv
  <2> QED
    BY <1>1, <2>1, <2>2, OffersKept DEF IInv
<1>8. Sent'
  BY <1>1, SentKept DEF IInv
<1> QED
  BY <1>3, <1>4, <1>5, <1>6, <1>7, <1>8 DEF IInv

\* With a majority of promises: the value is safe, and nobody was asked to
\* accept anything for this number.
LEMMA AsksStep ==
  ASSUME IInv, TInv', NEW c \in Core, NEW p \in Core, mail[c][p] # <<>>, running[c],
         Head(mail[c][p]).sig \in PromiseReply, ~ Has(c, p, PromiseReply)',
         Stay(mail, mail', c, p), NEW mine \in ProposerVars, NEW v \in Value,
         Asks(c, mine, v),
         mine.cores_promised = proposer_vars[c].cores_promised + 1,
         mine.cores_accepted = proposer_vars[c].cores_accepted,
         mine.highest_replied_value \in {NoValue, v},
         ~ PREPARE_ACCEPT_SENT[c] =>
           Knows(c, mine.highest_replied_n, mine.highest_replied_value,
                 PromisedTo(c) \cup {p}),
         UNCHANGED <<running, proposalVars, acceptor_vars, SIG_LEARN_SENT,
                     announced, promised, accepted>>
  PROVE  IInv'
<1> DEFINE N == Number(c)
           k == mine.highest_replied_n
           a == Ask(c, v)
           Q == {d \in Core : <<d, N>> \in promised}
<1>1. /\ \A d \in Core : Number(d)' = Number(d)
      /\ UNCHANGED <<running, proposal_number_global, proposal_number_personal,
                     acceptor_vars, SIG_LEARN_SENT, announced, promised, accepted>>
      /\ Follows(mail, mail', c, Core, {a})
      /\ ~ PREPARE_ACCEPT_SENT[c] /\ PREPARE_ACCEPT_SENT'[c]
      /\ \A d \in Core : d # c => /\ PREPARE_ACCEPT_SENT'[d] = PREPARE_ACCEPT_SENT[d]
                                  /\ proposer_vars'[d] = proposer_vars[d]
      /\ Quorum(mine.cores_promised)
      /\ a.sig = "ACCEPT_REQUEST" /\ a.n = N /\ a.value = v
  BY DEF Number, proposalVars, Asks, Ask, IInv, TInv, TypeOK
<1>2. /\ proposer_vars'[c].cores_promised = proposer_vars[c].cores_promised + 1
      /\ proposer_vars'[c].cores_accepted = proposer_vars[c].cores_accepted
  <2>1. proposer_vars'[c] = [mine EXCEPT !.highest_replied_value = v]
    BY DEF Asks, IInv, TInv, TypeOK
  <2> QED
    BY <2>1 DEF ProposerVars
<1>3. /\ "ACCEPT_REQUEST" \notin PromiseReply
      /\ {"ACCEPT_REQUEST"} \in Kind /\ {"ACCEPTED"} \in Kind /\ PromiseReply \in Kind
  BY DEF PromiseReply, Kind
<1>4. /\ \A t \in Core : /\ PromisedTo(t) \subseteq PromisedTo(t)'
                         /\ AcceptedFor(t) \subseteq AcceptedFor(t)'
                         /\ t # c => PromisedTo(t)' \subseteq PromisedTo(t)
      /\ PromisedTo(c)' \subseteq PromisedTo(c) \cup {p}
      /\ p \in PromisedTo(c)' \ PromisedTo(c)
      /\ Head(mail[c][p]) \in Range(mail[c][p])
  BY <1>1, <1>3, PromiseCounted
<1>5. k \in Nat \cup {-1}
  BY DEF ProposerVars
<1> HIDE DEF Number, PromiseReply, a, N, k, Kind
<1>6. N \in Nat
  <2>1. Has(c, p, PromiseReply)
    BY <1>4 DEF Has
  <2> QED
    BY <2>1 DEF IInv, TInv, Valued, N
<1>7. Numbers' /\ Acceptors'
  BY <1>1, NumbersKept, AcceptorsKept DEF IInv
<1>8. Replies' /\ Reports'
  BY <1>1, <1>3, RepliesKept, ReportsKept DEF IInv
<1>9. Counters'
  BY <1>1, <1>2, <1>4, CountersKept DEF IInv
<1>10. Proposers'
  <2>1. \A t \in Core : t # c => Informed(t)'
    BY <1>1, <1>4, InformedKept, ProposersParts DEF IInv
  <2>2. Informed(c)'
    BY <1>1 DEF Informed
  <2>3. Proposers' <=> \A t \in Core : Informed(t)'
    BY DEF Proposers, Informed, Knows
  <2> QED
    BY <2>1, <2>2, <2>3
<1>11. /\ PromisedTo(c) \cup {p} \in Majority
       /\ PromisedTo(c) \cup {p} \subseteq Q
  <2>1. PromisedTo(c)' = PromisedTo(c) \cup {p}
    BY <1>4
  <2>2. PromisedTo(c)' \in SUBSET Core /\ PromisedTo(c)' \subseteq Q
    BY <1>1 DEF PromisedTo, N
  <2>3. Cardinality(PromisedTo(c)') \in Nat
    BY <2>2, CoreSets
  <2>4. Quorum(Cardinality(PromisedTo(c)'))
    <3>1. /\ proposer_vars'[c].cores_promised <= Cardinality(PromisedTo(c)')
          /\ proposer_vars'[c].cores_promised \in Nat
      BY <1>9, StateFacts DEF Counters, TInv, TypeOK
    <3> HIDE DEF Q
    <3> QED
      BY <1>1, <1>2, <2>3, <3>1, ClusterAssumption DEF Quorum, majority
  <2> QED
    BY <2>1, <2>2, <2>4 DEF Majority
<1>12. \A w \in Value : ~ Offered(N, w)
  BY <1>1, <1>6 DEF IInv, Offers, Numbers, N
<1>13. SafeAt(N, v)
  <2>1. Knows(c, k, mine.highest_replied_value, PromisedTo(c) \cup {p})
    BY <1>1 DEF k
  <2>2. k # -1 => k < N /\ \E d \in Core : <<d, k, v>> \in accepted
    <3>1. k # -1 => k < N /\ \E d \in Core : <<d, k, mine.highest_replied_value>> \in accepted
      BY <2>1 DEF Knows, N
    <3>2. k # -1 => mine.highest_replied_value \in Value
      BY <3>1, StateFacts DEF IInv
    <3> QED
      BY <3>1, <3>2, ValueAssumption
  <2>3. \A d \in PromisedTo(c) \cup {p} :
          /\ acceptor_vars[d].highest_proposed_n >= N
          /\ \A n \in Nat, w \in Value :
               <<d, n, w>> \in accepted /\ n < N => n <= k
    <3>1. \A d \in Q : acceptor_vars[d].highest_proposed_n >= N
      BY DEF IInv, Acceptors
    <3> QED
      BY <1>11, <2>1, <3>1 DEF Knows, N
  <2> QED
    BY <1>5, <1>6, <1>11, <2>2, <2>3, PickSafe DEF IInv
<1>14. Requests'
  <2> SUFFICES ASSUME NEW t \in Core, NEW u \in Core, NEW s \in Range(mail'[t][u])
               PROVE  /\ s.sig = "PREPARE_REQUEST" => s.n = Number(u)'
                      /\ s.sig = "ACCEPT_REQUEST" =>
                           /\ s.n = Number(u)' /\ PREPARE_ACCEPT_SENT'[u]
                           /\ \A w \in Value : <<t, Number(u)', w>> \notin accepted'
                           /\ Once(mail'[t][u], {"ACCEPT_REQUEST"})
    BY DEF Requests
  <2>1. s \in Range(mail[t][u]) \/ (u = c /\ s = a)
    BY <1>1 DEF Follows
  <2>2. CASE u = c
    <3>1. \A x \in Range(mail[t][u]) : x.sig # "ACCEPT_REQUEST"
      BY <1>1, <2>2 DEF IInv, Requests
    <3>2. Once(mail[t][u], {"ACCEPT_REQUEST"})
      BY <3>1, NoneOnce
    <3>3. Once(mail'[t][u], {"ACCEPT_REQUEST"})
      BY <1>1, <1>3, <3>1, <3>2 DEF Follows
    <3>4. \A w \in Value : <<t, N, w>> \notin accepted
      BY <1>12 DEF Offered
    <3> QED
      BY <1>1, <2>1, <2>2, <3>1, <3>3, <3>4 DEF IInv, Requests, N
  <2>3. CASE u # c
    <3>1. Once(mail[t][u], {"ACCEPT_REQUEST"}) => Once(mail'[t][u], {"ACCEPT_REQUEST"})
      BY <1>1, <1>3, <2>3 DEF Follows
    <3> QED
      BY <1>1, <2>1, <2>3, <3>1 DEF IInv, Requests
  <2> QED
    BY <2>2, <2>3
<1>15. Offers'
  <2>1. ASSUME NEW n \in Nat, NEW w \in Value, Offered(n, w)'
        PROVE  Offered(n, w) \/ (n = N /\ w = v)
    <3> DEFINE x == [sig |-> "ACCEPT_REQUEST", n |-> n, value |-> w]
    <3>1. x.n = n /\ x.value = w
      OBVIOUS
    <3> HIDE DEF x
    <3>2. \A t, u \in Core : x \in Range(mail'[t][u]) =>
            x \in Range(mail[t][u]) \/ x = a
      BY <1>1 DEF Follows
    <3> QED
      BY <1>1, <2>1, <3>1, <3>2 DEF Offered, x
  <2>2. \A n \in Nat, w \in Value : SafeAt(n, w)' <=> SafeAt(n, w)
    BY <1>1 DEF SafeAt, WontAccept, Majority, Quorum, majority
  <2> SUFFICES ASSUME NEW n \in Nat, NEW w \in Value, Offered(n, w)'
               PROVE  /\ \E d \in Core : PREPARE_ACCEPT_SENT'[d] /\ Number(d)' = n
                      /\ \A x \in Value : Offered(n, x)' => w = x
                      /\ SafeAt(n, w)'
    BY DEF Offers
  <2>3. CASE n = N
    BY <1>1, <1>12, <1>13, <2>1, <2>2, <2>3 DEF N
  <2>4. CASE n # N
    BY <1>1, <2>1, <2>2, <2>4 DEF IInv, Offers
  <2> QED
    BY <2>3, <2>4
<1>16. Sent'
  <2>1. {e \in Core : <<e, N>> \in promised} \in Majority
    BY <1>11, Majorities
  <2> QED
    BY <1>1, <2>1, SentKept DEF IInv, N
<1> QED
  BY <1>7, <1>8, <1>9, <1>10, <1>14, <1>15, <1>16 DEF IInv

LEMMA PromiseStep ==
  ASSUME IInv, NEW c \in Core, NEW p \in Core,
         PrepareAcceptNoPrevious(c, p) \/ PrepareAccept(c, p)
  PROVE  IInv'
<1>1. TInv'
  BY PromiseTypes DEF IInv
<1>2. /\ mail[c][p] # <<>> /\ running[c]
      /\ Head(mail[c][p]).sig \in PromiseReply
  BY ReplyTaken
<1>3. PICK mine \in ProposerVars, v \in Value :
        /\ Promised(c, p, mine, v)
        /\ mine.cores_promised = proposer_vars[c].cores_promised + 1
        /\ mine.cores_accepted = proposer_vars[c].cores_accepted
        /\ mine.highest_replied_value \in {NoValue, v}
        /\ ~ PREPARE_ACCEPT_SENT[c] =>
             Knows(c, mine.highest_replied_n, mine.highest_replied_value,
                   PromisedTo(c) \cup {p})
  BY ReplyTaken
<1>4. UNCHANGED <<running, proposalVars, acceptor_vars, SIG_LEARN_SENT,
                  announced, promised, accepted>>
  BY DEF PrepareAcceptNoPrevious, PrepareAccept
<1>5. Stay(mail, mail', c, p)
  <2>1. Handler(c, p) /\ ~ Learn(c, p)
    BY <1>2 DEF Handler, Learn, Receives, PromiseReply
  <2> QED
    BY <2>1, HandlersStay DEF IInv
<1>6. /\ Asks(c, mine, v) \/ CountsOn(c, mine)
      /\ ~ Has(c, p, PromiseReply)'
  <2>1. Has(c, p, PromiseReply)
    BY <1>2, HeadFacts DEF Has, IInv
  <2>2. Once(mail[c][p], PromiseReply)
    BY <2>1 DEF IInv, Replies
  <2> QED
    BY <1>2, <1>3, <2>2, PromisedEffect DEF IInv
<1>7. CASE Asks(c, mine, v)
  BY <1>1, <1>2, <1>3, <1>4, <1>5, <1>6, <1>7, AsksStep
<1>8. CASE CountsOn(c, mine)
  BY <1>1, <1>2, <1>3, <1>4, <1>5, <1>6, <1>8, CountsOnStep
<1> QED
  BY <1>6, <1>7, <1>8

\* A core accepts: no majority it is needed for had counted on its refusal.
LEMMA AcceptsStep ==
  ASSUME IInv, NEW c \in Core, NEW p \in Core, AcceptRequest(c, p), Accepts(c, p)
  PROVE  IInv'
<1> DEFINE s == Head(mail[c][p])
           N == s.n
           V == s.value
           a == Answer(V)
<1>1. /\ s \in Range(mail[c][p]) /\ s.sig = "ACCEPT_REQUEST"
      /\ N \in Nat /\ V \in Value
      /\ Once(mail[c][p], {"ACCEPT_REQUEST"}) => ~ Has(c, p, {"ACCEPT_REQUEST"})'
  BY AcceptRequestEffect DEF IInv
<1>2. TInv'
  BY AcceptRequestTypes DEF IInv
<1>3. /\ \A d \in Core : Number(d)' = Number(d)
      /\ UNCHANGED <<running, proposal_number_global, proposer_vars,
                     PREPARE_ACCEPT_SENT, SIG_LEARN_SENT, announced, promised>>
      /\ accepted' = accepted \cup {<<c, N, V>>}
      /\ Follows(mail, mail', c, {p}, {a})
  <2>1. UNCHANGED <<running, proposalVars, proposer_vars, sentVars, promised>>
    BY AcceptRequestEffect DEF IInv
  <2> QED
    BY <2>1 DEF Accepts, Number, proposalVars, sentVars
<1>4. /\ ~ acceptor_vars[c].highest_proposed_n > N
      /\ acceptor_vars'[c].highest_proposed_n = N
      /\ acceptor_vars'[c].highest_acc_n = N
      /\ acceptor_vars'[c].highest_acc_value = V
      /\ \A d \in Core : d # c => acceptor_vars'[d] = acceptor_vars[d]
  BY DEF Accepts, ToldHigher, IInv, TInv, TypeOK
<1>5. a.sig = "ACCEPTED" /\ a.value = V /\ "ACCEPTED" \notin PromiseReply
      /\ {"ACCEPTED"} \in Kind /\ PromiseReply \in Kind /\ {"ACCEPT_REQUEST"} \in Kind
      /\ s.sig \notin PromiseReply
  BY <1>1 DEF Answer, PromiseReply, Kind
<1>6. s = [sig |-> "ACCEPT_REQUEST", n |-> N, value |-> V]
  <2>1. s \in Signal
    BY <1>1, StateFacts DEF IInv
  <2> QED
    BY <1>1, <2>1 DEF Signal
<1>7. Stay(mail, mail', c, p)
  <2>1. Handler(c, p) /\ ~ Learn(c, p)
    BY <1>1 DEF Handler, Learn, Receives
  <2> QED
    BY <2>1, HandlersStay DEF IInv
<1> HIDE DEF s, N, V, a, Number, Kind, PromiseReply
<1>8. /\ N = Number(p) /\ PREPARE_ACCEPT_SENT[p]
      /\ \A v \in Value : <<c, N, v>> \notin accepted
      /\ ~ Has(c, p, {"ACCEPT_REQUEST"})'
  BY <1>1 DEF IInv, Requests, N
<1>9. /\ acceptor_vars[c].highest_proposed_n \in Nat \cup {-1}
      /\ acceptor_vars[c].highest_proposed_n <= N
  BY <1>1, <1>4, StateFacts DEF IInv
<1>10. /\ \A d \in Core : acceptor_vars'[d].highest_proposed_n
                            >= acceptor_vars[d].highest_proposed_n
                          /\ acceptor_vars'[d].highest_proposed_n \in Nat \cup {-1}
       /\ \A d \in Core, m \in Nat, w \in Value :
            <<d, m, w>> \in accepted' =>
              <<d, m, w>> \in accepted \/ m >= acceptor_vars[d].highest_proposed_n
  <2>1. \A d \in Core : acceptor_vars[d].highest_proposed_n \in Nat \cup {-1}
    BY StateFacts DEF IInv
  <2> QED
    BY <1>1, <1>3, <1>4, <1>9, <2>1
<1>11. Numbers'
  BY <1>3, NumbersKept DEF IInv
<1>12. Requests'
  <2> SUFFICES ASSUME NEW t \in Core, NEW u \in Core, NEW x \in Range(mail'[t][u])
               PROVE  /\ x.sig = "PREPARE_REQUEST" => x.n = Number(u)'
                      /\ x.sig = "ACCEPT_REQUEST" =>
                           /\ x.n = Number(u)' /\ PREPARE_ACCEPT_SENT'[u]
                           /\ \A v \in Value : <<t, Number(u)', v>> \notin accepted'
                           /\ Once(mail'[t][u], {"ACCEPT_REQUEST"})
    BY DEF Requests
  <2>1. x \in Range(mail[t][u]) \/ x = a
    BY <1>3 DEF Follows
  <2>2. CASE x.sig = "ACCEPT_REQUEST"
    <3>1. /\ x \in Range(mail[t][u])
          /\ x.n = Number(u) /\ PREPARE_ACCEPT_SENT[u]
          /\ \A v \in Value : <<t, Number(u), v>> \notin accepted
          /\ Once(mail[t][u], {"ACCEPT_REQUEST"})
      BY <1>5, <2>1, <2>2 DEF IInv, Requests
    <3>2. ~ (t = c /\ u = p)
      BY <1>8, <2>2 DEF Has
    <3>3. t = c => Number(u) # N
      BY <1>1, <1>8, <3>2 DEF IInv, Numbers
    <3>4. \A v \in Value : <<t, Number(u), v>> \notin accepted'
      BY <1>3, <3>1, <3>3
    <3>5. Once(mail'[t][u], {"ACCEPT_REQUEST"})
      BY <1>3, <1>5, <3>1 DEF Follows
    <3> QED
      BY <1>3, <2>2, <3>1, <3>4, <3>5
  <2>3. CASE x.sig = "PREPARE_REQUEST"
    BY <1>3, <1>5, <2>1, <2>3 DEF IInv, Requests
  <2> QED
    BY <2>2, <2>3
<1>13. Replies'
  <2> SUFFICES ASSUME NEW t \in Core, NEW u \in Core, NEW x \in Range(mail'[t][u])
               PROVE  /\ x.sig \in PromiseReply =>
                           /\ <<u, Number(t)>> \in promised'
                           /\ Once(mail'[t][u], PromiseReply)
                      /\ x.sig = "ACCEPTED" =>
                           /\ <<u, Number(t), x.value>> \in accepted'
                           /\ Once(mail'[t][u], {"ACCEPTED"})
    BY <1>3 DEF Replies, Has, PromiseReply
  <2>1. x \in Range(mail[t][u]) \/ (t = p /\ u = c /\ x = a)
    BY <1>3 DEF Follows
  <2>2. ASSUME x.sig \in PromiseReply
        PROVE  /\ <<u, Number(t)>> \in promised'
               /\ Once(mail'[t][u], PromiseReply)
    <3>1. Has(t, u, PromiseReply)
      BY <1>5, <2>1, <2>2 DEF Has
    <3>2. <<u, Number(t)>> \in promised /\ Once(mail[t][u], PromiseReply)
      BY <3>1 DEF IInv, Replies
    <3> QED
      BY <1>3, <1>5, <3>2 DEF Follows
  <2>3. ASSUME x.sig = "ACCEPTED"
        PROVE  /\ <<u, Number(t), x.value>> \in accepted'
               /\ Once(mail'[t][u], {"ACCEPTED"})
    <3>1. CASE t = p /\ u = c
      <4>1. \A y \in Range(mail[t][u]) : y.sig # "ACCEPTED"
        <5> SUFFICES ASSUME NEW y \in Range(mail[t][u]), y.sig = "ACCEPTED"
                     PROVE  FALSE
          OBVIOUS
        <5>1. <<u, Number(t), y.value>> \in accepted
          BY DEF IInv, Replies
        <5>2. y.value \in Value
          BY <5>1, StateFacts DEF IInv
        <5> QED
          BY <1>8, <3>1, <5>1, <5>2
      <4>2. Once(mail[t][u], {"ACCEPTED"})
        BY <4>1, NoneOnce
      <4>3. Once(mail'[t][u], {"ACCEPTED"})
        BY <1>3, <1>5, <4>1, <4>2 DEF Follows
      <4> QED
        BY <1>3, <1>5, <1>8, <2>1, <3>1, <4>1, <4>3, <2>3
    <3>2. CASE ~ (t = p /\ u = c)
      <4>1. Once(mail[t][u], {"ACCEPTED"}) /\ <<u, Number(t), x.value>> \in accepted
        BY <2>1, <2>3, <3>2 DEF IInv, Replies
      <4> QED
        BY <1>3, <1>5, <3>2, <4>1 DEF Follows
    <3> QED
      BY <3>1, <3>2
  <2> QED
    BY <2>2, <2>3
<1>14. Counters'
  <2>1. c \notin AcceptedFor(p)
    BY <1>8 DEF AcceptedFor
  <2>2. \A t \in Core : /\ PromisedTo(t) \subseteq PromisedTo(t)'
                        /\ AcceptedFor(t) \subseteq AcceptedFor(t)'
    BY <1>3, <1>5, <2>1, CountedKept
  <2> QED
    BY <1>2, <1>3, <2>2, CountersKept DEF IInv
<1>15. Acceptors'
  <2>1. \A x \in promised' : acceptor_vars'[x[1]].highest_proposed_n >= x[2]
    <3> SUFFICES ASSUME NEW x \in promised
                 PROVE  acceptor_vars'[x[1]].highest_proposed_n >= x[2]
      BY <1>3
    <3>1. x[1] \in Core /\ x[2] \in Nat
          /\ acceptor_vars[x[1]].highest_proposed_n >= x[2]
          /\ acceptor_vars[x[1]].highest_proposed_n \in Nat \cup {-1}
      BY StateFacts DEF IInv, Acceptors
    <3> QED
      BY <1>10, <3>1
  <2> SUFFICES ASSUME NEW d \in Core
               PROVE  LET x == acceptor_vars'[d]
                      IN  /\ x.highest_acc_n <= x.highest_proposed_n
                          /\ x.highest_acc_value = NoValue <=> x.highest_acc_n = -1
                          /\ x.highest_acc_n # -1 =>
                               <<d, x.highest_acc_n, x.highest_acc_value>> \in accepted'
                          /\ \A n \in Nat, v \in Value :
                               <<d, n, v>> \in accepted' => n <= x.highest_acc_n
    BY <2>1 DEF Acceptors
  <2>2. CASE d = c
    <3>1. /\ acceptor_vars[c].highest_acc_n \in Nat \cup {-1}
          /\ acceptor_vars[c].highest_acc_n <= acceptor_vars[c].highest_proposed_n
          /\ \A n \in Nat, v \in Value :
               <<c, n, v>> \in accepted => n <= acceptor_vars[c].highest_acc_n
      BY StateFacts DEF IInv, Acceptors
    <3>2. \A n \in Nat, v \in Value : <<c, n, v>> \in accepted' => n <= N
      BY <1>1, <1>3, <1>9, <3>1
    <3>3. V # NoValue
      BY <1>1, ValueAssumption
    <3> QED
      BY <1>1, <1>3, <1>4, <2>2, <3>2, <3>3
  <2>3. CASE d # c
    <3>1. \A n, v : <<d, n, v>> \in accepted' <=> <<d, n, v>> \in accepted
      BY <1>3, <2>3
    <3> QED
      BY <1>4, <2>3, <3>1 DEF IInv, Acceptors
  <2> QED
    BY <2>2, <2>3
<1>16. Reports'
  <2> SUFFICES ASSUME NEW t \in Core, NEW u \in Core, NEW x \in Range(mail'[t][u]),
                      x.sig \in PromiseReply
               PROVE  /\ x.sig = "PREPARE_ACCEPT" =>
                         /\ x.n < Number(t)' /\ <<u, x.n, x.value>> \in accepted'
                         /\ \A n \in Nat, v \in Value :
                              <<u, n, v>> \in accepted' /\ n < Number(t)' => n <= x.n
                      /\ x.sig = "PREPARE_ACCEPT_NO_PREVIOUS" =>
                         \A n \in Nat, v \in Value :
                           <<u, n, v>> \in accepted' => n >= Number(t)'
    BY DEF Reports, PromiseReply
  <2>1. x \in Range(mail[t][u])
    BY <1>3, <1>5 DEF Follows
  <2>2. <<u, Number(t)>> \in promised
    BY <2>1 DEF IInv, Replies, Has
  <2>3. /\ acceptor_vars[u].highest_proposed_n >= Number(t)
        /\ acceptor_vars[u].highest_proposed_n \in Nat \cup {-1}
        /\ Number(t) \in Nat \cup {-1}
    BY <2>2, StateFacts DEF IInv, Acceptors
  <2>4. u = c => N >= Number(t)
    BY <1>1, <1>9, <2>3
  <2>5. \A n \in Nat, v \in Value :
          <<u, n, v>> \in accepted' => <<u, n, v>> \in accepted \/ n >= Number(t)
    BY <1>3, <2>4
  <2>6. \A n \in Nat : n < Number(t) => ~ n >= Number(t)
    BY <2>3
  <2> QED
    BY <1>3, <2>1, <2>5, <2>6 DEF IInv, Reports
<1>17. Proposers'
  <2>1. \A t \in Core : PromisedTo(t)' \subseteq PromisedTo(t)
    BY <1>3, <1>5, <1>7, PromisedToSame DEF s
  <2>2. \A t \in Core : Informed(t)'
    BY <1>3, <1>10, <2>1, InformedKept, ProposersParts DEF IInv
  <2>3. Proposers' <=> \A t \in Core : Informed(t)'
    BY DEF Proposers, Informed, Knows
  <2> QED
    BY <2>2, <2>3
<1>18. Offers'
  <2>1. ASSUME NEW n \in Nat, NEW v \in Value, Offered(n, v)'
        PROVE  Offered(n, v)
    <3> DEFINE x == [sig |-> "ACCEPT_REQUEST", n |-> n, value |-> v]
    <3>1. x.sig = "ACCEPT_REQUEST"
      OBVIOUS
    <3>2. Offered(N, V)
      BY <1>1, <1>6 DEF Offered
    <3> HIDE DEF x
    <3>3. \A t, u \in Core : x \in Range(mail'[t][u]) => x \in Range(mail[t][u])
      BY <1>3, <1>5, <3>1 DEF Follows
    <3>4. CASE \E d \in Core : <<d, n, v>> \in accepted'
      BY <1>3, <3>2, <3>4 DEF Offered
    <3>5. CASE \E t, u \in Core : x \in Range(mail'[t][u])
      BY <3>3, <3>5 DEF Offered, x
    <3> QED
      BY <2>1, <3>4, <3>5 DEF Offered, x
  <2> QED
    BY <1>3, <1>10, <2>1, OffersKept DEF IInv
<1>19. Sent'
  BY <1>3, SentKept DEF IInv
<1> QED
  BY <1>2, <1>11, <1>12, <1>13, <1>14, <1>15, <1>16, <1>17, <1>18, <1>19 DEF IInv

LEMMA AcceptRequestStep ==
  ASSUME IInv, NEW c \in Core, NEW p \in Core, AcceptRequest(c, p)
  PROVE  IInv'
<1>1. CASE Accepts(c, p)
  BY <1>1, AcceptsStep
<1>2. CASE TurnsDown(c)
  <2>1. TInv'
    BY AcceptRequestTypes DEF IInv
  <2>2. /\ Head(mail[c][p]).sig = "ACCEPT_REQUEST"
        /\ UNCHANGED <<running, proposalVars, proposer_vars, sentVars, promised>>
    BY AcceptRequestEffect DEF IInv
  <2>3. Stay(mail, mail', c, p)
    <3>1. Handler(c, p) /\ ~ Learn(c, p)
      BY <2>2 DEF Handler, Learn, Receives
    <3> QED
      BY <3>1, HandlersStay DEF IInv
  <2>4. \A t \in Core : PromisedTo(t)' \subseteq PromisedTo(t)
    <3>1. \A t \in Core : Number(t)' = Number(t)
      BY <2>2 DEF Number, proposalVars
    <3>2. Head(mail[c][p]).sig \notin PromiseReply
      BY <2>2 DEF PromiseReply
    <3> HIDE DEF Number
    <3> QED
      BY <2>2, <2>3, <3>1, <3>2, PromisedToSame
  <2> QED
    BY <1>2, <2>1, <2>2, <2>4, QuietStep DEF TurnsDown
<1> QED
  BY <1>1, <1>2, AcceptRequestEffect DEF IInv

\* One more acceptance: all that count are of the value it names, so that a
\* majority of them has chosen it.
LEMMA AcceptedStep ==
  ASSUME IInv, NEW c \in Core, NEW p \in Core, Accepted(c, p)
  PROVE  IInv'
<1> DEFINE s == Head(mail[c][p])
           V == s.value
           N == Number(c)
           l == [sig |-> "LEARN", value |-> V]
           count == proposer_vars[c].cores_accepted + 1
<1>1. /\ s \in Range(mail[c][p]) /\ s.sig = "ACCEPTED" /\ V \in Value
      /\ Follows(mail, mail', c, Core, {l})
      /\ Once(mail[c][p], {"ACCEPTED"}) => ~ Has(c, p, {"ACCEPTED"})'
      /\ proposer_vars' = [proposer_vars EXCEPT ![c] =
           [proposer_vars[c] EXCEPT !.cores_accepted = count]]
      /\ \/ /\ Quorum(count) /\ ~ SIG_LEARN_SENT[c]
            /\ SIG_LEARN_SENT' = [SIG_LEARN_SENT EXCEPT ![c] = TRUE]
            /\ announced' = [announced EXCEPT ![c] = V]
         \/ UNCHANGED <<SIG_LEARN_SENT, announced>>
  BY AcceptedEffect DEF IInv
<1>2. TInv'
  BY AcceptedTypes DEF IInv
<1>3. /\ \A d \in Core : Number(d)' = Number(d)
      /\ UNCHANGED <<running, proposal_number_global, acceptor_vars,
                     PREPARE_ACCEPT_SENT, promised, accepted>>
  BY DEF Accepted, Number, proposalVars
<1>4. /\ proposer_vars'[c].cores_accepted = count
      /\ \A d \in Core :
           /\ proposer_vars'[d].cores_promised = proposer_vars[d].cores_promised
           /\ proposer_vars'[d].highest_replied_n = proposer_vars[d].highest_replied_n
           /\ proposer_vars'[d].highest_replied_value
                = proposer_vars[d].highest_replied_value
           /\ d # c => proposer_vars'[d] = proposer_vars[d]
  <2>1. proposer_vars \in [Core -> ProposerVars]
    BY DEF IInv, TInv, TypeOK, ProposerVars
  <2> HIDE DEF count
  <2> QED
    BY <1>1, <2>1 DEF ProposerVars
<1>5. /\ l.sig = "LEARN" /\ s.sig \notin PromiseReply /\ l.sig \notin PromiseReply
      /\ {"ACCEPTED"} \in Kind
  BY <1>1 DEF PromiseReply, Kind
<1>6. Stay(mail, mail', c, p)
  <2>1. Handler(c, p) /\ ~ Learn(c, p)
    BY <1>1 DEF Handler, Learn, Receives
  <2> QED
    BY <2>1, HandlersStay DEF IInv
<1> HIDE DEF s, V, N, l, count, Number, Kind, PromiseReply
<1>7. <<p, N, V>> \in accepted /\ ~ Has(c, p, {"ACCEPTED"})' /\ N \in Nat
  <2>1. <<p, N, V>> \in accepted /\ Once(mail[c][p], {"ACCEPTED"})
    BY <1>1 DEF IInv, Replies, N, V
  <2> QED
    BY <1>1, <2>1, StateFacts DEF IInv
<1>8. \A t \in Core : PromisedTo(t)' \subseteq PromisedTo(t)
  BY <1>3, <1>5, <1>6, PromisedToSame DEF s
<1>9. Numbers' /\ Acceptors'
  BY <1>3, NumbersKept, AcceptorsKept DEF IInv
<1>10. Requests' /\ Replies' /\ Reports'
  BY <1>1, <1>3, <1>5, RequestsKept, RepliesKept, ReportsKept DEF IInv
<1>11. Counters'
  <2>1. \A t \in Core : /\ PromisedTo(t) \subseteq PromisedTo(t)'
                        /\ AcceptedFor(t) \subseteq AcceptedFor(t)'
    BY <1>1, <1>3, <1>5, CountedKept
  <2>2. Has(c, p, {"ACCEPTED"})
    BY <1>1 DEF Has
  <2>3. p \in AcceptedFor(c)' \ AcceptedFor(c)
    BY <1>1, <1>3, <1>7, <2>2 DEF AcceptedFor, N
  <2> QED
    BY <1>2, <1>4, <2>1, <2>3, CountersKept DEF IInv, count
<1>12. Proposers'
  <2>1. \A t \in Core : Informed(t)'
    BY <1>3, <1>4, <1>8, InformedKept, ProposersParts DEF IInv
  <2>2. Proposers' <=> \A t \in Core : Informed(t)'
    BY DEF Proposers, Informed, Knows
  <2> QED
    BY <2>1, <2>2
<1>13. Offers'
  <2>1. \A n \in Nat, v \in Value : Offered(n, v)' => Offered(n, v)
    BY <1>1, <1>3, <1>5, OfferedKept
  <2>2. \A d \in Core : acceptor_vars'[d].highest_proposed_n
                           >= acceptor_vars[d].highest_proposed_n
                         /\ acceptor_vars'[d].highest_proposed_n \in Nat \cup {-1}
    BY <1>3, StateFacts DEF IInv
  <2> QED
    BY <1>3, <2>1, <2>2, OffersKept DEF IInv
<1>14. ASSUME Quorum(count) PROVE Chosen(N, V)
  <2> DEFINE Q == AcceptedFor(c)'
  <2>1. \A d \in Q : d \in Core /\ <<d, N, V>> \in accepted
    <3> SUFFICES ASSUME NEW d \in Q PROVE d \in Core /\ <<d, N, V>> \in accepted
      OBVIOUS
    <3>1. PICK v \in Value : d \in Core /\ <<d, N, v>> \in accepted
      BY <1>3 DEF AcceptedFor, N
    <3>2. Offered(N, v) /\ Offered(N, V)
      BY <1>7, <3>1 DEF Offered
    <3>3. v = V
      BY <1>1, <1>7, <3>2 DEF IInv, Offers
    <3> QED
      BY <3>1, <3>3
  <2>2. count <= Cardinality(Q) /\ count \in Nat
    BY <1>2, <1>4, <1>11, StateFacts DEF Counters, TInv, TypeOK
  <2> HIDE DEF Q
  <2>3. Q \in SUBSET Core /\ Cardinality(Q) \in Nat
    BY <2>1, CoreSets
  <2>4. Q \in Majority
    BY <1>14, <2>2, <2>3, ClusterAssumption DEF Majority, Quorum, majority
  <2> QED
    BY <2>1, <2>4 DEF Chosen
<1>15. Sent'
  <2> SUFFICES ASSUME NEW d \in Core
               PROVE  /\ PREPARE_ACCEPT_SENT[d] =>
                           {e \in Core : <<e, Number(d)>> \in promised} \in Majority
                      /\ ~ SIG_LEARN_SENT'[d] => announced'[d] = NoValue
                      /\ announced'[d] # NoValue =>
                           /\ announced'[d] \in Value
                           /\ Chosen(Number(d), announced'[d])
    BY <1>3 DEF Sent, Chosen, Majority, Quorum, majority
  <2>1. /\ SIG_LEARN_SENT \in [Core -> BOOLEAN]
        /\ announced \in [Core -> Value \cup {NoValue}]
    BY DEF IInv, TInv, TypeOK
  <2>2. CASE SIG_LEARN_SENT'[d] = SIG_LEARN_SENT[d] /\ announced'[d] = announced[d]
    BY <2>2 DEF IInv, Sent
  <2>3. CASE d = c /\ Quorum(count) /\ SIG_LEARN_SENT'[d] /\ announced'[d] = V
    BY <1>1, <1>14, <2>3 DEF IInv, Sent, N
  <2> QED
    BY <1>1, <2>1, <2>2, <2>3
<1> QED
  BY <1>2, <1>9, <1>10, <1>11, <1>12, <1>13, <1>15 DEF IInv

\* An old request is dropped; a process that learns exits with its mail.
LEMMA QuietHandlersStep ==
  ASSUME IInv, NEW c \in Core, NEW p \in Core,
         PrepareRequestOld(c, p) \/ Learn(c, p)
  PROVE  IInv'
<1>1. /\ Follows(mail, mail', c, {}, {})
      /\ \A d \in Core : running'[d] => running[d]
      /\ running' \in [Core -> BOOLEAN]
      /\ UNCHANGED <<proposalVars, acceptor_vars, proposer_vars, sentVars,
                     promised, accepted>>
  BY QuietHandlers DEF IInv
<1>2. TInv'
  BY <1>1, QuietTypes DEF IInv
<1>3. \A t \in Core : Number(t)' = Number(t)
  BY <1>1 DEF Number, proposalVars
<1> HIDE DEF Number
<1>4. ASSUME NEW t \in Core, running'[t]
      PROVE  PromisedTo(t)' \subseteq PromisedTo(t)
  <2>1. CASE PrepareRequestOld(c, p)
    <3>1. Head(mail[c][p]).sig = "PREPARE_REQUEST"
      BY <2>1 DEF PrepareRequestOld, Receives
    <3>2. Handler(c, p) /\ ~ Learn(c, p)
      BY <2>1, <3>1 DEF Handler, Learn, Receives
    <3>3. Stay(mail, mail', c, p)
      BY <3>2, HandlersStay DEF IInv
    <3>4. Head(mail[c][p]).sig \notin PromiseReply
      BY <3>1 DEF PromiseReply
    <3> QED
      BY <1>1, <1>3, <3>3, <3>4, PromisedToSame
  <2>2. CASE Learn(c, p)
    <3>1. t # c
      BY <1>4, <2>2 DEF Learn, IInv, TInv, TypeOK
    <3>2. mail'[t] = mail[t]
      BY <2>2, <3>1 DEF Learn, IInv, TInv, TypeOK
    <3> QED
      BY <1>1, <1>3, <3>2 DEF PromisedTo, Has
  <2> QED
    BY <2>1, <2>2
<1> QED
  BY <1>1, <1>2, <1>4, QuietStep

LEMMA StepInv == ~ Redetect /\ IInv /\ [Next]_vars => IInv'
<1> SUFFICES ASSUME ~ Redetect, IInv, [Next]_vars PROVE IInv'
  OBVIOUS
<1>1. ASSUME NEW c \in Core, Detect(c) PROVE IInv'
  BY <1>1, DetectStep
<1>2. ASSUME NEW c \in Core, NEW p \in Core, Handler(c, p) PROVE IInv'
  BY <1>2, PrepareRequestStep, PromiseStep, AcceptRequestStep, AcceptedStep,
     QuietHandlersStep DEF Handler
<1>3. CASE UNCHANGED vars
  <2>1. UNCHANGED <<running, proposal_number_global, proposal_number_personal,
                    acceptor_vars, proposer_vars, PREPARE_ACCEPT_SENT,
                    SIG_LEARN_SENT, mail, promised, accepted, announced>>
    BY <1>3 DEF vars, proposalVars, sentVars
  <2>2. /\ TInv' <=> TInv
        /\ Numbers' <=> Numbers
        /\ Acceptors' <=> Acceptors
    BY <2>1, StepTypes DEF IInv, TInv, TypeOK, Valued, Has, Number, Numbers, Acceptors
  <2>3. /\ Requests' <=> Requests
        /\ Replies' <=> Replies
        /\ Reports' <=> Reports
    BY <2>1 DEF Requests, Replies, Reports, Has, Number
  <2>4. /\ Counters' <=> Counters
        /\ Proposers' <=> Proposers
    BY <2>1 DEF Counters, Proposers, PromisedTo, AcceptedFor, Has, Number
  <2>5. /\ Offers' <=> Offers
        /\ Sent' <=> Sent
    BY <2>1 DEF Offers, Sent, Offered, SafeAt, WontAccept, Chosen, Majority,
      Quorum, majority, Number
  <2> QED
    BY <2>2, <2>3, <2>4, <2>5 DEF IInv
<1> QED
  BY <1>1, <1>2, <1>3 DEF Next
-----------------------------------------------------------------------------
\* Where a core suspects the controller once, the invariant holds.
THEOREM Invariance == ~ Redetect => (Spec => []IInv)
<1> SUFFICES ASSUME ~ Redetect PROVE Spec => []IInv
  OBVIOUS
<1>1. Init => IInv
  BY InitInv
<1>2. IInv /\ [Next]_vars => IInv'
  BY StepInv
<1> QED
  BY <1>1, <1>2, PTL DEF Spec

\* Two cores that accepted for one number accepted one value, and an acceptor
\* never goes below what it promised.
THEOREM OneValueHolds == ~ Redetect => (Spec => []OneValue)
<1> SUFFICES ASSUME ~ Redetect PROVE Spec => []OneValue
  OBVIOUS
<1>1. ASSUME IInv PROVE OneValue
  <2>1. ASSUME NEW c \in Core, NEW d \in Core,
               acceptor_vars[c].highest_acc_n = acceptor_vars[d].highest_acc_n
        PROVE  acceptor_vars[c].highest_acc_value = acceptor_vars[d].highest_acc_value
    <3> DEFINE n == acceptor_vars[c].highest_acc_n
               v == acceptor_vars[c].highest_acc_value
               w == acceptor_vars[d].highest_acc_value
    <3>1. CASE n = -1
      BY <1>1, <2>1, <3>1 DEF IInv, Acceptors
    <3>2. CASE n # -1
      <4>1. <<c, n, v>> \in accepted /\ <<d, n, w>> \in accepted
        BY <1>1, <2>1, <3>2 DEF IInv, Acceptors
      <4> HIDE DEF n, v, w
      <4>2. n \in Nat /\ v \in Value /\ w \in Value
        BY <1>1, <4>1, StateFacts DEF IInv
      <4>3. Offered(n, v) /\ Offered(n, w)
        BY <4>1 DEF Offered
      <4>4. v = w
        BY <1>1, <4>2, <4>3 DEF IInv, Offers
      <4> QED
        BY <4>4 DEF v, w
    <3> QED
      BY <3>1, <3>2
  <2> QED
    BY <1>1, <2>1 DEF OneValue, IInv, Acceptors
<1>2. Spec => []IInv
  BY Invariance
<1> QED
  BY <1>1, <1>2, PTL

\* Nobody is asked to accept before a majority has promised for the number used.
THEOREM PromisedByMajorityHolds == ~ Redetect => (Spec => []PromisedByMajority)
<1> SUFFICES ASSUME ~ Redetect PROVE Spec => []PromisedByMajority
  OBVIOUS
<1>1. ASSUME IInv PROVE PromisedByMajority
  <2> SUFFICES ASSUME NEW c \in Core, NEW p \in Core, NEW i \in DOMAIN mail[c][p],
                      mail[c][p][i].sig = "ACCEPT_REQUEST"
               PROVE  Cardinality({d \in Core : <<d, mail[c][p][i].n>> \in promised})
                        >= majority(Cardinality(Core))
    BY DEF PromisedByMajority
  <2>1. mail[c][p][i] \in Range(mail[c][p])
    BY DEF Range
  <2>2. mail[c][p][i].n = Number(p) /\ PREPARE_ACCEPT_SENT[p]
    BY <1>1, <2>1 DEF IInv, Requests
  <2> DEFINE Q == {d \in Core : <<d, Number(p)>> \in promised}
  <2>3. Q \in Majority
    BY <1>1, <2>2 DEF IInv, Sent
  <2> SUFFICES Cardinality(Q) >= majority(Cardinality(Core))
    BY <2>2
  <2> HIDE DEF Q
  <2>4. Cardinality(Q) \in Nat /\ Cardinality(Core) \in Nat
    BY <2>3, ClusterAssumption, FS_CardinalityType, CoreSets DEF Majority
  <2> QED
    BY <2>3, <2>4, ClusterAssumption DEF Majority, Quorum, majority
<1>2. Spec => []IInv
  BY Invariance
<1> QED
  BY <1>1, <1>2, PTL

\* Once a value is chosen at a number, no other one is at that number or above.
LEMMA OneChosen ==
  ASSUME IInv, NEW m \in Nat, NEW n \in Nat, NEW v \in Value, NEW w \in Value,
         Chosen(m, v), Chosen(n, w), m <= n
  PROVE  v = w
<1>1. PICK Q \in Majority : \A d \in Q : <<d, m, v>> \in accepted
  BY DEF Chosen
<1>2. PICK R \in Majority : \A d \in R : <<d, n, w>> \in accepted
  BY DEF Chosen
<1>3. Q \in SUBSET Core /\ R \in SUBSET Core /\ Q # {} /\ R # {}
  BY Majorities DEF Majority
<1>4. Offered(m, v) /\ Offered(n, w)
  BY <1>1, <1>2, <1>3 DEF Offered
<1>5. CASE m = n
  BY <1>4, <1>5 DEF IInv, Offers
<1>6. CASE m # n
  <2>1. SafeAt(n, w) /\ m \in 0..(n - 1)
    BY <1>4, <1>6 DEF IInv, Offers
  <2>2. PICK U \in Majority : \A d \in U :
          <<d, m, w>> \in accepted \/ WontAccept(d, m)
    BY <2>1 DEF SafeAt
  <2>3. PICK d \in Core : d \in Q /\ d \in U
    <3>1. U \in SUBSET Core
      BY DEF Majority
    <3> QED
      BY <1>3, <3>1, CoreSets
  <2>4. <<d, m, v>> \in accepted /\ ~ WontAccept(d, m)
    BY <1>1, <2>3 DEF WontAccept
  <2>5. Offered(m, w)
    BY <2>2, <2>3, <2>4 DEF Offered
  <2> QED
    BY <1>4, <2>5 DEF IInv, Offers
<1> QED
  BY <1>5, <1>6

Alike ==
  \A c, d \in Core : announced[c] # NoValue /\ announced[d] # NoValue =>
    announced[c] = announced[d]

LEMMA OneAnnounced == IInv => Alike
<1> SUFFICES ASSUME IInv, NEW c \in Core, NEW d \in Core,
                    announced[c] # NoValue, announced[d] # NoValue
             PROVE  announced[c] = announced[d]
  BY DEF Alike
<1> HIDE DEF Number
<1>1. /\ announced[c] \in Value /\ Chosen(Number(c), announced[c])
      /\ announced[d] \in Value /\ Chosen(Number(d), announced[d])
  BY DEF IInv, Sent
<1>2. Number(c) \in Nat /\ Number(d) \in Nat
  <2>1. \A n, v : Chosen(n, v) => \E e \in Core : <<e, n, v>> \in accepted
    BY Majorities DEF Chosen, Majority
  <2>2. \A e, n, v : <<e, n, v>> \in accepted => n \in Nat
    BY StateFacts DEF IInv
  <2> QED
    BY <1>1, <2>1, <2>2
<1>3. Number(c) <= Number(d) \/ Number(d) <= Number(c)
  BY <1>2
<1> QED
  BY <1>1, <1>2, <1>3, OneChosen

\* The election implements Consensus: all cores that announce a new controller
\* announce the same one.
THEOREM AgreementHolds == ~ Redetect => (Spec => Agreement)
<1> SUFFICES ASSUME ~ Redetect PROVE Spec => Agreement
  OBVIOUS
<1>1. Init => C!Init
  BY DEF Init, C!Init
<1>2. IInv /\ Alike' /\ [Next]_vars => [C!Next]_announced
  <2> SUFFICES ASSUME IInv, Alike', [Next]_vars, announced' # announced
               PROVE  C!Next
    OBVIOUS
  <2>1. PICK c \in Core, p \in Core : Accepted(c, p)
    BY ZenonT(30) DEF Next, Handler, Detect, PrepareRequestOld, PrepareRequest,
      PrepareAcceptNoPrevious, PrepareAccept, AcceptRequest, Learn, vars, sentVars
  <2> DEFINE v == Head(mail[c][p]).value
  <2>2. /\ v \in Value /\ ~ SIG_LEARN_SENT[c]
        /\ announced' = [announced EXCEPT ![c] = v]
    BY <2>1, AcceptedEffect DEF IInv
  <2> HIDE DEF v
  <2>3. announced \in [Core -> Value \cup {NoValue}] /\ v # NoValue
    BY <2>2, ValueAssumption DEF IInv, TInv, TypeOK
  <2>4. announced[c] = NoValue /\ announced'[c] = v
    BY <2>2, <2>3 DEF IInv, Sent
  <2>5. \A d \in Core : announced[d] \in {NoValue, v}
    <3> SUFFICES ASSUME NEW d \in Core, announced[d] # NoValue
                 PROVE  announced[d] = v
      OBVIOUS
    <3>1. announced'[d] = announced[d]
      BY <2>2, <2>3, <2>4
    <3> QED
      BY <2>3, <2>4, <3>1 DEF Alike
  <2> QED
    BY <2>2, <2>4, <2>5 DEF C!Next, C!Announce
<1>3. IInv => Alike
  BY OneAnnounced
<1>4. Spec => []IInv
  BY Invariance
<1> QED
  BY <1>1, <1>2, <1>3, <1>4, PTL DEF Spec, Agreement, C!Spec
=============================================================================
