------------------------- MODULE SelfOptTypeProofs --------------------------
(***************************************************************************)
(* Proofs about SelfOpt, for any number of controllers, managers and       *)
(* cores: every variable has its type, and my_cores_count counts the list  *)
(* of a manager.                                                           *)
(*                                                                         *)
(* The invariant joins what SelfOptListProofs says of lists and queues     *)
(* with the books: a controller never counts fewer free cores than it has, *)
(* the ones on offer included (Covered).                                   *)
(***************************************************************************)
EXTENDS SelfOptListProofs

-----------------------------------------------------------------------------
(* The free cores of a controller.                                           *)
\* What the controller is to give or has on offer, and to whom.
Liable(c) ==
  {y \in Node \X Core :
     IF y[1] = c
     THEN y[2] \in DOMAIN book[c].offered_to
          /\ book[c].offered_to[y[2]] = NotOffered
     ELSE y[1] \in Agent /\ Lends(inter[c][y[1]], y[2])}
Tag(n, S) == {<<n, x>> : x \in S}
Bookish(b, c) ==
  /\ b = [offered_to |-> b.offered_to, free |-> b.free, dds |-> b.dds]
  /\ DOMAIN b.offered_to = {x \in Given : idag_mask[x] = c}
  /\ Range(b.offered_to) \subseteq Agent \cup {NotOffered, Elsewhere}
  /\ DOMAIN b.dds \subseteq Agent
\* The count of free cores covers them.
Covered(c) ==
  /\ Bookish(book[c], c)
  /\ book[c].free \in Nat /\ Cardinality(Liable(c)) <= book[c].free
Booked == \A c \in Controller : Covered(c)
LEMMA FiniteNodes ==
  IsFiniteSet(Node) /\ IsFiniteSet(Core) /\ IsFiniteSet(Node \X Core)
<1>1. IsFiniteSet(Core) /\ Node \subseteq Core
  BY ClusterAssumption DEF Core
<1>2. IsFiniteSet(Node)
  BY <1>1, FS_Subset
<1> QED
  BY <1>1, <1>2, FS_Product
LEMMA TagIs ==
  ASSUME NEW n, NEW S, IsFiniteSet(S)
  PROVE  IsFiniteSet(Tag(n, S)) /\ Cardinality(Tag(n, S)) = Cardinality(S)
<1>1. PICK f : f = [x \in S |-> <<n, x>>]
  OBVIOUS
<1>2. f \in [S -> Tag(n, S)] /\ \A x \in S : f[x] = <<n, x>>
  BY <1>1 DEF Tag
<1>3. \A x, y \in S : f[x] = f[y] => x = y
  BY <1>2
<1>4. \A t \in Tag(n, S) : \E x \in S : f[x] = t
  BY <1>2 DEF Tag
<1>5. f \in Bijection(S, Tag(n, S))
  BY <1>2, <1>3, <1>4 DEF Bijection, Injection, Surjection, IsInjective
<1>6. ExistsBijection(S, Tag(n, S))
  BY <1>5 DEF ExistsBijection
<1> QED
  BY <1>6, FS_Bijection
\* S pairs go and T pairs come.
LEMMA StillCovered ==
  ASSUME NEW L, IsFiniteSet(L), NEW f \in Nat, Cardinality(L) <= f,
         NEW A, A \subseteq L, NEW B1, IsFiniteSet(B1),
         NEW M, M \subseteq (L \ A) \cup B1,
         NEW g, g = f - Cardinality(A) + Cardinality(B1)
  PROVE  g \in Nat /\ Cardinality(M) <= g
<1>1. IsFiniteSet(A) /\ IsFiniteSet(L \ A) /\ IsFiniteSet((L \ A) \cup B1)
  BY FS_Subset, FS_Difference, FS_Union
<1>2. IsFiniteSet(M) /\ Cardinality(M) <= Cardinality((L \ A) \cup B1)
  BY <1>1, FS_Subset
<1>3. Cardinality(L \ A) = Cardinality(L) - Cardinality(L \cap A) /\ L \cap A = A
  BY FS_Difference
<1>4. /\ IsFiniteSet((L \ A) \cap B1)
      /\ Cardinality((L \ A) \cup B1) =
           Cardinality(L \ A) + Cardinality(B1) - Cardinality((L \ A) \cap B1)
  <2>1. IsFiniteSet((L \ A) \cap B1)
    BY <1>1, FS_Subset
  <2> QED
    BY <1>1, <2>1, FS_Union
<1>5. /\ Cardinality(M) \in Nat /\ Cardinality(L) \in Nat /\ Cardinality(A) \in Nat
      /\ Cardinality(L \ A) \in Nat /\ Cardinality(B1) \in Nat
      /\ Cardinality((L \ A) \cap B1) \in Nat
      /\ Cardinality((L \ A) \cup B1) \in Nat
  BY <1>1, <1>2, <1>4, FS_CardinalityType
<1>6. Cardinality(L \ A) = Cardinality(L) - Cardinality(A)
  BY <1>3
<1> QED
  BY <1>2, <1>4, <1>5, <1>6

LEMMA LiableIs ==
  ASSUME NEW c \in Controller
  PROVE  /\ IsFiniteSet(Liable(c))
         /\ \A y \in Liable(c) : y[1] \in Node /\ y[2] \in Core /\ y = <<y[1], y[2]>>
         /\ \A x : <<c, x>> \in Liable(c) <=>
              /\ x \in Core /\ x \in DOMAIN book[c].offered_to
              /\ book[c].offered_to[x] = NotOffered
         /\ \A n \in Agent : \A x : <<n, x>> \in Liable(c) <=>
              x \in Core /\ Lends(inter[c][n], x)
         /\ \A y \in Liable(c) : y[1] # c => y[1] \in Agent
<1>1. Liable(c) \subseteq Node \X Core
  BY DEF Liable
<1>2. IsFiniteSet(Liable(c))
  BY <1>1, FiniteNodes, FS_Subset
<1>3. c \in Node /\ c \notin Agent /\ Agent \subseteq Node
  BY ClusterAssumption DEF Node
<1>4. ASSUME NEW x
      PROVE  <<c, x>> \in Liable(c) <=>
               /\ x \in Core /\ x \in DOMAIN book[c].offered_to
               /\ book[c].offered_to[x] = NotOffered
  BY <1>3 DEF Liable
<1>5. ASSUME NEW n \in Agent, NEW x
      PROVE  <<n, x>> \in Liable(c) <=> x \in Core /\ Lends(inter[c][n], x)
  BY <1>3 DEF Liable
<1>6. /\ \A y \in Liable(c) : y[1] \in Node /\ y[2] \in Core /\ y = <<y[1], y[2]>>
      /\ \A y \in Liable(c) : y[1] # c => y[1] \in Agent
  BY DEF Liable
<1> QED
  BY <1>2, <1>4, <1>5, <1>6
LEMMA LiableStays ==
  ASSUME NEW c \in Controller, NEW M,
         \A x \in Core : <<c, x>> \in Liable(c)' => <<c, x>> \in M,
         \A p \in Agent : \A x \in Core : <<p, x>> \in Liable(c)' => <<p, x>> \in M
  PROVE  Liable(c)' \subseteq M
<1>1. \A y \in Liable(c)' :
        /\ y = <<y[1], y[2]>> /\ y[2] \in Core
        /\ y[1] = c \/ y[1] \in Agent
  BY DEF Liable
<1> QED
  BY <1>1

\* A book whose controller gives away the cores of S and gets those of T.
LEMMA BookCovered ==
  ASSUME NEW c \in Controller, Covered(c), Bookish(book'[c], c),
         NEW m, NEW k, NEW S \in SUBSET Core, NEW T \in SUBSET Core,
         Tag(m, S) \subseteq Liable(c),
         Liable(c)' \subseteq (Liable(c) \ Tag(m, S)) \cup Tag(k, T),
         book'[c].free = book[c].free - Cardinality(S) + Cardinality(T)
  PROVE  Covered(c)'
<1>1. IsFiniteSet(Liable(c)) /\ IsFiniteSet(S) /\ IsFiniteSet(T)
  BY LiableIs, FiniteNodes, FS_Subset
<1>2. /\ IsFiniteSet(Tag(k, T)) /\ Cardinality(Tag(k, T)) = Cardinality(T)
      /\ Cardinality(Tag(m, S)) = Cardinality(S)
  BY <1>1, TagIs
<1>3. PICK A, B1, L, M : /\ A = Tag(m, S) /\ B1 = Tag(k, T) /\ L = Liable(c)
                         /\ M = Liable(c)'
  OBVIOUS
<1>4. PICK f, g : f = book[c].free /\ g = book'[c].free
  OBVIOUS
<1>5. f \in Nat /\ Cardinality(L) <= f
  BY <1>3, <1>4 DEF Covered
<1>6. g \in Nat /\ Cardinality(M) <= g
  BY <1>1, <1>2, <1>3, <1>4, <1>5, StillCovered
<1> QED
  BY <1>3, <1>4, <1>6 DEF Covered

\* Nothing of the controller's changes.
LEMMA OthersCovered ==
  ASSUME OInv, Booked, NEW n \in Node, NEW P, NEW R, NEW N,
         Acts(n, P, R, N) \/ Heeds(n, P), NEW c \in Controller,
         Heeds(n, P) \/ n # c \/ N = {}, book'[c] = book[c]
  PROVE  Covered(c)'
<1>1. PICK S, L : S = {} /\ L = Liable(c)
  OBVIOUS
<1>2. Tag(c, S) = {} /\ S \subseteq Core /\ Cardinality(S) = 0
  BY <1>1, FS_EmptySet DEF Tag
<1>3. \A x \in Core : <<c, x>> \in Liable(c)' => <<c, x>> \in L
  BY <1>1, ClusterAssumption DEF Liable, Node
<1>4. ASSUME NEW p \in Agent, NEW x \in Core, <<p, x>> \in Liable(c)'
      PROVE  <<p, x>> \in L
  <2>1. c \in Node /\ p \in Node /\ p # c
    BY ClusterAssumption DEF Node
  <2>2. Lends(inter'[c][p], x)
    BY <1>4, <2>1 DEF Liable
  <2>3. Lends(inter[c][p], x)
    BY <2>1, <2>2, NotLending
  <2> QED
    BY <1>1, <2>3, LiableIs
<1>5. Liable(c)' \subseteq L
  BY <1>3, <1>4, LiableStays
<1>6. /\ Tag(c, S) \subseteq Liable(c)
      /\ Liable(c)' \subseteq (Liable(c) \ Tag(c, S)) \cup Tag(c, S)
  BY <1>1, <1>2, <1>5
<1>7. Covered(c) /\ Bookish(book'[c], c)
  BY DEF Booked, Covered
<1>8. book'[c].free = book[c].free - Cardinality(S) + Cardinality(S)
  BY <1>2, <1>7 DEF Covered
<1> QED
  BY <1>2, <1>6, <1>7, <1>8, BookCovered

-----------------------------------------------------------------------------
(* What the operators on books do.                                           *)
LEMMA SameCardinality ==
  ASSUME NEW S
  PROVE  B!Cardinality(S) = Cardinality(S)
BY DEF B!Cardinality, Cardinality
LEMMA BookParts ==
  ASSUME NEW b, NEW c, Bookish(b, c), NEW M, NEW f, NEW D, D \subseteq Agent,
         DOMAIN M = DOMAIN b.offered_to,
         \A x \in DOMAIN b.offered_to :
           M[x] \in Agent \cup {NotOffered, Elsewhere} \cup {b.offered_to[x]},
         NEW d, DOMAIN d = D, NEW r, r = [offered_to |-> M, free |-> f, dds |-> d]
  PROVE  /\ Bookish(r, c) /\ r.offered_to = M /\ r.free = f
<1>1. r.offered_to = M /\ r.free = f /\ r.dds = d
  OBVIOUS
<1>2. \A x \in DOMAIN b.offered_to : b.offered_to[x] \in Range(b.offered_to)
  BY DEF Range
<1>3. \A x \in DOMAIN M : M[x] \in Agent \cup {NotOffered, Elsewhere}
  BY <1>2 DEF Bookish
<1>4. Range(M) \subseteq Agent \cup {NotOffered, Elsewhere}
  BY <1>3 DEF Range
<1> QED
  BY <1>1, <1>4 DEF Bookish
LEMMA OfferToIs ==
  ASSUME NEW b, NEW c, Bookish(b, c), NEW S, NEW p \in Agent, NEW r,
         r = B!OfferTo(b, S, p)
  PROVE  /\ Bookish(r, c) /\ r.free = b.free
         /\ DOMAIN r.offered_to = DOMAIN b.offered_to
         /\ \A x \in DOMAIN b.offered_to :
              r.offered_to[x] = IF x \in S THEN p ELSE b.offered_to[x]
<1>1. PICK M : M = [x \in DOMAIN b.offered_to |->
                      IF x \in S THEN p ELSE b.offered_to[x]]
  OBVIOUS
<1>2. r = [b EXCEPT !.offered_to = M]
  BY <1>1 DEF B!OfferTo, Bookish
<1>3. r = [offered_to |-> M, free |-> b.free, dds |-> b.dds]
  BY <1>2 DEF Bookish
<1>4. /\ DOMAIN M = DOMAIN b.offered_to
      /\ \A x \in DOMAIN b.offered_to :
           M[x] = IF x \in S THEN p ELSE b.offered_to[x]
  BY <1>1
<1>5. /\ \A x \in DOMAIN b.offered_to :
           M[x] \in Agent \cup {NotOffered, Elsewhere} \cup {b.offered_to[x]}
      /\ DOMAIN b.dds \subseteq Agent
  BY <1>4 DEF Bookish
<1>6. Bookish(r, c) /\ r.offered_to = M /\ r.free = b.free
  BY <1>3, <1>4, <1>5, BookParts
<1> QED
  BY <1>4, <1>6
\* An offer comes back.
LEMMA OfferBackIs ==
  ASSUME NEW b, NEW c, Bookish(b, c), NEW S, NEW p, NEW r,
         r = B!OfferRefused(b, S, p) \/ r = B!OfferRejected(b, S)
  PROVE  /\ Bookish(r, c) /\ r.free = b.free
         /\ DOMAIN r.offered_to = DOMAIN b.offered_to
         /\ \A x \in DOMAIN b.offered_to : r.offered_to[x] = NotOffered =>
              b.offered_to[x] = NotOffered \/ x \in S
<1>1. PICK M :
        /\ M = [x \in DOMAIN b.offered_to |->
                  IF x \in S /\ (b.offered_to[x] = p \/ r = B!OfferRejected(b, S))
                  THEN NotOffered ELSE b.offered_to[x]]
  OBVIOUS
<1>2. r = [b EXCEPT !.offered_to = M]
  <2>1. CASE r = B!OfferRejected(b, S)
    <3>1. M = [x \in DOMAIN b.offered_to |->
                 IF x \in S THEN NotOffered ELSE b.offered_to[x]]
      BY <1>1, <2>1
    <3> QED
      BY <2>1, <3>1 DEF B!OfferRejected, Bookish
  <2>2. CASE r # B!OfferRejected(b, S)
    <3>1. M = [x \in DOMAIN b.offered_to |->
                 IF x \in S /\ b.offered_to[x] = p THEN NotOffered
                 ELSE b.offered_to[x]]
      BY <1>1, <2>2
    <3> QED
      BY <2>2, <3>1 DEF B!OfferRefused, Bookish
  <2> QED
    BY <2>1, <2>2
<1>3. r = [offered_to |-> M, free |-> b.free, dds |-> b.dds]
  BY <1>2 DEF Bookish
<1>4. /\ DOMAIN M = DOMAIN b.offered_to
      /\ \A x \in DOMAIN b.offered_to :
           M[x] = b.offered_to[x] \/ (x \in S /\ M[x] = NotOffered)
  BY <1>1
<1>5. /\ \A x \in DOMAIN b.offered_to :
           M[x] \in Agent \cup {NotOffered, Elsewhere} \cup {b.offered_to[x]}
      /\ DOMAIN b.dds \subseteq Agent
  BY <1>4 DEF Bookish
<1>6. Bookish(r, c) /\ r.offered_to = M /\ r.free = b.free
  BY <1>3, <1>4, <1>5, BookParts
<1> QED
  BY <1>4, <1>6
LEMMA OfferAcceptedIs ==
  ASSUME NEW b, NEW c, Bookish(b, c), NEW S, NEW r, r = B!OfferAccepted(b, S)
  PROVE  /\ Bookish(r, c) /\ r.free = b.free - Cardinality(S)
         /\ r.offered_to = b.offered_to
<1>1. r = [b EXCEPT !.free = b.free - Cardinality(S)]
  BY SameCardinality DEF B!OfferAccepted, Bookish
<1>2. r = [offered_to |-> b.offered_to, free |-> b.free - Cardinality(S),
           dds |-> b.dds]
  BY <1>1 DEF Bookish
<1>3. /\ r.offered_to = b.offered_to /\ r.free = b.free - Cardinality(S)
      /\ r.dds = b.dds
  BY <1>2
<1> QED
  BY <1>2, <1>3 DEF Bookish
Added(b, S, p, cnt, r) == r = B!AddCores(b, S, p, cnt)
FreeOf(b, S, U) == \A x : x \in U <=> x \in S /\ b.offered_to[x] = NotOffered
LEMMA AddCoresIs ==
  ASSUME NEW b, NEW c, Bookish(b, c), NEW S, NEW p, p \in Agent, NEW cnt, NEW r,
         Added(b, S, p, cnt, r), NEW U, FreeOf(b, S, U)
  PROVE  /\ Bookish(r, c)
         /\ r.free = b.free - Cardinality(U)
         /\ DOMAIN r.offered_to = DOMAIN b.offered_to
         /\ \A x \in DOMAIN b.offered_to :
              r.offered_to[x] = IF x \in S THEN p ELSE b.offered_to[x]
<1>1. PICK M, f, d :
        /\ M = [x \in DOMAIN b.offered_to |->
                  IF x \in S THEN p ELSE b.offered_to[x]]
        /\ f = b.free - Cardinality(U)
        /\ d = B!AddToEntry(b.dds, p, cnt)
  OBVIOUS
<1>2. r = [offered_to |-> M, free |-> f, dds |-> d]
  <2>1. U = {x \in S : b.offered_to[x] = NotOffered}
    BY DEF FreeOf
  <2> QED
    BY <1>1, <2>1, SameCardinality DEF Added, B!AddCores
<1>3. PICK D : D = DOMAIN b.dds \cup {p}
  OBVIOUS
<1>4. /\ DOMAIN M = DOMAIN b.offered_to /\ DOMAIN d = D /\ D \subseteq Agent
      /\ \A x \in DOMAIN b.offered_to :
           M[x] = IF x \in S THEN p ELSE b.offered_to[x]
  BY <1>1, <1>3 DEF B!AddToEntry, Bookish
<1>5. \A x \in DOMAIN b.offered_to :
        M[x] \in Agent \cup {NotOffered, Elsewhere} \cup {b.offered_to[x]}
  BY <1>4
<1>6. Bookish(r, c) /\ r.offered_to = M /\ r.free = f
  BY <1>2, <1>4, <1>5, BookParts
<1> QED
  BY <1>1, <1>4, <1>6
LEMMA RemCoresIs ==
  ASSUME NEW b, NEW c, Bookish(b, c), NEW S, NEW old, NEW p \in Agent, NEW cnt,
         NEW r, r = B!RemCores(b, S, old, p, cnt)
  PROVE  /\ Bookish(r, c) /\ r.free = b.free
         /\ DOMAIN r.offered_to = DOMAIN b.offered_to
         /\ \A x \in DOMAIN b.offered_to : r.offered_to[x] = NotOffered =>
              b.offered_to[x] = NotOffered
<1>1. PICK M, d :
        /\ M = [x \in DOMAIN b.offered_to |->
                  CASE x \in S /\ b.offered_to[x] = NotOffered -> p
                    [] x \in S /\ b.offered_to[x] = old -> Elsewhere
                    [] OTHER -> b.offered_to[x]]
        /\ d = B!TakeFromEntry(b.dds, old, cnt)
  OBVIOUS
<1>2. r = [b EXCEPT !.offered_to = M, !.dds = d]
  BY <1>1 DEF B!RemCores, Bookish
<1>3. r = [offered_to |-> M, free |-> b.free, dds |-> d]
  BY <1>2 DEF Bookish
<1>4. DOMAIN M = DOMAIN b.offered_to
  BY <1>1
<1>5. ASSUME NEW x \in DOMAIN b.offered_to
      PROVE  /\ M[x] \in Agent \cup {NotOffered, Elsewhere} \cup {b.offered_to[x]}
             /\ M[x] = NotOffered => b.offered_to[x] = NotOffered
  <2>1. M[x] = CASE x \in S /\ b.offered_to[x] = NotOffered -> p
                 [] x \in S /\ b.offered_to[x] = old -> Elsewhere
                 [] OTHER -> b.offered_to[x]
    BY <1>1
  <2>2. Elsewhere # NotOffered
    BY ClusterAssumption
  <2> QED
    BY <2>1, <2>2
<1>6. PICK D : D = DOMAIN d
  OBVIOUS
<1>7. D \subseteq Agent
  <2>1. CASE old \notin DOMAIN b.dds
    BY <1>1, <1>6, <2>1 DEF B!TakeFromEntry, Bookish
  <2>2. CASE old \in DOMAIN b.dds
    <3>1. PICK left : left = b.dds[old] - cnt
      OBVIOUS
    <3>2. PICK Q : Q = IF left = 0 THEN DOMAIN b.dds \ {old} ELSE DOMAIN b.dds
      OBVIOUS
    <3>3. d = [a \in Q |-> IF a = old THEN left ELSE b.dds[a]]
      BY <1>1, <2>2, <3>1, <3>2 DEF B!TakeFromEntry
    <3> QED
      BY <1>6, <3>2, <3>3 DEF Bookish
  <2> QED
    BY <2>1, <2>2
<1>8. Bookish(r, c) /\ r.offered_to = M /\ r.free = b.free
  BY <1>3, <1>4, <1>5, <1>6, <1>7, BookParts
<1> QED
  BY <1>4, <1>5, <1>8
LEMMA RemoveAppIs ==
  ASSUME NEW b, NEW c, Bookish(b, c), NEW S, NEW a, NEW r,
         r = B!RemoveApp(b, S, a), NEW T, T = {x \in S : b.offered_to[x] = a}
  PROVE  /\ Bookish(r, c) /\ r.free = b.free + Cardinality(T)
         /\ DOMAIN r.offered_to = DOMAIN b.offered_to
         /\ \A x \in DOMAIN b.offered_to : r.offered_to[x] = NotOffered =>
              b.offered_to[x] = NotOffered \/ x \in T
<1>1. PICK M, f, d :
        /\ M = [x \in DOMAIN b.offered_to |->
                  IF x \in T THEN NotOffered ELSE b.offered_to[x]]
        /\ f = b.free + Cardinality(T)
        /\ d = B!DropEntry(b.dds, a)
  OBVIOUS
<1>2. r = [offered_to |-> M, free |-> f, dds |-> d]
  BY <1>1, SameCardinality DEF B!RemoveApp
<1>3. PICK D : D = DOMAIN b.dds \ {a}
  OBVIOUS
<1>4. /\ DOMAIN M = DOMAIN b.offered_to /\ DOMAIN d = D /\ D \subseteq Agent
      /\ \A x \in DOMAIN b.offered_to :
           M[x] = IF x \in T THEN NotOffered ELSE b.offered_to[x]
  BY <1>1, <1>3 DEF B!DropEntry, Bookish
<1>5. \A x \in DOMAIN b.offered_to :
        M[x] \in Agent \cup {NotOffered, Elsewhere} \cup {b.offered_to[x]}
  BY <1>4
<1>6. Bookish(r, c) /\ r.offered_to = M /\ r.free = f
  BY <1>2, <1>4, <1>5, BookParts
<1> QED
  BY <1>1, <1>4, <1>6

-----------------------------------------------------------------------------
(* What the actions do to the books.                                         *)
\* Nobody's book changes.
LEMMA SameBooked ==
  ASSUME OInv, Booked, NEW n \in Node, NEW P, NEW R, NEW N,
         Acts(n, P, R, N) \/ Heeds(n, P),
         Heeds(n, P) \/ N = {} \/ n \notin Controller,
         \A c \in Controller : book'[c] = book[c]
  PROVE  Booked'
<1>1. ASSUME NEW c \in Controller PROVE Covered(c)'
  BY <1>1, OthersCovered
<1> QED
  BY <1>1 DEF Booked
\* One does.
LEMMA OneBooked ==
  ASSUME OInv, Booked, NEW n \in Controller, Covered(n)', NEW P, NEW R, NEW N,
         Acts(n, P, R, N) \/ Heeds(n, P), NEW b, book' = [book EXCEPT ![n] = b]
  PROVE  Booked'
<1>1. n \in Node /\ DOMAIN book = Controller
  BY DEF Node, OInv, Owned, Holding
<1>2. ASSUME NEW c \in Controller, c # n PROVE Covered(c)'
  <2>1. book'[c] = book[c]
    BY <1>1, <1>2
  <2> QED
    BY <1>1, <1>2, <2>1, OthersCovered
<1> QED
  BY <1>2 DEF Booked

LEMMA OfferCoresBooked ==
  ASSUME WInv, WInv', Names, Booked, NEW n \in Node, OfferCores(n)
  PROVE  Booked'
<1>1. OInv /\ IInv' /\ DOMAIN book = Controller
  BY DEF WInv, OInv, Owned, Holding
<1>2. PICK E : E = {}
  OBVIOUS
<1>3. PICK p, cores : p \in Node /\ Puts(n, p, cores) /\ Acts(n, E, E, {p})
  BY <1>1, <1>2, OfferCoresActs
<1>4. CASE n \notin Controller
  <2>1. book' = book
    BY <1>3, <1>4 DEF Puts
  <2> QED
    BY <1>1, <1>3, <1>4, <2>1, SameBooked
<1>5. CASE n \in Controller
  <2>1. PICK b : b = B!OfferTo(book[n], cores, p)
    OBVIOUS
  <2>2. book' = [book EXCEPT ![n] = b] /\ book'[n] = b
    BY <1>1, <1>3, <1>5, <2>1 DEF Puts
  <2>3. p \in Agent /\ p # n /\ p # NotOffered
    <3>1. /\ inter'[n][p] # <<>> /\ Head(inter'[n][p]).type \in Offers
      BY <1>3 DEF Puts, Offers
    <3>2. OffersOnlyAgents'
      BY <1>1, OffersToAgents, PTL
    <3>3. p \in Agent
      BY <1>3, <3>1, <3>2 DEF OffersOnlyAgents
    <3> QED
      BY <1>5, <3>3, ClusterAssumption DEF Node
  <2>4. Covered(n) /\ Bookish(book[n], n)
    BY <1>5 DEF Booked, Covered
  <2>5. /\ Bookish(b, n) /\ b.free = book[n].free
        /\ DOMAIN b.offered_to = DOMAIN book[n].offered_to
        /\ \A x \in DOMAIN book[n].offered_to :
             b.offered_to[x] = IF x \in cores THEN p ELSE book[n].offered_to[x]
    BY <2>1, <2>3, <2>4, OfferToIs
  <2>6. /\ \A x \in cores : /\ x \in DOMAIN book[n].offered_to
                            /\ book[n].offered_to[x] = NotOffered
        /\ cores \in SUBSET Core
    BY <1>3, <1>5 DEF Puts, Candidates, Given
  <2>7. Tag(n, cores) \subseteq Liable(n)
    BY <1>5, <2>6, LiableIs DEF Tag
  <2>8. PICK M : M = (Liable(n) \ Tag(n, cores)) \cup Tag(p, cores)
    OBVIOUS
  <2>9. ASSUME NEW x \in Core, <<n, x>> \in Liable(n)' PROVE <<n, x>> \in M
    <3>1. x \in DOMAIN b.offered_to /\ b.offered_to[x] = NotOffered
      BY <1>5, <2>2, <2>9 DEF Liable
    <3>2. x \notin cores /\ <<n, x>> \in Liable(n)
      BY <1>5, <2>3, <2>5, <3>1, LiableIs
    <3> QED
      BY <2>8, <3>2 DEF Tag
  <2>10. ASSUME NEW q \in Agent, NEW x \in Core, <<q, x>> \in Liable(n)'
         PROVE  <<q, x>> \in M
    <3>1. q # n /\ q \in Node
      BY <1>5, ClusterAssumption DEF Node
    <3>2. Lends(inter'[n][q], x)
      BY <2>10, <3>1 DEF Liable
    <3>3. CASE q = p
      <4>1. x \in cores
        BY <1>3, <3>2, <3>3 DEF Puts, Lends
      <4> QED
        BY <2>8, <3>3, <4>1 DEF Tag
    <3>4. CASE q # p
      <4>1. Lends(inter[n][q], x)
        BY <1>1, <1>3, <3>1, <3>2, <3>4, NotLending
      <4>2. <<q, x>> \in Liable(n) /\ <<q, x>> \notin Tag(n, cores)
        BY <1>5, <3>1, <4>1, LiableIs DEF Tag
      <4> QED
        BY <2>8, <4>2
    <3> QED
      BY <3>3, <3>4
  <2>11. Liable(n)' \subseteq M
    BY <1>5, <2>9, <2>10, LiableStays
  <2>12. b.free = book[n].free - Cardinality(cores) + Cardinality(cores)
    <3>1. Cardinality(cores) \in Nat /\ book[n].free \in Nat
      BY <2>4, <2>6, FiniteNodes, FS_Subset, FS_CardinalityType DEF Covered
    <3> QED
      BY <2>5, <3>1
  <2>13. Covered(n)'
    BY <1>5, <2>2, <2>4, <2>5, <2>6, <2>7, <2>8, <2>11, <2>12, BookCovered
  <2> QED
    BY <1>1, <1>3, <1>5, <2>2, <2>13, OneBooked
<1> QED
  BY <1>4, <1>5

\* An offer comes back to a node.
LEMMA AnswerBooked ==
  ASSUME WInv, Names, Booked, NEW n \in Node, RepOffersNo(n) \/ RejectOffer(n)
  PROVE  Booked'
<1>1. OInv /\ DOMAIN book = Controller
  BY DEF WInv, OInv, Owned, Holding
<1>2. PICK p, cores, P : /\ p = Peer(n) /\ cores = Head(inter[n][p]).cores
                         /\ P = {p}
  OBVIOUS
<1>3. Heeds(n, P)
  BY <1>1, <1>2, AnswerHeeds
<1>4. CASE n \notin Controller
  <2>1. book' = book
    BY <1>4 DEF RepOffersNo, RejectOffer
  <2> QED
    BY <1>1, <1>3, <2>1, SameBooked
<1>5. CASE n \in Controller
  <2>1. PICK b : /\ book' = [book EXCEPT ![n] = b]
                 /\ \/ b = B!OfferRefused(book[n], cores, p)
                    \/ b = B!OfferRejected(book[n], cores)
    BY <1>2, <1>5 DEF RepOffersNo, RejectOffer
  <2>2. book'[n] = b
    BY <1>1, <1>5, <2>1
  <2>3. p \in Agent /\ \A x \in cores : Lends(inter[n][p], x)
    <3>1. PICK sig \in {"REP_OFFERS", "REJECT"} : Receives(n, sig)
      BY DEF RepOffersNo, RejectOffer
    <3>2. HeadType(n, Peer(n)) \in Offers
      BY DEF RepOffersNo, RejectOffer, Offers
    <3> QED
      BY <1>2, <3>1, <3>2, AnsweredOffer
  <2>4. Covered(n) /\ Bookish(book[n], n)
    BY <1>5 DEF Booked, Covered
  <2>5. /\ Bookish(b, n) /\ b.free = book[n].free
        /\ DOMAIN b.offered_to = DOMAIN book[n].offered_to
        /\ \A x \in DOMAIN book[n].offered_to : b.offered_to[x] = NotOffered =>
             book[n].offered_to[x] = NotOffered \/ x \in cores
    <3>1. PICK k : /\ k = book[n] /\ Bookish(k, n)
                   /\ b = B!OfferRefused(k, cores, p) \/ b = B!OfferRejected(k, cores)
      BY <2>1, <2>4
    <3>2. /\ Bookish(b, n) /\ b.free = k.free
          /\ DOMAIN b.offered_to = DOMAIN k.offered_to
          /\ \A x \in DOMAIN k.offered_to : b.offered_to[x] = NotOffered =>
               k.offered_to[x] = NotOffered \/ x \in cores
      BY <3>1, OfferBackIs
    <3> QED
      BY <3>1, <3>2
  <2>6. cores \in SUBSET Core
    <3>1. inter[n][p] # <<>> /\ Head(inter[n][p]).type \in Offers /\ p \in Node
      BY <1>2, <2>3 DEF RepOffersNo, RejectOffer, HeadType, Offers, Node
    <3> QED
      BY <1>1, <1>2, <3>1, OfferedGiven DEF Names, Given
  <2>7. Tag(p, cores) \subseteq Liable(n)
    BY <1>5, <2>3, <2>6, LiableIs DEF Tag
  <2>8. PICK M : M = (Liable(n) \ Tag(p, cores)) \cup Tag(n, cores)
    OBVIOUS
  <2>9. ASSUME NEW x \in Core, <<n, x>> \in Liable(n)' PROVE <<n, x>> \in M
    <3>1. x \in DOMAIN b.offered_to /\ b.offered_to[x] = NotOffered
      BY <1>5, <2>2, <2>9 DEF Liable
    <3>2. CASE x \in cores
      BY <2>8, <3>2 DEF Tag
    <3>3. CASE x \notin cores
      <4>1. <<n, x>> \in Liable(n) /\ <<n, x>> \notin Tag(p, cores)
        BY <1>5, <2>5, <3>1, <3>3, LiableIs DEF Tag
      <4> QED
        BY <2>8, <4>1
    <3> QED
      BY <3>2, <3>3
  <2>10. ASSUME NEW q \in Agent, NEW x \in Core, <<q, x>> \in Liable(n)'
         PROVE  <<q, x>> \in M
    <3>1. q # n /\ q \in Node
      BY <1>5, ClusterAssumption DEF Node
    <3>2. Lends(inter'[n][q], x)
      BY <2>10, <3>1 DEF Liable
    <3>3. q # p
      BY <1>2, <3>2, RepOffersNoOwned, RejectOfferOwned, <1>1 DEF OfferOver
    <3>4. Lends(inter[n][q], x)
      BY <1>1, <1>3, <3>1, <3>2, NotLending
    <3>5. <<q, x>> \in Liable(n) /\ <<q, x>> \notin Tag(p, cores)
      BY <1>5, <3>3, <3>4, LiableIs DEF Tag
    <3> QED
      BY <2>8, <3>5
  <2>11. Liable(n)' \subseteq M
    BY <1>5, <2>9, <2>10, LiableStays
  <2>12. b.free = book[n].free - Cardinality(cores) + Cardinality(cores)
    <3>1. Cardinality(cores) \in Nat /\ book[n].free \in Nat
      BY <2>4, <2>6, FiniteNodes, FS_Subset, FS_CardinalityType DEF Covered
    <3> QED
      BY <2>5, <3>1
  <2>13. Covered(n)'
    BY <1>5, <2>2, <2>4, <2>5, <2>6, <2>7, <2>8, <2>11, <2>12, BookCovered
  <2> QED
    BY <1>1, <1>3, <1>5, <2>1, <2>13, OneBooked
<1> QED
  BY <1>4, <1>5

LEMMA RepOffersYesBooked ==
  ASSUME WInv, Names, Booked, NEW n \in Node, RepOffersYes(n)
  PROVE  Booked'
<1>1. OInv /\ DOMAIN book = Controller
  BY DEF WInv, OInv, Owned, Holding
<1>2. PICK p, cores, P : /\ p = Peer(n) /\ cores = Head(inter[n][p]).cores
                         /\ P = {p}
  OBVIOUS
<1>3. Heeds(n, P)
  BY <1>1, <1>2, RepOffersYesHeeds
<1>4. CASE n \notin Controller
  <2>1. book' = book
    BY <1>4 DEF RepOffersYes
  <2> QED
    BY <1>1, <1>3, <2>1, SameBooked
<1>5. CASE n \in Controller
  <2>1. PICK b : b = B!OfferAccepted(book[n], cores)
    OBVIOUS
  <2>2. book' = [book EXCEPT ![n] = b] /\ book'[n] = b
    BY <1>1, <1>2, <1>5, <2>1 DEF RepOffersYes
  <2>3. p \in Agent /\ \A x \in cores : Lends(inter[n][p], x)
    <3>1. Receives(n, "REP_OFFERS") /\ HeadType(n, Peer(n)) \in Offers
      BY DEF RepOffersYes, Offers
    <3> QED
      BY <1>2, <3>1, AnsweredOffer
  <2>4. Covered(n) /\ Bookish(book[n], n)
    BY <1>5 DEF Booked, Covered
  <2>5. /\ Bookish(b, n) /\ b.free = book[n].free - Cardinality(cores)
        /\ b.offered_to = book[n].offered_to
    BY <2>1, <2>4, OfferAcceptedIs
  <2>6. cores \in SUBSET Core
    <3>1. inter[n][p] # <<>> /\ Head(inter[n][p]).type \in Offers /\ p \in Node
      BY <1>2, <2>3 DEF RepOffersYes, HeadType, Offers, Node
    <3> QED
      BY <1>1, <1>2, <3>1, OfferedGiven DEF Names, Given
  <2>7. Tag(p, cores) \subseteq Liable(n)
    BY <1>5, <2>3, <2>6, LiableIs DEF Tag
  <2>80. PICK T : T = {}
    OBVIOUS
  <2>81. PICK M : M = (Liable(n) \ Tag(p, cores)) \cup Tag(n, T)
    OBVIOUS
  <2>8. /\ T = {} /\ T \in SUBSET Core
        /\ M = (Liable(n) \ Tag(p, cores)) \cup Tag(n, T)
    BY <2>80, <2>81
  <2>9. ASSUME NEW x \in Core, <<n, x>> \in Liable(n)' PROVE <<n, x>> \in M
    <3>1. x \in DOMAIN b.offered_to /\ b.offered_to[x] = NotOffered
      BY <1>5, <2>2, <2>9 DEF Liable
    <3>2. n # p
      BY <1>5, <2>3, ClusterAssumption
    <3>3. <<n, x>> \in Liable(n) /\ <<n, x>> \notin Tag(p, cores)
      BY <1>5, <2>5, <3>1, <3>2, LiableIs DEF Tag
    <3> QED
      BY <2>8, <3>3
  <2>10. ASSUME NEW q \in Agent, NEW x \in Core, <<q, x>> \in Liable(n)'
         PROVE  <<q, x>> \in M
    <3>1. q # n /\ q \in Node
      BY <1>5, ClusterAssumption DEF Node
    <3>2. Lends(inter'[n][q], x)
      BY <2>10, <3>1 DEF Liable
    <3>3. q # p
      BY <1>1, <1>2, <3>2, RepOffersYesOwned DEF OfferOver
    <3>4. Lends(inter[n][q], x)
      BY <1>1, <1>3, <3>1, <3>2, NotLending
    <3>5. <<q, x>> \in Liable(n) /\ <<q, x>> \notin Tag(p, cores)
      BY <1>5, <3>3, <3>4, LiableIs DEF Tag
    <3> QED
      BY <2>8, <3>5
  <2>11. Liable(n)' \subseteq M
    BY <1>5, <2>9, <2>10, LiableStays
  <2>12. b.free = book[n].free - Cardinality(cores) + Cardinality(T)
    <3>1. Cardinality(cores) \in Nat /\ book[n].free \in Nat /\ Cardinality(T) = 0
      BY <2>4, <2>6, <2>8, FiniteNodes, FS_Subset, FS_CardinalityType, FS_EmptySet
         DEF Covered
    <3> QED
      BY <2>5, <3>1
  <2>13. Covered(n)'
    BY <1>5, <2>2, <2>4, <2>5, <2>6, <2>7, <2>8, <2>11, <2>12, BookCovered
  <2> QED
    BY <1>1, <1>3, <1>5, <2>2, <2>13, OneBooked
<1> QED
  BY <1>4, <1>5
\* Reports change the book: cores that are told of are no longer free, those of
\* an application that ended are so again.  What is on offer to managers is on
\* offer still, or less is.
LEMMA ReportCovered ==
  ASSUME OInv, NEW c \in Controller, Covered(c), NEW P, Heeds(c, P),
         NEW S \in SUBSET Core, S = {} \/ Tag(c, S) \subseteq Liable(c),
         NEW T \in SUBSET Core, NEW b, book'[c] = b, Bookish(b, c),
         b.free = book[c].free - Cardinality(S) + Cardinality(T),
         \A x \in DOMAIN b.offered_to : b.offered_to[x] = NotOffered =>
           x \in T \/ (book[c].offered_to[x] = NotOffered /\ x \notin S)
  PROVE  Covered(c)'
<1>1. Bookish(book[c], c) /\ c \in Node
  BY DEF Covered, Node
<1>2. DOMAIN b.offered_to = DOMAIN book[c].offered_to
  BY <1>1 DEF Bookish
<1>3. Tag(c, S) \subseteq Liable(c)
  BY DEF Tag
<1>4. PICK M : M = (Liable(c) \ Tag(c, S)) \cup Tag(c, T)
  OBVIOUS
<1>5. ASSUME NEW x \in Core, <<c, x>> \in Liable(c)' PROVE <<c, x>> \in M
  <2>1. x \in DOMAIN b.offered_to /\ b.offered_to[x] = NotOffered
    BY <1>5 DEF Liable
  <2>2. CASE x \in T
    BY <1>4, <2>2 DEF Tag
  <2>3. CASE x \notin T
    <3>1. <<c, x>> \in Liable(c) /\ <<c, x>> \notin Tag(c, S)
      BY <1>2, <2>1, <2>3, LiableIs DEF Tag
    <3> QED
      BY <1>4, <3>1
  <2> QED
    BY <2>2, <2>3
<1>6. ASSUME NEW q \in Agent, NEW x \in Core, <<q, x>> \in Liable(c)'
      PROVE  <<q, x>> \in M
  <2>1. q # c /\ q \in Node
    BY ClusterAssumption DEF Node
  <2>2. Lends(inter'[c][q], x)
    BY <1>6, <2>1 DEF Liable
  <2>3. PICK R : R = {}
    OBVIOUS
  <2>4. Lends(inter[c][q], x)
    BY <1>1, <2>1, <2>2, <2>3, NotLending
  <2>5. <<q, x>> \in Liable(c) /\ <<q, x>> \notin Tag(c, S)
    BY <2>1, <2>4, LiableIs DEF Tag
  <2> QED
    BY <1>4, <2>5
<1>7. Liable(c)' \subseteq M
  BY <1>5, <1>6, LiableStays
<1> QED
  BY <1>3, <1>4, <1>7, BookCovered

LEMMA AddCoresDDSBooked ==
  ASSUME WInv, Names, Booked, NEW c \in Controller, AddCoresDDS(c)
  PROVE  Booked'
<1>1. OInv /\ DOMAIN book = Controller /\ c \in Node
  BY DEF WInv, OInv, Owned, Holding, Node
<1>2. PICK P : Heeds(c, P)
  BY <1>1, AddCoresDDSHeeds
<1>3. PICK p, s : p = Peer(c) /\ s = Head(mail[c]).msg
  OBVIOUS
<1>4. Receives(c, "ADD_CORES_DDS") /\ p \in Node
  BY <1>1, <1>3, Heard DEF AddCoresDDS, OInv, Hears
<1>5. Local(p, c, s.cores) /\ s.agent \in Agent
  BY <1>1, <1>3, <1>4, HeardNames DEF Named, Receives
<1>6. Covered(c) /\ Bookish(book[c], c)
  BY DEF Booked, Covered
<1>7. \/ \A d \in Controller : book'[d] = book[d]
      \/ \E k, S, a, cnt :
           /\ k = book[c] /\ S \subseteq DOMAIN k.offered_to /\ a \in Agent
           /\ book' = [book EXCEPT ![c] = B!AddCores(k, S, a, cnt)]
  <2>1. PICK k : k = book[c] /\ Bookish(k, c)
    BY <1>6
  <2>2. ASSUME NEW S, S \subseteq DOMAIN k.offered_to, NEW a \in Agent, NEW cnt,
               book' = [book EXCEPT ![c] = B!AddCores(k, S, a, cnt)]
        PROVE  \E h, R, d, m :
                 /\ h = book[c] /\ R \subseteq DOMAIN h.offered_to /\ d \in Agent
                 /\ book' = [book EXCEPT ![c] = B!AddCores(h, R, d, m)]
    BY <2>1, <2>2
  <2>3. CASE p \in Controller
    <3>1. s.cores \subseteq DOMAIN k.offered_to
      BY <1>5, <2>1, <2>3 DEF Local, Bookish
    <3>2. book' = [book EXCEPT ![c] =
                     B!AddCores(book[c], s.cores, s.agent, Cardinality(s.cores))]
      BY <1>1, <1>3, <2>3 DEF AddCoresDDS
    <3>3. PICK S, a, cnt : S = s.cores /\ a = s.agent /\ cnt = Cardinality(s.cores)
      OBVIOUS
    <3>4. book' = [book EXCEPT ![c] = B!AddCores(k, S, a, cnt)]
      BY <2>1, <3>2, <3>3
    <3> QED
      BY <1>5, <2>2, <3>1, <3>3, <3>4
  <2>4. CASE p \notin Controller
    <3>1. PICK own : own = InCluster(c, s.cores)
      OBVIOUS
    <3>2. p \in Agent /\ own \subseteq DOMAIN k.offered_to
      BY <1>4, <1>5, <2>1, <2>4, <3>1 DEF Local, Bookish, InCluster, Node
    <3>3. PICK cnt : cnt = AddCount(own, s.cores)
      OBVIOUS
    <3>4. book' = [book EXCEPT ![c] = IF own = {} THEN book[c]
                                      ELSE B!AddCores(book[c], own, p, cnt)]
      BY <1>1, <1>3, <2>4, <3>1, <3>3 DEF AddCoresDDS
    <3>5. CASE own = {}
      <4>1. book' = [book EXCEPT ![c] = book[c]]
        BY <3>4, <3>5
      <4> QED
        BY <4>1, <1>1
    <3>6. CASE own # {}
      <4>1. book' = [book EXCEPT ![c] = B!AddCores(k, own, p, cnt)]
        BY <2>1, <3>4, <3>6
      <4> QED
        BY <2>2, <3>2, <4>1
    <3> QED
      BY <3>5, <3>6
  <2> QED
    BY <2>3, <2>4
<1>8. CASE \A d \in Controller : book'[d] = book[d]
  BY <1>1, <1>2, <1>8, SameBooked
<1>9. ASSUME NEW k, NEW S, NEW a \in Agent, NEW cnt, k = book[c],
             S \subseteq DOMAIN k.offered_to,
             book' = [book EXCEPT ![c] = B!AddCores(k, S, a, cnt)]
      PROVE  Booked'
  <2>1. PICK b : b = B!AddCores(k, S, a, cnt)
    OBVIOUS
  <2>2. book' = [book EXCEPT ![c] = b] /\ book'[c] = b
    BY <1>1, <1>9, <2>1
  <2>31. PICK U : U = {x \in S : k.offered_to[x] = NotOffered}
    OBVIOUS
  <2>32. PICK T : T = {}
    OBVIOUS
  <2>3. /\ \A x : x \in U <=> x \in S /\ book[c].offered_to[x] = NotOffered
        /\ T = {} /\ T \in SUBSET Core
    BY <1>9, <2>31, <2>32
  <2>4. /\ Bookish(b, c) /\ b.free = book[c].free - Cardinality(U)
        /\ DOMAIN b.offered_to = DOMAIN book[c].offered_to
        /\ \A x \in DOMAIN book[c].offered_to :
             b.offered_to[x] = IF x \in S THEN a ELSE book[c].offered_to[x]
    <3>1. /\ Bookish(b, c) /\ b.free = k.free - Cardinality(U)
          /\ DOMAIN b.offered_to = DOMAIN k.offered_to
          /\ \A x \in DOMAIN k.offered_to :
               b.offered_to[x] = IF x \in S THEN a ELSE k.offered_to[x]
      <4>1. Bookish(k, c) /\ a \in Agent
        BY <1>6, <1>9
      <4>2. FreeOf(k, S, U)
        BY <2>31 DEF FreeOf
      <4>3. Added(k, S, a, cnt, b)
        BY <2>1 DEF Added
      <4> QED
        BY <4>1, <4>2, <4>3, AddCoresIs
    <3> QED
      BY <1>9, <3>1
  <2>5. U \in SUBSET Core /\ Tag(c, U) \subseteq Liable(c)
    <3>1. \A x \in U : /\ x \in Core /\ x \in DOMAIN book[c].offered_to
                       /\ book[c].offered_to[x] = NotOffered
      BY <1>6, <1>9, <2>3 DEF Bookish, Given
    <3> QED
      BY <3>1, LiableIs DEF Tag
  <2>6. b.free = book[c].free - Cardinality(U) + Cardinality(T)
    <3>1. Cardinality(U) \in Nat /\ book[c].free \in Nat /\ Cardinality(T) = 0
      BY <1>6, <2>3, <2>5, FiniteNodes, FS_Subset, FS_CardinalityType, FS_EmptySet
         DEF Covered
    <3> QED
      BY <2>4, <3>1
  <2>7. \A x \in DOMAIN b.offered_to : b.offered_to[x] = NotOffered =>
          book[c].offered_to[x] = NotOffered /\ x \notin U
    <3>1. a # NotOffered
      BY ClusterAssumption DEF Node
    <3> QED
      BY <2>3, <2>4, <3>1
  <2>8. Covered(c)'
    BY <1>1, <1>2, <1>6, <2>2, <2>3, <2>4, <2>5, <2>6, <2>7, ReportCovered
  <2> QED
    BY <1>1, <1>2, <2>2, <2>8, OneBooked
<1> QED
  BY <1>7, <1>8, <1>9

LEMMA RemCoresDDSBooked ==
  ASSUME WInv, Names, Booked, NEW c \in Controller, RemCoresDDS(c)
  PROVE  Booked'
<1>1. OInv /\ DOMAIN book = Controller /\ c \in Node
  BY DEF WInv, OInv, Owned, Holding, Node
<1>2. PICK P : Heeds(c, P)
  BY <1>1, RemCoresDDSHeeds
<1>3. PICK p, s : p = Peer(c) /\ s = Head(mail[c]).msg
  OBVIOUS
<1>4. Receives(c, "REM_CORES_DDS")
  BY DEF RemCoresDDS
<1>5. s.new \in Agent
  BY <1>1, <1>3, <1>4, HeardNames DEF Named, Receives
<1>6. Covered(c) /\ Bookish(book[c], c)
  BY DEF Booked, Covered
<1>7. \/ \A d \in Controller : book'[d] = book[d]
      \/ \E k, S, old, cnt :
           /\ k = book[c]
           /\ book' = [book EXCEPT ![c] = B!RemCores(k, S, old, s.new, cnt)]
  <2>1. PICK k : k = book[c]
    OBVIOUS
  <2>2. CASE p \in Controller
    <3>1. book' = [book EXCEPT ![c] = B!RemCores(book[c], s.cores, s.old, s.new,
                                                 Cardinality(s.cores))]
      BY <1>1, <1>3, <2>2 DEF RemCoresDDS
    <3>2. PICK S, old, cnt : /\ S = s.cores /\ old = s.old
                             /\ cnt = Cardinality(s.cores)
      OBVIOUS
    <3>3. book' = [book EXCEPT ![c] = B!RemCores(k, S, old, s.new, cnt)]
      BY <2>1, <3>1, <3>2
    <3> QED
      BY <2>1, <3>3
  <2>3. CASE p \notin Controller
    <3>1. PICK own : own = InCluster(c, s.cores)
      OBVIOUS
    <3>2. PICK cnt : cnt = Cardinality(own)
      OBVIOUS
    <3>3. book' = [book EXCEPT ![c] = IF own = {} THEN book[c]
                                      ELSE B!RemCores(book[c], own, p, s.new, cnt)]
      BY <1>1, <1>3, <2>3, <3>1, <3>2 DEF RemCoresDDS
    <3>4. CASE own = {}
      <4>1. book' = [book EXCEPT ![c] = book[c]]
        BY <3>3, <3>4
      <4> QED
        BY <4>1, <1>1
    <3>5. CASE own # {}
      <4>1. book' = [book EXCEPT ![c] = B!RemCores(k, own, p, s.new, cnt)]
        BY <2>1, <3>3, <3>5
      <4> QED
        BY <2>1, <4>1
    <3> QED
      BY <3>4, <3>5
  <2> QED
    BY <2>2, <2>3
<1>8. CASE \A d \in Controller : book'[d] = book[d]
  BY <1>1, <1>2, <1>8, SameBooked
<1>9. ASSUME NEW k, NEW S, NEW old, NEW cnt, k = book[c],
             book' = [book EXCEPT ![c] = B!RemCores(k, S, old, s.new, cnt)]
      PROVE  Booked'
  <2>1. PICK a, b : a = s.new /\ b = B!RemCores(k, S, old, a, cnt)
    OBVIOUS
  <2>2. book' = [book EXCEPT ![c] = b] /\ book'[c] = b
    BY <1>1, <1>9, <2>1
  <2>31. PICK T : T = {}
    OBVIOUS
  <2>3. T = {} /\ T \in SUBSET Core
    BY <2>31
  <2>4. /\ Bookish(b, c) /\ b.free = book[c].free
        /\ DOMAIN b.offered_to = DOMAIN book[c].offered_to
        /\ \A x \in DOMAIN book[c].offered_to : b.offered_to[x] = NotOffered =>
             book[c].offered_to[x] = NotOffered
    <3>1. /\ Bookish(b, c) /\ b.free = k.free
          /\ DOMAIN b.offered_to = DOMAIN k.offered_to
          /\ \A x \in DOMAIN k.offered_to : b.offered_to[x] = NotOffered =>
               k.offered_to[x] = NotOffered
      BY <1>5, <1>6, <1>9, <2>1, RemCoresIs
    <3> QED
      BY <1>9, <3>1
  <2>5. b.free = book[c].free - Cardinality(T) + Cardinality(T)
    <3>1. book[c].free \in Nat /\ Cardinality(T) = 0
      BY <1>6, <2>3, FS_EmptySet DEF Covered
    <3> QED
      BY <2>4, <3>1
  <2>6. \A x \in DOMAIN b.offered_to : b.offered_to[x] = NotOffered =>
          book[c].offered_to[x] = NotOffered /\ x \notin T
    BY <2>3, <2>4
  <2>7. Covered(c)'
    BY <1>1, <1>2, <1>6, <2>2, <2>3, <2>4, <2>5, <2>6, ReportCovered
  <2> QED
    BY <1>1, <1>2, <2>2, <2>7, OneBooked
<1> QED
  BY <1>7, <1>8, <1>9

LEMMA FinishBooked ==
  ASSUME WInv, Names, Booked, NEW c \in Controller, Finish(c)
  PROVE  Booked'
<1>1. OInv /\ DOMAIN book = Controller /\ c \in Node
  BY DEF WInv, OInv, Owned, Holding, Node
<1>2. PICK P : Heeds(c, P)
  BY <1>1, FinishHeeds
<1>3. PICK s, own : s = Head(mail[c]).msg /\ own = InCluster(c, s.cores)
  OBVIOUS
<1>4. Receives(c, "FINISH")
  BY DEF Finish
<1>5. s.cores \subseteq Given
  BY <1>1, <1>3, <1>4, HeardNames DEF Named, Receives, Local
<1>6. Covered(c) /\ Bookish(book[c], c)
  BY DEF Booked, Covered
<1>70. PICK k, a : k = book[c] /\ a = s.agent
  OBVIOUS
<1>7. PICK b : b = B!RemoveApp(k, own, a)
  OBVIOUS
<1>8. book' = [book EXCEPT ![c] = b] /\ book'[c] = b
  BY <1>1, <1>3, <1>70, <1>7 DEF Finish
<1>91. PICK T : T = {x \in own : k.offered_to[x] = a}
  OBVIOUS
<1>92. PICK S : S = {}
  OBVIOUS
<1>9. T \subseteq own /\ S = {} /\ S \in SUBSET Core
  BY <1>91, <1>92
<1>10. /\ Bookish(b, c) /\ b.free = book[c].free + Cardinality(T)
       /\ DOMAIN b.offered_to = DOMAIN book[c].offered_to
       /\ \A x \in DOMAIN book[c].offered_to : b.offered_to[x] = NotOffered =>
            book[c].offered_to[x] = NotOffered \/ x \in T
  <2>1. /\ Bookish(b, c) /\ b.free = k.free + Cardinality(T)
        /\ DOMAIN b.offered_to = DOMAIN k.offered_to
        /\ \A x \in DOMAIN k.offered_to : b.offered_to[x] = NotOffered =>
             k.offered_to[x] = NotOffered \/ x \in T
    <3>1. Bookish(k, c)
      BY <1>6, <1>70
    <3> QED
      BY <3>1, <1>7, <1>91, RemoveAppIs
  <2> QED
    BY <1>70, <2>1
<1>11. T \in SUBSET Core
  BY <1>3, <1>5, <1>9 DEF InCluster, Given
<1>12. b.free = book[c].free - Cardinality(S) + Cardinality(T)
  <2>1. book[c].free \in Nat /\ Cardinality(S) = 0
    BY <1>6, <1>9, FS_EmptySet DEF Covered
  <2> QED
    BY <1>10, <2>1
<1>13. \A x \in DOMAIN b.offered_to : b.offered_to[x] = NotOffered =>
         x \in T \/ (book[c].offered_to[x] = NotOffered /\ x \notin S)
  BY <1>9, <1>10
<1>14. Covered(c)'
  BY <1>1, <1>2, <1>6, <1>8, <1>9, <1>10, <1>11, <1>12, <1>13, ReportCovered
<1> QED
  BY <1>1, <1>2, <1>8, <1>14, OneBooked

\* What changes no book.
LEMMA ElseBooked ==
  ASSUME WInv, Names, Booked, NEW n \in Node,
         \/ ReqCores(n) \/ AckClear(n) \/ RejectRequest(n) \/ AckData(n)
         \/ CollectOffer(n) \/ (n \in Controller /\ AppTerminated(n))
  PROVE  Booked'
<1>1. OInv /\ book' = book
  BY DEF WInv, ReqCores, AckClear, RejectRequest, AckData, CollectOffer,
         AppTerminated
<1>2. CASE CollectOffer(n)
  <2>1. PICK P, E : P = {waiting[n].from} /\ E = {}
    OBVIOUS
  <2>2. Acts(n, P, E, E)
    BY <1>1, <1>2, <2>1, CollectOfferActs
  <2> QED
    BY <1>1, <2>1, <2>2, SameBooked
<1>3. CASE ~ CollectOffer(n)
  <2>1. PICK P : P = {Peer(n)}
    OBVIOUS
  <2>2. Heeds(n, P)
    BY <1>1, <1>3, <2>1, ReqCoresHeeds, AckClearHeeds, AckDataHeeds,
       AppTerminatedHeeds
  <2> QED
    BY <1>1, <2>2, SameBooked
<1> QED
  BY <1>2, <1>3
LEMMA ProgramBooked ==
  ASSUME WInv, Names, AllHeld, Booked, NEW a \in Agent, Program(a) \/ AppFinishes(a)
  PROVE  Booked'
<1>1. OInv /\ a \in Node /\ book' = book
  BY DEF WInv, Node, Program, SelfOptStart, DiscoveryDone, Timer, LeaveAtTop,
         Leave, AgentZombie, InitManChkOffers, AppFinishes, SelfChkOffers, AgentEnds
<1>2. PICK P, E : P = Unanswered(a) /\ E = {}
  OBVIOUS
<1>3. \E Q, R : Acts(a, Q, R, E)
  BY <1>1, <1>2, ProgramHeld, SelfChkOffersActs, AgentEndsActs DEF Program
<1> QED
  BY <1>1, <1>2, <1>3, SameBooked

-----------------------------------------------------------------------------
(* A core that comes back comes after the answer, from step to step.         *)
\* The answer to an offer is about one that was fetched.
LEMMA AcceptedFetched ==
  ASSUME IInv, NEW a \in Node, NEW p \in Node, NEW i \in DOMAIN mail[a],
         Accepting(mail[a][i], p)
  PROVE  inter[a][p] # <<>>
<1>1. PICK b, d, c, e :
        /\ Line(mail[p], a, b, d) /\ Line(mail[a], p, c, e)
        /\ Talk(Stage(a, p), Stage(p, a), b, d, c, e, Blocked(a, p), Blocked(p, a))
  BY DEF IInv, Talked
<1>2. i \in From(mail[a], p) /\ Kind(mail[a][i].msg) = "REP_OFFERS"
  BY DEF From, Accepting, Kind
<1>3. c = "REP_OFFERS" \/ e = "REP_OFFERS"
  BY <1>1, <1>2 DEF Line
<1>4. Stage(a, p) = "AGENT_OFFER_SENT"
  BY <1>1, <1>3 DEF Talk, Asks, Answered, Offering, Deciding, Refusing, Idle,
                    Reports, Call, Tells, Order
<1> QED
  BY <1>4 DEF Stage, Top
\* A handler takes the oldest signal: if that is the answer to an offer, the
\* offer is over.
LEMMA AfterHeeds ==
  ASSUME OInv, AfterAnswers, NEW n \in Node, NEW P, Heeds(n, P),
         \A p : Accepting(Head(mail[n]), p) => OfferOver(n, p)
  PROVE  AfterAnswers'
<1>1. PICK E : E = {}
  OBVIOUS
<1>2. Grows(Taken(n), Net', n, P, E, E) /\ mail[n] # <<>>
  BY <1>1 DEF Heeds
<1>3. PICK l : l = Taken(n).mail
  OBVIOUS
<1>4. /\ \A m \in Node : m # n => l[m] = mail[m]
      /\ l[n] = Tail(mail[n]) /\ IsSeq(mail[n])
  BY <1>3, TakenIs DEF OInv, IInv, Owned, Sound, SoundList, Net
<1>5. \A m \in Node : Longer(l[m], mail'[m], n, m, E)
  BY <1>2, <1>3 DEF Grows, Net
<1>6. ASSUME NEW a \in Agent, NEW p \in Node, NEW q \in Node,
             NEW i \in DOMAIN mail'[a], NEW x,
             Accepting(mail'[a][i], p), Lends(inter'[a][p], x),
             Lends(inter'[q][a], x), ~ Agreed(mail'[q], a)
      PROVE  \E j \in DOMAIN mail'[a] :
               /\ j > i /\ mail'[a][j].from = q
               /\ mail'[a][j].msg.sig = "REQ_CORES"
               /\ mail'[a][j].msg.body = "offers"
  <2>1. a \in Node
    BY DEF Node
  <2>2. Lends(inter[a][p], x) /\ Lends(inter[q][a], x)
    BY <1>6, <2>1, NotLending
  <2>3. ~ Agreed(mail[q], a)
    <3>1. SUFFICES ASSUME NEW k \in DOMAIN mail[q], Accepting(mail[q][k], a)
                   PROVE  FALSE
      BY DEF Agreed, Range
    <3>2. CASE q = n /\ k = 1
      <4>1. Head(mail[n]) = mail[n][1]
        BY <1>2, <1>4, Shortening
      <4>2. OfferOver(n, a)
        BY <3>1, <3>2, <4>1
      <4> QED
        BY <1>6, <3>2, <4>2 DEF OfferOver
    <3>3. CASE ~ (q = n /\ k = 1)
      <4>1. \E h \in DOMAIN l[q] : l[q][h] = mail[q][k]
        <5>1. CASE q # n
          BY <1>4, <5>1
        <5>2. CASE q = n
          <6>1. /\ Len(mail[n]) \in Nat \ {0} /\ DOMAIN mail[n] = 1..Len(mail[n])
                /\ DOMAIN l[n] = 1..(Len(mail[n]) - 1)
                /\ \A j \in 1..(Len(mail[n]) - 1) : l[n][j] = mail[n][j + 1]
            BY <1>2, <1>4, Shortening
          <6>2. k \in 1..Len(mail[n]) /\ k # 1
            BY <3>3, <5>2, <6>1
          <6>3. PICK h \in 1..(Len(mail[n]) - 1) : k = h + 1
            <7>1. k - 1 \in 1..(Len(mail[n]) - 1) /\ k = (k - 1) + 1
              BY <6>1, <6>2
            <7> QED
              BY <7>1
          <6> QED
            BY <5>2, <6>1, <6>3
        <5> QED
          BY <5>1, <5>2
      <4>2. PICK h \in DOMAIN mail'[q] : mail'[q][h] = mail[q][k]
        BY <1>5, <4>1 DEF Longer
      <4> QED
        BY <1>6, <3>1, <4>2 DEF Agreed, Range
    <3> QED
      BY <3>2, <3>3
  <2>4. i \in DOMAIN l[a] /\ l[a][i] = mail'[a][i]
    BY <1>1, <1>5, <1>6, <2>1 DEF Longer, Accepting
  <2>5. \E j \in DOMAIN l[a] :
          /\ j > i /\ l[a][j].from = q
          /\ l[a][j].msg.sig = "REQ_CORES" /\ l[a][j].msg.body = "offers"
    <3>1. CASE a # n
      <4>1. i \in DOMAIN mail[a] /\ Accepting(mail[a][i], p) /\ l[a] = mail[a]
        BY <1>4, <1>6, <2>1, <2>4, <3>1
      <4> QED
        BY <2>2, <2>3, <4>1 DEF AfterAnswers
    <3>2. CASE a = n
      <4>1. /\ Len(mail[n]) \in Nat \ {0} /\ DOMAIN mail[n] = 1..Len(mail[n])
            /\ DOMAIN l[n] = 1..(Len(mail[n]) - 1)
            /\ \A j \in 1..(Len(mail[n]) - 1) : l[n][j] = mail[n][j + 1]
        BY <1>2, <1>4, Shortening
      <4>2. i \in 1..(Len(mail[n]) - 1)
        BY <2>4, <3>2, <4>1
      <4>3. PICK k : k = i + 1
        OBVIOUS
      <4>4. k \in DOMAIN mail[a] /\ Accepting(mail[a][k], p)
        BY <1>6, <2>4, <3>2, <4>1, <4>2, <4>3
      <4>5. PICK j \in DOMAIN mail[a] :
              /\ j > k /\ mail[a][j].from = q
              /\ mail[a][j].msg.sig = "REQ_CORES" /\ mail[a][j].msg.body = "offers"
        BY <2>2, <2>3, <4>4 DEF AfterAnswers
      <4>6. PICK h : h = j - 1
        OBVIOUS
      <4>7. h \in 1..(Len(mail[n]) - 1) /\ j = h + 1 /\ h > i
        BY <3>2, <4>1, <4>2, <4>3, <4>5, <4>6
      <4>8. l[a][h] = mail[a][j] /\ h \in DOMAIN l[a]
        BY <3>2, <4>1, <4>7
      <4> QED
        BY <4>5, <4>7, <4>8
    <3> QED
      BY <3>1, <3>2
  <2> QED
    BY <1>5, <2>1, <2>5 DEF Longer
<1> QED
  BY <1>6 DEF AfterAnswers

\* The program of a node, or a handler that waited, takes no signal.
LEMMA AfterOne ==
  ASSUME OInv, AfterAnswers, NEW n \in Node, NEW P, NEW R, NEW N, Acts(n, P, R, N),
         NEW a \in Agent, NEW p \in Node, NEW q \in Node, NEW i \in DOMAIN mail[a],
         NEW x, Accepting(mail'[a][i], p), Lends(inter[a][p], x),
         Lends(inter[q][a], x), ~ Agreed(mail'[q], a)
  PROVE  /\ i \in DOMAIN mail'[a]
         /\ \E j \in DOMAIN mail'[a] :
              /\ j > i /\ mail'[a][j].from = q
              /\ mail'[a][j].msg.sig = "REQ_CORES"
              /\ mail'[a][j].msg.body = "offers"
<1>1. \A m \in Node : Longer(mail[m], mail'[m], n, m, R)
  BY DEF Acts, Grows, Net
<1>2. a \in Node
  BY DEF Node
<1>3. mail'[a][i] = mail[a][i]
  BY <1>1, <1>2 DEF Longer
<1>4. ~ Agreed(mail[q], a)
  BY <1>1 DEF Agreed, Longer, Range
<1>5. PICK j \in DOMAIN mail[a] :
        /\ j > i /\ mail[a][j].from = q
        /\ mail[a][j].msg.sig = "REQ_CORES" /\ mail[a][j].msg.body = "offers"
  BY <1>3, <1>4 DEF AfterAnswers
<1> QED
  BY <1>1, <1>2, <1>5 DEF Longer
LEMMA ProgramAfter ==
  ASSUME OInv, AfterAnswers, NEW n \in Node, NEW P, NEW E, Acts(n, P, E, E), E = {}
  PROVE  AfterAnswers'
<1>1. ASSUME NEW a \in Agent, NEW p \in Node, NEW q \in Node,
             NEW i \in DOMAIN mail'[a], NEW x,
             Accepting(mail'[a][i], p), Lends(inter'[a][p], x),
             Lends(inter'[q][a], x), ~ Agreed(mail'[q], a)
      PROVE  \E j \in DOMAIN mail'[a] :
               /\ j > i /\ mail'[a][j].from = q
               /\ mail'[a][j].msg.sig = "REQ_CORES"
               /\ mail'[a][j].msg.body = "offers"
  <2>1. a \in Node
    BY DEF Node
  <2>2. Lends(inter[a][p], x) /\ Lends(inter[q][a], x)
    BY <1>1, <2>1, NotLending
  <2>3. i \in DOMAIN mail[a]
    BY <1>1, <2>1 DEF Acts, Grows, Longer, Net, Accepting
  <2> QED
    BY <1>1, <2>2, <2>3, AfterOne
<1> QED
  BY <1>1 DEF AfterAnswers
\* Whoever accepts cores of a manager, holds them there: nobody else offers them
\* to it.
LEMMA SelfChkOffersAfter ==
  ASSUME OInv, Names, AfterAnswers, NEW n \in Agent, SelfChkOffers(n)
  PROVE  AfterAnswers'
<1>1. n \in Node /\ IInv /\ Collecting /\ \A x \in Core : OnePlace(x)
  BY DEF Node, OInv, Owned
<1>2. PICK P, E : P = Unanswered(n) /\ E = {}
  OBVIOUS
<1>3. Acts(n, P, P, E)
  BY <1>2, SelfChkOffersActs
<1>4. ASSUME NEW a \in Agent, NEW p \in Node, NEW q \in Node,
             NEW i \in DOMAIN mail'[a], NEW x,
             Accepting(mail'[a][i], p), Lends(inter'[a][p], x),
             Lends(inter'[q][a], x), ~ Agreed(mail'[q], a)
      PROVE  \E j \in DOMAIN mail'[a] :
               /\ j > i /\ mail'[a][j].from = q
               /\ mail'[a][j].msg.sig = "REQ_CORES"
               /\ mail'[a][j].msg.body = "offers"
  <2>1. a \in Node
    BY DEF Node
  <2>2. Lends(inter[a][p], x) /\ Lends(inter[q][a], x)
    BY <1>1, <1>2, <1>3, <1>4, <2>1, NotLending
  <2>3. CASE i \in DOMAIN mail[a]
    BY SMTT(30), <1>1, <1>3, <1>4, <2>2, <2>3, AfterOne
  <2>4. CASE i \notin DOMAIN mail[a]
    <3>1. p = n /\ a \in P /\ Answer(n, a) = 1
      BY <1>3, <1>4, <2>1, <2>4 DEF Acts, Grows, Longer, Net, Accepting
    <3>2. PICK o : o = Head(selfopt_offers[n])
      OBVIOUS
    <3>3. selfopt_offers[n] # <<>> /\ a = o.sender
      BY <3>1, <3>2 DEF Answer, Accepts
    <3>4. Collected(n, o)
      BY <1>1, <3>2, <3>3, RangeTailed DEF Collecting
    <3>5. HeadType(n, a) = "REP_AGENT_OFFER_PENDING" /\ Fetched(a, n, o.cores)
      BY <3>3, <3>4 DEF Collected
    <3>6. ~ Busy(a, n)
      BY <1>1, <2>1, <3>5, Pending
    <3>7. ~ Agreed(mail[a], n)
      BY <3>6 DEF Agreed, Busy, Accepting
    <3>8. At(a, n, 1, x)
      BY <2>2, <3>1, <3>7 DEF At, Lies, Net
    <3>9. ~ Agreed(mail[q], a)
      BY <1>3, <1>4 DEF Acts, Grows, Longer, Net, Agreed, Range
    <3>10. At(q, a, 1, x)
      BY <2>2, <3>9 DEF At, Lies, Net
    <3>11. x \in Core
      <4>1. Speaks(Head(inter[a][p]))
        <5>1. SoundQueue(inter[a][p]) /\ inter[a][p] # <<>>
          BY <2>1, <2>2 DEF OInv, Owned, Sound, Net, Lends
        <5> QED
          BY <5>1, RangeTailed DEF SoundQueue
      <4> QED
        BY <2>2, <4>1 DEF Lends, Speaks
    <3>12. a = n
      BY <1>1, <2>1, <3>8, <3>10, <3>11 DEF OnePlace, Same
    <3> QED
      BY <3>5, <3>12 DEF Fetched, HeadType
  <2> QED
    BY <2>3, <2>4
<1> QED
  BY ONLY <1>4 DEF AfterAnswers
\* An offer that is made comes last of all.
LEMMA OfferCoresAfter ==
  ASSUME OInv, Names, AfterAnswers, NEW n \in Node, OfferCores(n)
  PROVE  AfterAnswers'
<1>1. PICK E : E = {}
  OBVIOUS
<1>2. PICK r, cores : r \in Node /\ Puts(n, r, cores) /\ Acts(n, E, E, {r})
  BY <1>1, OfferCoresActs
<1>3. ASSUME NEW a \in Agent, NEW p \in Node, NEW q \in Node,
             NEW i \in DOMAIN mail'[a], NEW x,
             Accepting(mail'[a][i], p), Lends(inter'[a][p], x),
             Lends(inter'[q][a], x), ~ Agreed(mail'[q], a)
      PROVE  \E j \in DOMAIN mail'[a] :
               /\ j > i /\ mail'[a][j].from = q
               /\ mail'[a][j].msg.sig = "REQ_CORES"
               /\ mail'[a][j].msg.body = "offers"
  <2>1. a \in Node /\ IsSeq(mail[a])
    BY DEF Node, OInv, Owned, Sound, SoundList, Net
  <2>2. i \in DOMAIN mail[a] /\ mail'[a][i] = mail[a][i]
    BY <1>1, <1>2, <1>3, <2>1 DEF Acts, Grows, Longer, Net, Accepting
  <2>3. inter[a][p] # <<>>
    BY <1>3, <2>1, <2>2, AcceptedFetched DEF OInv
  <2>4. Lends(inter[a][p], x)
    <3>1. ~ (a = n /\ p \in {r})
      BY <1>2, <2>3 DEF Puts
    <3> QED
      BY <1>2, <1>3, <2>1, <3>1, NotLending
  <2>5. CASE q = n /\ a = r
    <3>1. PICK s : /\ mail'[a] = Append(mail[a], s) /\ s.from = n
                   /\ s.msg.sig = "REQ_CORES" /\ s.msg.body = "offers"
      BY <1>2, <2>5 DEF Puts
    <3>2. /\ Len(mail[a]) \in Nat /\ DOMAIN mail[a] = 1..Len(mail[a])
          /\ DOMAIN mail'[a] = 1..(Len(mail[a]) + 1)
          /\ mail'[a][Len(mail[a]) + 1] = s
      BY <2>1, <3>1, Appending
    <3>3. PICK j : j = Len(mail[a]) + 1
      OBVIOUS
    <3>4. j \in DOMAIN mail'[a] /\ j > i /\ mail'[a][j] = s
      BY <2>2, <3>2, <3>3
    <3> QED
      BY <2>5, <3>1, <3>4
  <2>6. CASE ~ (q = n /\ a = r)
    <3>1. ~ (q = n /\ a \in {r})
      BY <2>6
    <3>2. Lends(inter[q][a], x)
      BY <1>2, <1>3, <2>1, <3>1, NotLending
    <3> QED
      BY <1>2, <1>3, <2>2, <2>4, <3>2, AfterOne
  <2> QED
    BY <2>5, <2>6
<1> QED
  BY <1>3 DEF AfterAnswers

-----------------------------------------------------------------------------
(* Lists and books go on to name cores of applications.                      *)
\* The network changes as one of the lemmas above says.
StepsOn(n) == \E P, R, N : Acts(n, P, R, N) \/ Heeds(n, P)
GivenLists ==
  \A a \in Agent : \A i \in DOMAIN my_cores[a] : my_cores[a][i].core \in Given
LEMMA NamesKept ==
  ASSUME OInv, Names, NEW n \in Node, StepsOn(n), GivenLists', Booked'
  PROVE  Names'
<1>1. NamesOf(Net)'
  BY NamesGrow DEF Names, StepsOn
<1> QED
  BY <1>1 DEF Names, GivenLists, Booked, Covered, Bookish
\* One list changes, and names no other cores.
LEMMA GivenKept ==
  ASSUME Holding, GivenLists, NEW n \in Agent, NEW l,
         my_cores' = [my_cores EXCEPT ![n] = l],
         \A i \in DOMAIN l : l[i].core \in Given
  PROVE  GivenLists'
<1>1. my_cores'[n] = l /\ \A a \in Agent : a # n => my_cores'[a] = my_cores[a]
  BY DEF Holding
<1>2. ASSUME NEW a \in Agent, NEW i \in DOMAIN my_cores'[a]
      PROVE  my_cores'[a][i].core \in Given
  <2>1. CASE a = n
    BY <1>1, <1>2, <2>1
  <2>2. CASE a # n
    BY <1>1, <1>2, <2>2 DEF GivenLists
  <2> QED
    BY <2>1, <2>2
<1> QED
  BY <1>2 DEF GivenLists
LEMMA MarkGiven ==
  ASSUME Holding, GivenLists, NEW n \in Node,
         \/ my_cores' = my_cores
         \/ /\ n \notin Controller
            /\ \E cores, old, m :
                 my_cores' = [my_cores EXCEPT ![n] =
                                Mark(my_cores[n], cores, old, m)]
  PROVE  GivenLists'
<1>1. CASE my_cores' = my_cores
  BY <1>1 DEF GivenLists
<1>2. CASE my_cores' # my_cores
  <2>1. PICK k : k = my_cores[n]
    OBVIOUS
  <2>2. n \in Agent /\ Listing(k)
    BY <1>2, <2>1 DEF Node, Holding
  <2>3. PICK cores, old, m :
          my_cores' = [my_cores EXCEPT ![n] = Mark(k, cores, old, m)]
    BY <1>2, <2>1
  <2>4. PICK l : l = Mark(k, cores, old, m)
    OBVIOUS
  <2>5. \A i \in DOMAIN l : i \in DOMAIN k /\ l[i].core = k[i].core
    BY <2>2, <2>4, MarkIs
  <2>6. \A i \in DOMAIN l : l[i].core \in Given
    BY <2>1, <2>2, <2>5 DEF GivenLists
  <2> QED
    BY <2>2, <2>3, <2>4, <2>6, GivenKept
<1> QED
  BY <1>1, <1>2

LEMMA SelfChkOffersGiven ==
  ASSUME WInv, Names, GivenLists, NEW a \in Agent, SelfChkOffers(a)
  PROVE  GivenLists'
<1>1. PICK s, taken, l :
        /\ s \in Node /\ taken \in SUBSET Core
        /\ my_cores' = [my_cores EXCEPT ![a] = l]
        /\ Joined(my_cores[a], taken, l)
        /\ \A x \in taken : At(s, a, 1, x) /\ ~ Busy(a, s)
  BY Took DEF WInv
<1>2. OInv /\ Holding /\ a \in Node
  BY DEF WInv, OInv, Owned, Node
<1>3. ASSUME NEW x \in taken PROVE x \in Given
  <2>1. Lends(inter[s][a], x)
    BY <1>1, <1>2, AtQuiet
  <2>2. Head(inter[s][a]).cores \subseteq Given
    BY <1>1, <1>2, <2>1, OfferedGiven DEF Lends, Names
  <2> QED
    BY <2>1, <2>2 DEF Lends
<1>4. \A i \in DOMAIN l : l[i].core \in Given
  BY <1>1, <1>3 DEF Joined, GivenLists
<1> QED
  BY <1>1, <1>2, <1>4, GivenKept
LEMMA RepOffersYesGiven ==
  ASSUME WInv, Names, GivenLists, NEW n \in Node, RepOffersYes(n)
  PROVE  GivenLists'
<1>1. Holding
  BY DEF WInv, OInv, Owned
<1>2. CASE n \in Controller
  BY <1>2 DEF RepOffersYes, GivenLists
<1>3. CASE n \notin Controller
  <2>1. PICK k, cores : k = my_cores[n] /\ cores = Head(inter[n][Peer(n)]).cores
    OBVIOUS
  <2>2. PICK l : l = Without(k, cores)
    OBVIOUS
  <2>3. n \in Agent /\ Listing(k) /\ my_cores' = [my_cores EXCEPT ![n] = l]
    BY <1>1, <1>3, <2>1, <2>2 DEF Node, Holding, RepOffersYes
  <2>4. PICK order \in [DOMAIN l -> DOMAIN k] : \A i \in DOMAIN l : l[i] = k[order[i]]
    BY <2>2, <2>3, WithoutIs
  <2>5. \A i \in DOMAIN l : l[i].core \in Given
    BY <2>1, <2>3, <2>4 DEF GivenLists
  <2> QED
    BY <1>1, <2>3, <2>5, GivenKept
<1> QED
  BY <1>2, <1>3
LEMMA AgentEndsGiven ==
  ASSUME WInv, GivenLists, NEW a \in Agent, AgentEnds(a)
  PROVE  GivenLists'
<1>1. PICK l : l = <<>>
  OBVIOUS
<1>2. my_cores' = [my_cores EXCEPT ![a] = l] /\ \A i \in DOMAIN l : l[i].core \in Given
  BY <1>1 DEF AgentEnds
<1> QED
  BY <1>2, GivenKept DEF WInv, OInv, Owned
LEMMA AnswerGiven ==
  ASSUME WInv, GivenLists, NEW n \in Node,
         RepOffersNo(n) \/ RejectOffer(n) \/ OfferCores(n)
  PROVE  GivenLists'
<1>1. Holding
  BY DEF WInv, OInv, Owned
<1>2. CASE n \in Controller
  BY <1>1, <1>2, MarkGiven DEF RepOffersNo, RejectOffer, OfferCores
<1>3. CASE n \notin Controller
  <2>1. \E cores, old, m :
          my_cores' = [my_cores EXCEPT ![n] = Mark(my_cores[n], cores, old, m)]
    BY <1>3 DEF RepOffersNo, RejectOffer, OfferCores
  <2> QED
    BY <1>1, <1>3, <2>1, MarkGiven
<1> QED
  BY <1>2, <1>3

-----------------------------------------------------------------------------
(* The invariant, from step to step.                                         *)
Typed ==
  /\ Names /\ Pacing /\ AllHeld /\ AfterAnswers /\ Booked
  /\ num_apps_terminated \in Nat
TInv == CInv /\ Typed
\* What is left of the program's course.
LEMMA OtherPaces ==
  ASSUME Pacing, NEW n \in Node,
         \/ n \in Agent /\ AppFinishes(n)
         \/ ReqCores(n) \/ AckClear(n) \/ RejectRequest(n) \/ AckData(n)
         \/ CollectOffer(n) \/ OfferCores(n)
         \/ n \in Controller /\ BookHandler(n)
  PROVE  Pacing'
<1>1. UNCHANGED <<state, pending_state, timer, asking, leaving, rounds,
                  my_cores_count>>
  BY DEF AppFinishes, ReqCores, AckClear, RejectRequest, AckData, CollectOffer,
         OfferCores, BookHandler, AddCoresDDS, RemCoresDDS, Finish, AppTerminated,
         agentVars
<1>2. \/ app_state' = app_state
      \/ n \in Agent /\ app_state' = [app_state EXCEPT ![n] = "APP_TERMINATED"]
  BY DEF AppFinishes, ReqCores, AckClear, RejectRequest, AckData, CollectOffer,
         OfferCores, BookHandler, AddCoresDDS, RemCoresDDS, Finish, AppTerminated,
         agentVars
<1> QED
  BY <1>1, <1>2 DEF Pacing, Ranges, Paced
LEMMA CountsOn ==
  ASSUME num_apps_terminated \in Nat, Next
  PROVE  num_apps_terminated' \in Nat
<1>1. CASE num_apps_terminated' = num_apps_terminated
  BY <1>1
<1>2. CASE \E c \in Controller : Finish(c) \/ AppTerminated(c)
  <2>1. PICK k \in {0, 1} : num_apps_terminated' = num_apps_terminated + k
    BY <1>2 DEF Finish, AppTerminated
  <2> QED
    BY <2>1
<1>3. CASE ~ \E c \in Controller : Finish(c) \/ AppTerminated(c)
  <2>1. \/ \E a \in Agent : Program(a) \/ AppFinishes(a)
        \/ \E n \in Node : Handler(n)
        \/ \E c \in Controller : AddCoresDDS(c) \/ RemCoresDDS(c)
    BY <1>3 DEF Next, BookHandler
  <2>2. ASSUME NEW a \in Agent, Program(a) \/ AppFinishes(a)
        PROVE  num_apps_terminated' = num_apps_terminated
    BY <2>2 DEF Program, SelfOptStart, DiscoveryDone, Timer, LeaveAtTop, Leave,
         AgentZombie, InitManChkOffers, AppFinishes, SelfChkOffers, AgentEnds
  <2>3. ASSUME NEW n \in Node, Handler(n)
        PROVE  num_apps_terminated' = num_apps_terminated
    BY <2>3 DEF Handler, ReqCores, OfferCores, CollectOffer, AckData, AckClear,
         RepOffersNo, RepOffersYes, RejectRequest, RejectOffer
  <2>4. ASSUME NEW c \in Controller, AddCoresDDS(c) \/ RemCoresDDS(c)
        PROVE  num_apps_terminated' = num_apps_terminated
    BY <2>4 DEF AddCoresDDS, RemCoresDDS
  <2> QED
    BY <1>1, <2>1, <2>2, <2>3, <2>4
<1> QED
  BY <1>2, <1>3

LEMMA ProgramTyped ==
  ASSUME TInv, Next, NEW a \in Agent, Program(a) \/ AppFinishes(a)
  PROVE  Typed'
<1>1. /\ WInv /\ OInv /\ Courses /\ Names /\ Pacing /\ AllHeld /\ AfterAnswers
      /\ Booked /\ Holding /\ GivenLists /\ a \in Node
  BY DEF TInv, Typed, CInv, WInv, OInv, Owned, Names, GivenLists, Node
<1>2. Pacing'
  BY <1>1, ProgramPaces, OtherPaces
<1>3. AllHeld'
  BY <1>1, ProgramHeld, SelfChkOffersHeld, AgentEndsHeld DEF Program
<1>4. Booked'
  BY <1>1, ProgramBooked
<1>5. PICK P, E : P = Unanswered(a) /\ E = {}
  OBVIOUS
<1>6. AfterAnswers' /\ StepsOn(a) /\ GivenLists'
  <2>1. CASE SelfChkOffers(a)
    <3>1. Acts(a, P, P, E)
      BY <1>1, <1>5, <2>1, SelfChkOffersActs
    <3> QED
      BY <1>1, <2>1, <3>1, SelfChkOffersAfter, SelfChkOffersGiven DEF StepsOn
  <2>2. CASE AgentEnds(a)
    <3>1. Acts(a, E, E, E)
      BY <1>1, <1>5, <2>2, AgentEndsActs
    <3> QED
      BY <1>1, <1>5, <2>2, <3>1, ProgramAfter, AgentEndsGiven DEF StepsOn
  <2>3. CASE ~ (SelfChkOffers(a) \/ AgentEnds(a))
    <3>1. Acts(a, E, E, E)
      BY <1>1, <1>5, <2>3, ProgramHeld DEF Program
    <3>2. my_cores' = my_cores
      BY <2>3 DEF Program, SelfOptStart, DiscoveryDone, Timer, LeaveAtTop, Leave,
           AgentZombie, InitManChkOffers, AppFinishes
    <3>3. GivenLists'
      BY <1>1, <3>2, MarkGiven
    <3> QED
      BY <1>1, <1>5, <3>1, <3>3, ProgramAfter DEF StepsOn
  <2> QED
    BY <2>1, <2>2, <2>3
<1>7. Names'
  BY <1>1, <1>4, <1>6, NamesKept
<1>8. (num_apps_terminated \in Nat)'
  BY CountsOn DEF TInv, Typed
<1> QED
  BY <1>2, <1>3, <1>4, <1>6, <1>7, <1>8 DEF Typed

LEMMA HandlerTyped ==
  ASSUME TInv, WInv', Next, NEW n \in Node, Handler(n)
  PROVE  Typed'
<1>1. /\ WInv /\ OInv /\ Courses /\ Names /\ Pacing /\ AllHeld /\ AfterAnswers
      /\ Booked /\ Holding /\ GivenLists
  BY DEF TInv, Typed, CInv, WInv, OInv, Owned, Names, GivenLists
<1>2. CASE RepOffersNo(n) \/ RepOffersYes(n) \/ RejectOffer(n)
  <2>1. DOMAIN my_cores_count' = Agent
    BY <1>1, <1>2 DEF RepOffersNo, RepOffersYes, RejectOffer, Pacing, Ranges
  <2>2. Pacing'
    BY <1>1, <1>2, <2>1, AnswerPaces
  <2>3. AllHeld' /\ Booked' /\ GivenLists'
    BY <1>1, <1>2, AnswerHeld, RepOffersYesHeld, AnswerBooked, RepOffersYesBooked,
       AnswerGiven, RepOffersYesGiven
  <2>4. PICK P : P = {Peer(n)}
    OBVIOUS
  <2>5. Heeds(n, P)
    BY <1>1, <1>2, <2>4, AnswerHeeds, RepOffersYesHeeds
  <2>6. OfferOver(n, Peer(n))
    BY <1>1, <1>2, RepOffersNoOwned, RejectOfferOwned, RepOffersYesOwned
  <2>7. \A p : Accepting(Head(mail[n]), p) => OfferOver(n, p)
    BY <2>6 DEF Accepting, Peer
  <2> QED
    BY <1>1, <2>2, <2>3, <2>5, <2>7, AfterHeeds, NamesKept, CountsOn
       DEF StepsOn, Typed, TInv
<1>3. CASE OfferCores(n)
  <2>1. Pacing' /\ AllHeld' /\ Booked' /\ GivenLists' /\ AfterAnswers'
    BY <1>1, <1>3, OtherPaces, OfferCoresHeld, OfferCoresBooked, AnswerGiven,
       OfferCoresAfter
  <2>2. PICK E : E = {}
    OBVIOUS
  <2>3. StepsOn(n)
    BY <1>1, <1>3, <2>2, OfferCoresActs DEF StepsOn
  <2> QED
    BY <1>1, <2>1, <2>3, NamesKept, CountsOn DEF Typed, TInv
<1>4. CASE \/ ReqCores(n) \/ AckClear(n) \/ RejectRequest(n) \/ AckData(n)
           \/ CollectOffer(n)
  <2>1. my_cores' = my_cores
    BY <1>4 DEF ReqCores, AckClear, RejectRequest, AckData, CollectOffer, agentVars
  <2>2. Pacing' /\ AllHeld' /\ Booked' /\ GivenLists'
    BY <1>1, <1>4, <2>1, OtherPaces, HandlerHeld, ElseBooked, MarkGiven
  <2>3. CASE CollectOffer(n)
    <3>1. PICK P, E : P = {waiting[n].from} /\ E = {}
      OBVIOUS
    <3>2. Acts(n, P, E, E)
      BY <1>1, <2>3, <3>1, CollectOfferActs
    <3> QED
      BY <1>1, <2>2, <3>1, <3>2, ProgramAfter, NamesKept, CountsOn
         DEF StepsOn, Typed, TInv
  <2>4. CASE ~ CollectOffer(n)
    <3>1. PICK P : P = {Peer(n)}
      OBVIOUS
    <3>2. Heeds(n, P)
      BY <1>1, <1>4, <2>4, <3>1, ReqCoresHeeds, AckClearHeeds, AckDataHeeds
    <3>3. Head(mail[n]).msg.sig # "REP_OFFERS"
      BY <1>4, <2>4 DEF ReqCores, AckClear, RejectRequest, AckData, Receives
    <3>4. \A p : Accepting(Head(mail[n]), p) => OfferOver(n, p)
      BY <3>3 DEF Accepting
    <3> QED
      BY <1>1, <2>2, <3>2, <3>4, AfterHeeds, NamesKept, CountsOn
         DEF StepsOn, Typed, TInv
  <2> QED
    BY <2>3, <2>4
<1> QED
  BY <1>2, <1>3, <1>4 DEF Handler

LEMMA BookTyped ==
  ASSUME TInv, Next, NEW c \in Controller, BookHandler(c)
  PROVE  Typed'
<1>1. /\ WInv /\ OInv /\ Names /\ Pacing /\ AllHeld /\ AfterAnswers
      /\ Booked /\ Holding /\ GivenLists /\ c \in Node
  BY DEF TInv, Typed, CInv, WInv, OInv, Owned, Names, GivenLists, Node
<1>2. my_cores' = my_cores
  BY DEF BookHandler, AddCoresDDS, RemCoresDDS, Finish, AppTerminated, agentVars
<1>3. Pacing' /\ AllHeld' /\ GivenLists'
  BY <1>1, <1>2, OtherPaces, BookHeld, MarkGiven DEF BookHandler
<1>4. Booked'
  BY <1>1, ElseBooked, AddCoresDDSBooked, RemCoresDDSBooked, FinishBooked
     DEF BookHandler
<1>5. PICK P : P = {Peer(c)}
  OBVIOUS
<1>6. Heeds(c, P)
  BY <1>1, <1>5, AddCoresDDSHeeds, RemCoresDDSHeeds, FinishHeeds,
     AppTerminatedHeeds DEF BookHandler
<1>7. Head(mail[c]).msg.sig # "REP_OFFERS"
  BY DEF BookHandler, AddCoresDDS, RemCoresDDS, Finish, AppTerminated, Receives
<1>8. \A p : Accepting(Head(mail[c]), p) => OfferOver(c, p)
  BY <1>7 DEF Accepting
<1> QED
  BY <1>1, <1>3, <1>4, <1>6, <1>8, AfterHeeds, NamesKept, CountsOn
     DEF StepsOn, Typed, TInv

LEMMA NextTyped == TInv /\ [Next]_vars => TInv'
<1> SUFFICES ASSUME TInv, [Next]_vars PROVE TInv'
  OBVIOUS
<1>1. CInv'
  BY NextCounts DEF TInv
<1>2. CASE UNCHANGED vars
  <2>1. /\ UNCHANGED <<state, pending_state, app_state, my_cores>>
        /\ UNCHANGED <<my_cores_count, timer, asking, leaving, rounds>>
        /\ UNCHANGED <<inter, mail, book, num_apps_terminated>>
    BY <1>2 DEF vars, agentVars, netVars
  <2>2. Net' = Net
    BY <2>1 DEF Net
  <2>3. Names'
    BY <2>1, <2>2 DEF Names, NamesOf, TInv, Typed
  <2>4. Pacing'
    BY <2>1 DEF Pacing, Ranges, Paced, TInv, Typed
  <2>5. AllHeld'
    BY <2>1 DEF AllHeld, Held, TInv, Typed
  <2>6. AfterAnswers'
    BY <2>1 DEF AfterAnswers, TInv, Typed
  <2>7. ASSUME NEW c \in Controller PROVE Covered(c)'
    <3>1. Liable(c)' = Liable(c)
      BY <2>1 DEF Liable
    <3> QED
      BY <2>1, <3>1 DEF Booked, Covered, TInv, Typed
  <2> QED
    BY <1>1, <2>1, <2>3, <2>4, <2>5, <2>6, <2>7 DEF Booked, TInv, Typed
<1>3. CASE Next
  <2>1. Typed'
    BY <1>1, <1>3, ProgramTyped, HandlerTyped, BookTyped DEF Next, CInv
  <2> QED
    BY <1>1, <2>1 DEF TInv
<1> QED
  BY <1>2, <1>3

\* The list of a manager at the start.
Fresh(l) == \A i \in DOMAIN l : l[i].core \in Given /\ l[i].offered_to = NotOffered
LEMMA FirstList ==
  ASSUME NEW a \in Agent, NEW l, l = Entries(FirstCores[a])
  PROVE  /\ Fresh(l) /\ OnceIn(l)
         /\ l[1].core = a /\ Len(l) = Len(FirstCores[a])
<1>1. FirstCores[a] \in Seq(Core) /\ FirstCores[a] # <<>> /\ Head(FirstCores[a]) = a
  BY StartAssumption
<1>2. PICK q, N : q = FirstCores[a] /\ N = Len(q)
  OBVIOUS
<1>3. /\ N \in Nat /\ N # 0 /\ DOMAIN q = 1..N /\ \A i \in 1..N : q[i] \in Core
      /\ q[1] = a
  BY <1>1, <1>2
<1>4. \A i \in 1..N : q[i] \notin Controller
  BY <1>2, <1>3, WorkerAssumption DEF Range
<1>5. \A i, j \in 1..N : q[i] = q[j] => i = j
  BY <1>2, <1>3, StartAssumption
<1>6. l = [i \in 1..N |-> [core |-> q[i], offered_to |-> NotOffered]]
  BY <1>2, <1>3 DEF Entries
<1>7. Len(l) = N
  <2>1. l \in Seq([core : Core, offered_to : {NotOffered}])
    BY <1>3, <1>6
  <2> QED
    BY <1>3, <1>6, <2>1
<1>8. OnceIn(l)
  BY <1>5, <1>6 DEF OnceIn
<1> QED
  BY <1>2, <1>3, <1>4, <1>6, <1>7, <1>8 DEF Given, Fresh

\* The book of a controller at the start.
LEMMA FirstBook ==
  ASSUME NEW c \in Controller, NEW b, b = BookAtStart(c)
  PROVE  /\ Bookish(b, c) /\ b.free = Cardinality(FreeAtStart(c))
         /\ \A x \in DOMAIN b.offered_to :
              b.offered_to[x] = NotOffered => x \in FreeAtStart(c)
<1>1. PICK own, M, d :
        /\ own = {x \in Core \ {c} : idag_mask[x] = c}
        /\ M = [x \in own |-> IF x \in FreeAtStart(c) THEN NotOffered
                              ELSE HolderAtStart(x)]
        /\ DOMAIN d \subseteq Agent
        /\ b = [offered_to |-> M, free |-> Cardinality(FreeAtStart(c)), dds |-> d]
  BY DEF BookAtStart
<1>2. own = {x \in Given : idag_mask[x] = c}
  BY <1>1, ClusterAssumption DEF Given, Core, Node
<1>3. ASSUME NEW x \in own, x \notin FreeAtStart(c)
      PROVE  M[x] \in Agent
  <2>1. \E a \in Agent : x \in Range(FirstCores[a])
    BY <1>1, <1>3 DEF FreeAtStart
  <2>2. HolderAtStart(x) \in Agent
    BY <2>1 DEF HolderAtStart
  <2> QED
    BY <1>1, <1>3, <2>2
<1>4. \A x \in own : x \in FreeAtStart(c) => M[x] = NotOffered
  BY <1>1
<1>5. DOMAIN M = own
  BY <1>1
<1>6. b.offered_to = M /\ b.free = Cardinality(FreeAtStart(c)) /\ b.dds = d
  BY <1>1
<1>7. Range(M) \subseteq Agent \cup {NotOffered, Elsewhere}
  BY <1>3, <1>4, <1>5 DEF Range
<1>8. Bookish(b, c)
  BY <1>1, <1>2, <1>5, <1>6, <1>7 DEF Bookish
<1>9. NotOffered \notin Agent
  BY ClusterAssumption DEF Node
<1> QED
  BY <1>3, <1>5, <1>6, <1>8, <1>9

\* Nothing is under way at the start, and who has a core is in the books.
LEMMA InitTyped == Init => Typed
<1> SUFFICES ASSUME Init PROVE Typed
  OBVIOUS
<1>1. /\ inter = [n \in Node |-> [p \in Node |-> <<>>]]
      /\ mail = [n \in Node |-> <<>>]
      /\ my_cores = [a \in Agent |-> Entries(FirstCores[a])]
      /\ my_cores_count = [a \in Agent |-> Len(FirstCores[a])]
      /\ book = [c \in Controller |-> BookAtStart(c)]
      /\ app_state = [a \in Agent |-> "RUNNING"]
      /\ num_apps_terminated = 0
  BY DEF Init
<1>2. PICK none : none = <<>> /\ DOMAIN none = {} /\ Range(none) = {}
  <2>1. DOMAIN <<>> = {}
    OBVIOUS
  <2>2. Range(<<>>) = {}
    BY <2>1 DEF Range
  <2> QED
    BY <2>1, <2>2
<1>3. /\ \A n, p \in Node : inter[n][p] = none
      /\ \A p \in Node : mail[p] = none
  BY <1>1, <1>2
<1>4. ASSUME NEW a \in Agent
      PROVE  \A i \in DOMAIN my_cores[a] : /\ my_cores[a][i].core \in Given
                                           /\ my_cores[a][i].offered_to = NotOffered
  <2>1. PICK l : l = Entries(FirstCores[a]) /\ my_cores[a] = l
    BY <1>1
  <2>2. Fresh(l)
    BY <2>1, FirstList
  <2> QED
    BY <2>1, <2>2 DEF Fresh
<1>5. ASSUME NEW c \in Controller
      PROVE  /\ Bookish(book[c], c) /\ book[c].free = Cardinality(FreeAtStart(c))
             /\ \A x \in DOMAIN book[c].offered_to :
                  book[c].offered_to[x] = NotOffered => x \in FreeAtStart(c)
  <2>1. PICK b : b = BookAtStart(c) /\ book[c] = b
    BY <1>1
  <2> QED
    BY <2>1, FirstBook
<1>6. Names
  <2>1. Net.inter = inter /\ Net.mail = mail
    BY DEF Net
  <2>2. NamesOf(Net)
    BY <1>2, <1>3, <2>1 DEF NamesOf, ProperQueue, NamedList
  <2> QED
    BY <1>4, <1>5, <2>2 DEF Names, Bookish
<1>7. Pacing
  <2>1. /\ rounds \in Spent
        /\ state = [a \in Agent |-> IF rounds[a] < MaxRounds[a]
                                    THEN "AGENT_SELF_OPT" ELSE "IDLE_AGENT"]
        /\ pending_state = [a \in Agent |-> "NO_PENDING_STATE"]
        /\ timer = [a \in Agent |-> FALSE] /\ asking = [a \in Agent |-> FALSE]
        /\ leaving = [a \in Agent |-> FALSE]
    BY DEF Init
  <2>2. DOMAIN rounds = Agent /\ \A a \in Agent : rounds[a] \in 0..MaxRounds[a]
    BY <2>1, StartAssumption
  <2>3. Ranges
    BY <1>1, <2>1, <2>2 DEF Ranges, AgentState
  <2>4. \A a \in Agent : Paced(a)
    BY <1>1, <2>1, <2>2 DEF Paced
  <2> QED
    BY <2>3, <2>4 DEF Pacing
<1>8. AllHeld
  <2>1. ASSUME NEW a \in Agent PROVE Held(a)
    <3>1. PICK l : l = Entries(FirstCores[a]) /\ my_cores[a] = l
      BY <1>1
    <3>2. OnceIn(l) /\ l[1].core = a /\ Len(l) = my_cores_count[a]
      BY <1>1, <3>1, FirstList
    <3>3. Marks(l, inter[a])
      BY <1>4, <3>1 DEF Marks
    <3> QED
      BY <1>1, <3>1, <3>2, <3>3 DEF Held, Tally
  <2> QED
    BY <2>1 DEF AllHeld
<1>9. AfterAnswers
  BY <1>2, <1>3 DEF AfterAnswers, Node
<1>10. Booked
  <2>1. ASSUME NEW c \in Controller PROVE Covered(c)
    <3>1. PICK F : F = FreeAtStart(c)
      OBVIOUS
    <3>2. F \subseteq Core
      BY <3>1 DEF FreeAtStart
    <3>3. IsFiniteSet(F)
      BY <3>2, FiniteNodes, FS_Subset
    <3>4. \A p \in Agent : \A x : ~ Lends(inter[c][p], x)
      BY <1>2, <1>3 DEF Lends, Node
    <3>5. Liable(c) \subseteq Tag(c, F)
      <4>1. ASSUME NEW y \in Liable(c) PROVE y \in Tag(c, F)
        <5>1. /\ y = <<y[1], y[2]>> /\ y[1] = c
              /\ y[2] \in DOMAIN book[c].offered_to
              /\ book[c].offered_to[y[2]] = NotOffered
          BY <3>4 DEF Liable
        <5>2. y[2] \in F
          BY <1>5, <3>1, <5>1
        <5> QED
          BY <5>1, <5>2 DEF Tag
      <4> QED
        BY <4>1
    <3>6. IsFiniteSet(Tag(c, F)) /\ Cardinality(Tag(c, F)) = Cardinality(F)
      BY <3>3, TagIs
    <3>7. Cardinality(Liable(c)) <= Cardinality(Tag(c, F))
      BY <3>5, <3>6, FS_Subset
    <3>8. Cardinality(F) \in Nat
      BY <3>3, FS_CardinalityType
    <3> QED
      BY <1>5, <3>1, <3>6, <3>7, <3>8 DEF Covered
  <2> QED
    BY <2>1 DEF Booked
<1> QED
  BY <1>1, <1>6, <1>7, <1>8, <1>9, <1>10 DEF Typed

LEMMA TypesInvariance == Spec => []TInv
<1>1. Init => TInv
  BY InitCounts, InitTyped DEF TInv
<1>2. TInv /\ [Next]_vars => TInv'
  BY NextTyped
<1> QED
  BY <1>1, <1>2, PTL DEF Spec

LEMMA TypeOKAll == TInv => TypeOK
<1> SUFFICES ASSUME TInv PROVE TypeOK
  OBVIOUS
<1>1. /\ Names /\ Pacing /\ AllHeld /\ Booked /\ Holding
      /\ num_apps_terminated \in Nat
  BY DEF TInv, Typed, CInv, WInv, OInv, Owned
<1>2. ASSUME NEW a \in Agent, NEW i \in DOMAIN my_cores[a]
      PROVE  my_cores[a][i] \in [core : Core, offered_to : Node \cup {NotOffered}]
  <2>1. PICK e : e = my_cores[a][i]
    OBVIOUS
  <2>2. e = [core |-> e.core, offered_to |-> e.offered_to] /\ e.core \in Core
    BY <1>1, <2>1 DEF Holding, Listing
  <2>3. e.offered_to \in Node \cup {NotOffered}
    BY <1>1, <2>1 DEF AllHeld, Held, Marks, Node
  <2> QED
    BY <2>1, <2>2, <2>3
<1>3. ASSUME NEW a \in Agent, my_cores[a] # <<>>
      PROVE  my_cores[a][1].core = a /\ my_cores_count[a] = Len(my_cores[a])
  BY <1>1, <1>3 DEF AllHeld, Held, Tally
<1>4. ASSUME NEW c \in Controller
      PROVE  /\ Range(book[c].offered_to) \subseteq
                  Agent \cup {NotOffered, Elsewhere}
             /\ DOMAIN book[c].dds \subseteq Agent /\ book[c].free \in Nat
  BY <1>1 DEF Booked, Covered, Bookish
<1>5. ASSUME NEW a \in Agent PROVE rounds[a] \in 0..(MaxRounds[a] + 1)
  <2>1. rounds[a] \in 0..MaxRounds[a] /\ MaxRounds[a] \in Nat
    BY <1>1, StartAssumption DEF Pacing, Paced
  <2> QED
    BY <2>1
<1> QED
  BY <1>1, <1>2, <1>3, <1>4, <1>5 DEF TypeOK, Pacing, Ranges

\* TypeOKHolds: every variable has its type, a manager's list begins with its
\* own core and my_cores_count is its length while it has one (my_cores and
\* my_cores_count, structs.h and resource_negotiation.c), the count of free
\* cores of a controller never falls below zero (DDS->num_of_cores), and no
\* manager makes more rounds than selfopt_interval allows.
THEOREM TypeOKHolds == Spec => []TypeOK
  BY TypesInvariance, TypeOKAll, PTL
=============================================================================
