-------------------------------- MODULE DDS --------------------------------
(***************************************************************************)
(* The book a controller keeps of the cores of its cluster, as operators   *)
(* on one book:                                                            *)
(*   offered_to  for every core it can give away, the node the core was    *)
(*               offered or given to (the offered_to fields of the         *)
(*               controller's my_cores list),                              *)
(*   free        DDS->num_of_cores, the first entry of the DDS list: cores *)
(*               the controller still owns,                                *)
(*   dds         the other entries of the list: cores of the cluster per   *)
(*               agent, for the agents that have an entry.                 *)
(* The operators are the parts of the signal handlers that change a book.  *)
(***************************************************************************)
EXTENDS Integers, FiniteSets

CONSTANTS
  NotOffered,  \* the value -1 of offered_to: mine, not offered
  Elsewhere    \* the value -2 of offered_to: not mine but someone has it

\* A defect for the mutation runs: the old count of the entry is lost.
AddToEntryReset(dds, agent, n) ==
  [a \in DOMAIN dds \cup {agent} |-> IF a # agent THEN dds[a] ELSE n]

\* The entry of an agent after its count changes by n, made if it is missing.
AddToEntry(dds, agent, n) ==
  [a \in DOMAIN dds \cup {agent} |->
     IF a # agent THEN dds[a]
     ELSE n + (IF agent \in DOMAIN dds THEN dds[agent] ELSE 0)]

\* The entry of an agent after n cores are taken from it: nothing happens
\* without an entry, and an entry that reaches zero leaves the list.
TakeFromEntry(dds, agent, n) ==
  IF agent \notin DOMAIN dds THEN dds
  ELSE LET left == dds[agent] - n
       IN  [a \in IF left = 0 THEN DOMAIN dds \ {agent} ELSE DOMAIN dds |->
              IF a = agent THEN left ELSE dds[a]]

DropEntry(dds, agent) == [a \in DOMAIN dds \ {agent} |-> dds[a]]

\* Cores put on offer for node req: offer_cores marks them, the count of free
\* cores stays until the answer arrives.
OfferTo(book, cores, req) ==
  [book EXCEPT !.offered_to =
     [c \in DOMAIN @ |-> IF c \in cores THEN req ELSE @[c]]]

\* The offer is turned down (answer 0): only marks that still name the
\* requester are cleared.
OfferRefused(book, cores, req) ==
  [book EXCEPT !.offered_to =
     [c \in DOMAIN @ |->
        IF c \in cores /\ @[c] = req THEN NotOffered ELSE @[c]]]

\* The offer itself was rejected: marks are cleared whatever they say.
OfferRejected(book, cores) ==
  [book EXCEPT !.offered_to =
     [c \in DOMAIN @ |-> IF c \in cores THEN NotOffered ELSE @[c]]]

\* The offer is accepted (answer 1): the cores are no longer free.
OfferAccepted(book, cores) ==
  [book EXCEPT !.free = @ - Cardinality(cores)]

\* SIG_ADD_CORES_DDS: agent has the cores of this cluster in "cores"; its
\* entry grows by cnt.
AddCores(book, cores, agent, cnt) ==
  [offered_to |-> [c \in DOMAIN book.offered_to |->
                     IF c \in cores THEN agent ELSE book.offered_to[c]],
   free |-> book.free -
              Cardinality({c \in cores : book.offered_to[c] = NotOffered}),
   dds |-> AddToEntry(book.dds, agent, cnt)]

\* A defect for the mutation runs: cores that were given away are free.
RemCoresFree(book, cores, old, new, cnt) ==
  [book EXCEPT
     !.offered_to =
       [c \in DOMAIN @ |->
          CASE c \in cores /\ @[c] = NotOffered -> new
            [] c \in cores /\ @[c] = old -> NotOffered
            [] OTHER -> @[c]],
     !.dds = TakeFromEntry(@, old, cnt)]

\* SIG_REM_CORES_DDS: old gave the cores in "cores" to new.  The mark of a
\* core that says something else is left alone: it may already be added.
RemCores(book, cores, old, new, cnt) ==
  [book EXCEPT
     !.offered_to =
       [c \in DOMAIN @ |->
          CASE c \in cores /\ @[c] = NotOffered -> new
            [] c \in cores /\ @[c] = old -> Elsewhere
            [] OTHER -> @[c]],
     !.dds = TakeFromEntry(@, old, cnt)]

\* SIG_FINISH: the application of agent is over; its cores are free again and
\* its entry goes.
RemoveApp(book, cores, agent) ==
  LET back == {c \in cores : book.offered_to[c] = agent}
  IN  [offered_to |-> [c \in DOMAIN book.offered_to |->
                         IF c \in back THEN NotOffered
                         ELSE book.offered_to[c]],
       free |-> book.free + Cardinality(back),
       dds |-> DropEntry(book.dds, agent)]
=============================================================================
