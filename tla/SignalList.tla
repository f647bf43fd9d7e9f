----------------------------- MODULE SignalList -----------------------------
(***************************************************************************)
(* The mailbox of src/scc_signals.c.  Every core owns a cyclic signal list *)
(* in shared memory (its part of sig_array), a lock (scc_lock) and a       *)
(* bottom index that any core moves under that lock; the top index is      *)
(* private to the owner.  scc_kill appends a signal of one or two lines to *)
(* the list of the target, scc_signals_check drains the own list and runs  *)
(* the handler of each signal with the lock released.                      *)
(*                                                                         *)
(* A node runs two contexts: its program ("main": the polling loop and the *)
(* handlers it dispatches) and a timer handler ("timer") that pre-empts it *)
(* wherever the timer signals are not masked.  In the failure-detector     *)
(* builds that handler sends heartbeats with the same scc_kill.            *)
(*                                                                         *)
(* Bounds: the program of a node sends MaxR signals, its timer MaxBeats.   *)
(* MaxBacklog bounds the lines outstanding per list; nothing in the *)
(* code enforces such a bound, so it is a parameter: with MaxBacklog < LEN *)
(* the list is a FIFO channel, beyond it signals get lost.                 *)
(***************************************************************************)
EXTENDS Naturals, Sequences, FiniteSets

CONSTANTS
  Node,        \* the cores
  LEN,         \* MAX_SIGNAL_LIST_LEN, lines of one signal list
  MaxBacklog,  \* lines that may be outstanding for one list
  MaxR,        \* signals the program of a node sends
  MaxBeats     \* timer signals per node; 0 in the builds without detector

ASSUME LenAssumption == LEN \in Nat /\ LEN >= 3
ASSUME BoundAssumption ==
  MaxBacklog \in Nat /\ MaxR \in Nat /\ MaxBeats \in Nat

VARIABLES
  sig_array,     \* [Node -> [0..LEN-1 -> lines]]
  index_bottom,  \* [Node -> 0..LEN-1], shared, guarded by scc_lock
  index_top,     \* [Node -> 0..LEN-1], private to the owner of the list
  scc_lock,      \* [Node -> {0, 1}], value of the semaphore of the list
  masked,        \* [Node -> BOOLEAN], timer signals blocked in the node
  check,         \* [Node -> frame of scc_signals_check]
  kill,          \* [Node -> [Context -> frame of scc_kill]]
  R,             \* [Node -> Nat], serial number of the next signal
  beats,         \* [Node -> Nat], timer signals taken so far
  backlog,       \* [Node -> Nat], lines outstanding, and
  queue          \* [Node -> Seq(Signal)], signals published and not done with,
                 \* oldest first: not in the code

vars == <<sig_array, index_bottom, index_top, scc_lock, masked, check, kill,
          R, beats, backlog, queue>>

Context == {"main", "timer"}

\* A signal is identified by what line word 1 carries (sender and serial);
\* a heartbeat carries only the sender, here with serial MaxR.
Signal == [from : Node, serial : 0..MaxR, size : {1, 2}]
Line == [signal : Signal, part : {1, 2}]
NoLine == [part |-> 0]

\* The line a list slot or a local buffer may hold.
Slot == Line \cup {NoLine}

NoKill == [pc |-> "out"]
KillFrame == {NoKill} \cup
  [pc : {"wait", "write", "publish"}, target : Node, signal : Signal]

\* first and second are sig_read_ar, cnt is increase_cnt.
CheckFrame ==
  [pc : {"out", "wait", "read", "dispatch", "relock"},
   tmp_bottom : 0..(LEN - 1), first : Slot, second : Slot, cnt : {1, 2}]

IdleCheck ==
  [pc |-> "out", tmp_bottom |-> 0, first |-> NoLine, second |-> NoLine,
   cnt |-> 1]

Init ==
  /\ sig_array = [n \in Node |-> [i \in 0..(LEN - 1) |-> NoLine]]
  /\ index_bottom = [n \in Node |-> 0]
  /\ index_top = [n \in Node |-> 0]
  /\ scc_lock = [n \in Node |-> 1]
  /\ masked = [n \in Node |-> FALSE]
  /\ check = [n \in Node |-> IdleCheck]
  /\ kill = [n \in Node |-> [c \in Context |-> NoKill]]
  /\ R = [n \in Node |-> 0]
  /\ beats = [n \in Node |-> 0]
  /\ backlog = [n \in Node |-> 0]
  /\ queue = [n \in Node |-> <<>>]

-----------------------------------------------------------------------------
\* The program of a node is suspended while its timer handler runs.
Runs(n, c) == c = "main" => kill[n]["timer"] = NoKill

\* sem_wait and sem_post on the lock of list t.  AcquireAny, ReleaseNothing,
\* AdvanceNoWrap, AdvanceOne, SecondSlotNoWrap, TimerSignalUnmasked and
\* HandlerGetSecondNoSkip are defects for the mutation runs.
AcquireAny(t) == scc_lock' = [scc_lock EXCEPT ![t] = 0]
Acquire(t) == scc_lock[t] = 1 /\ scc_lock' = [scc_lock EXCEPT ![t] = 0]
ReleaseNothing(t) == UNCHANGED scc_lock
Release(t) == scc_lock' = [scc_lock EXCEPT ![t] = @ + 1]

AdvanceNoWrap(i, cnt) == i + cnt
AdvanceOne(i, cnt) == (i + 1) % LEN
Advance(i, cnt) == (i + cnt) % LEN

\* Where the second line of a signal goes whose first line is in slot i.
SecondSlotNoWrap(i) == IF i = LEN - 1 THEN i ELSE i + 1
SecondSlot(i) == Advance(i, 1)

\* Entry of scc_kill: signals_disable, and the line is built.
Kill(n, c, t, signal) ==
  /\ kill[n][c] = NoKill
  /\ backlog[t] + signal.size <= MaxBacklog
  /\ kill' = [kill EXCEPT ![n][c] =
                [pc |-> "wait", target |-> t, signal |-> signal]]
  /\ masked' = [masked EXCEPT ![n] = TRUE]
  /\ backlog' = [backlog EXCEPT ![t] = @ + signal.size]

\* The program calls scc_kill, from its own loop or from a handler.
SendSignal(n, t, size) ==
  /\ Runs(n, "main")
  /\ check[n].pc \in {"out", "dispatch"}
  /\ R[n] < MaxR
  /\ Kill(n, "main", t, [from |-> n, serial |-> R[n], size |-> size])
  /\ R' = [R EXCEPT ![n] = @ + 1]
  /\ UNCHANGED <<sig_array, index_bottom, index_top, scc_lock, check, beats,
                 queue>>

TimerSignalUnmasked(n, t) ==
  /\ beats[n] < MaxBeats
  /\ Kill(n, "timer", t, [from |-> n, serial |-> MaxR, size |-> 1])
  /\ beats' = [beats EXCEPT ![n] = @ + 1]
  /\ UNCHANGED <<sig_array, index_bottom, index_top, scc_lock, check, R,
                 queue>>

\* A timer signal arrives and its handler sends a heartbeat (or, in the
\* handler of the core that noticed a failure, a PREPARE_REQUEST, which also
\* goes to the node itself).
TimerSignal(n, t) ==
  /\ ~ masked[n]
  /\ beats[n] < MaxBeats
  /\ Kill(n, "timer", t, [from |-> n, serial |-> MaxR, size |-> 1])
  /\ beats' = [beats EXCEPT ![n] = @ + 1]
  /\ UNCHANGED <<sig_array, index_bottom, index_top, scc_lock, check, R,
                 queue>>

KillAcquire(n, c) ==
  /\ kill[n][c].pc = "wait" /\ Runs(n, c)
  /\ Acquire(kill[n][c].target)
  /\ kill' = [kill EXCEPT ![n][c].pc = "write"]
  /\ UNCHANGED <<sig_array, index_bottom, index_top, masked, check, R, beats,
                 backlog, queue>>

\* The lines are copied into the list; the second line of a signal at the end
\* of the list wraps to slot 0.
KillWrite(n, c) ==
  /\ kill[n][c].pc = "write" /\ Runs(n, c)
  /\ LET t == kill[n][c].target
         signal == kill[n][c].signal
         Put(part) == [signal |-> signal, part |-> part]
         old_value == index_bottom[t]
     IN  sig_array' = [sig_array EXCEPT ![t] =
           [i \in 0..(LEN - 1) |->
              CASE i = old_value -> Put(1)
                [] signal.size = 2 /\ i = SecondSlot(old_value) -> Put(2)
                [] OTHER -> sig_array[t][i]]]
  /\ kill' = [kill EXCEPT ![n][c].pc = "publish"]
  /\ UNCHANGED <<index_bottom, index_top, scc_lock, masked, check, R, beats,
                 backlog, queue>>

\* The bottom index moves, the lock is released, and signals_enable unmasks
\* the timers whatever their state was when scc_kill was called.
KillPublish(n, c) ==
  /\ kill[n][c].pc = "publish" /\ Runs(n, c)
  /\ LET t == kill[n][c].target
     IN  /\ index_bottom' = [index_bottom EXCEPT ![t] =
                               Advance(@, kill[n][c].signal.size)]
         /\ Release(t)
         /\ queue' = [queue EXCEPT ![t] = Append(@, kill[n][c].signal)]
  /\ kill' = [kill EXCEPT ![n][c] = NoKill]
  /\ masked' = [masked EXCEPT ![n] = FALSE]
  /\ UNCHANGED <<sig_array, index_top, check, R, beats, backlog>>

-----------------------------------------------------------------------------
\* A step of scc_signals_check by the program of n.
InCheck(n, pc) ==
  /\ Runs(n, "main")
  /\ kill[n]["main"] = NoKill
  /\ check[n].pc = pc

CheckEnter(n) ==
  /\ InCheck(n, "out")
  /\ check' = [check EXCEPT ![n].pc = "wait"]
  /\ masked' = [masked EXCEPT ![n] = TRUE]
  /\ UNCHANGED <<sig_array, index_bottom, index_top, scc_lock, kill, R, beats,
                 backlog, queue>>

\* sem_wait on the own lock, at entry or at the end of the loop body, and the
\* bottom index is read.
CheckAcquire(n) ==
  /\ \E pc \in {"wait", "relock"} : InCheck(n, pc)
  /\ Acquire(n)
  /\ check' = [check EXCEPT ![n].pc = "read",
                            ![n].tmp_bottom = index_bottom[n]]
  /\ UNCHANGED <<sig_array, index_bottom, index_top, masked, kill, R, beats,
                 backlog, queue>>

\* The loop takes the line at the top and releases the lock: dispatch.
CheckTake(n) ==
  /\ InCheck(n, "read")
  /\ index_top[n] # check[n].tmp_bottom
  /\ check' = [check EXCEPT ![n].pc = "dispatch",
                            ![n].first = sig_array[n][index_top[n]]]
  /\ Release(n)
  /\ UNCHANGED <<sig_array, index_bottom, index_top, masked, kill, R, beats,
                 backlog, queue>>

HandlerGetSecondNoSkip(n) ==
  /\ InCheck(n, "dispatch")
  /\ check[n].first.part = 1
  /\ check[n].first.signal.size = 2
  /\ check[n].second = NoLine
  /\ check' = [check EXCEPT ![n].second =
                              sig_array[n][Advance(index_top[n], 1)]]
  /\ UNCHANGED <<sig_array, index_bottom, index_top, scc_lock, masked, kill,
                 R, beats, backlog, queue>>

\* The handler of a two-line signal fetches the second line (new_RCCE_get),
\* without the lock, and sets increase_cnt to 2.
HandlerGetSecond(n) ==
  /\ InCheck(n, "dispatch")
  /\ check[n].first.part = 1
  /\ check[n].first.signal.size = 2
  /\ check[n].second = NoLine
  /\ check' = [check EXCEPT ![n].second =
                              sig_array[n][Advance(index_top[n], 1)],
                            ![n].cnt = 2]
  /\ UNCHANGED <<sig_array, index_bottom, index_top, scc_lock, masked, kill,
                 R, beats, backlog, queue>>

\* The handler is over when it has fetched every line of its signal.
HandlerDone(n) ==
  check[n].first.part = 1 /\ check[n].first.signal.size = 2
    => check[n].second # NoLine

CheckAdvance(n) ==
  /\ InCheck(n, "dispatch")
  /\ HandlerDone(n)
  /\ index_top' = [index_top EXCEPT ![n] = Advance(@, check[n].cnt)]
  /\ check' = [check EXCEPT ![n] =
                 [IdleCheck EXCEPT !.pc = "relock",
                                   !.tmp_bottom = check[n].tmp_bottom]]
  /\ backlog' = [backlog EXCEPT ![n] = IF @ < check[n].cnt THEN 0
                                       ELSE @ - check[n].cnt]
  /\ queue' = [queue EXCEPT ![n] = IF @ = <<>> THEN @ ELSE Tail(@)]
  /\ UNCHANGED <<sig_array, index_bottom, scc_lock, masked, kill, R, beats>>

\* The list is drained: final sem_post and signals_enable.
CheckDone(n) ==
  /\ InCheck(n, "read")
  /\ index_top[n] = check[n].tmp_bottom
  /\ check' = [check EXCEPT ![n] = IdleCheck]
  /\ Release(n)
  /\ masked' = [masked EXCEPT ![n] = FALSE]
  /\ UNCHANGED <<sig_array, index_bottom, index_top, kill, R, beats, backlog,
                 queue>>

-----------------------------------------------------------------------------
\* A started scc_kill or scc_signals_check runs on.
Proceed(n) ==
  \/ \E c \in Context :
       KillAcquire(n, c) \/ KillWrite(n, c) \/ KillPublish(n, c)
  \/ CheckAcquire(n) \/ CheckTake(n) \/ HandlerGetSecond(n)
  \/ CheckAdvance(n) \/ CheckDone(n)

Next ==
  \E n \in Node :
    \/ \E t \in Node, size \in {1, 2} : SendSignal(n, t, size)
    \/ \E t \in Node : TimerSignal(n, t)
    \/ CheckEnter(n)
    \/ Proceed(n)

Spec == Init /\ [][Next]_vars

\* Nodes keep polling (scc_pause ends in scc_signals_check), handlers end,
\* and a process waiting on a POSIX semaphore that is posted again and again
\* gets it in the end.
Fairness ==
  \A n \in Node :
    /\ WF_vars(CheckEnter(n))
    /\ SF_vars(\E c \in Context : KillAcquire(n, c))
    /\ SF_vars(CheckAcquire(n))
    /\ WF_vars(Proceed(n))

FairSpec == Spec /\ Fairness
-----------------------------------------------------------------------------
\* TypeOK: every variable has its type; indexes stay inside the list and a
\* lock is never posted above 1.
TypeOK ==
  /\ sig_array \in [Node -> [0..(LEN - 1) -> Slot]]
  /\ index_bottom \in [Node -> 0..(LEN - 1)]
  /\ index_top \in [Node -> 0..(LEN - 1)]
  /\ scc_lock \in [Node -> {0, 1}]
  /\ masked \in [Node -> BOOLEAN]
  /\ check \in [Node -> CheckFrame]
  /\ kill \in [Node -> [Context -> KillFrame]]
  /\ R \in [Node -> 0..MaxR]
  /\ beats \in [Node -> 0..MaxBeats]
  /\ backlog \in [Node -> Nat]
  /\ queue \in [Node -> Seq(Signal)]

\* The two ways to be inside the critical section of list t.
KillHolds(n, c, t) ==
  kill[n][c].pc \in {"write", "publish"} /\ kill[n][c].target = t
CheckHolds(t) == check[t].pc = "read"

\* LockExclusion: the bottom index of a list is only ever inspected or moved
\* by one context of one node at a time, whatever is pre-empted where: no two
\* scc_kill calls, and no scc_kill and scc_signals_check, are inside the lock
\* of the same list together (scc_signals.c 399-421, 443-470, 578-598).
LockExclusion ==
  \A t \in Node :
    /\ \A n1, n2 \in Node, c1, c2 \in Context :
         KillHolds(n1, c1, t) /\ KillHolds(n2, c2, t)
           => n1 = n2 /\ c1 = c2
    /\ \A n \in Node, c \in Context :
         ~ (KillHolds(n, c, t) /\ CheckHolds(t))

\* WholeSignal: a handler that reads the second line of its signal, after the
\* lock was given up and while others append to the list, gets the second
\* line of that very signal (new_RCCE_get, signal_handlers.c 39-73).
WholeSignal ==
  \A n \in Node :
    check[n].second # NoLine =>
      check[n].second = [signal |-> check[n].first.signal, part |-> 2]

\* n waits in sem_wait on the lock of list t, in the context that runs.
WaitsFor(n, t) ==
  \/ \E c \in Context :
       Runs(n, c) /\ kill[n][c].pc = "wait" /\ kill[n][c].target = t
  \/ /\ Runs(n, "main") /\ check[n].pc \in {"wait", "relock"}
     /\ kill[n]["main"] = NoKill /\ n = t

HoldsLock(n, t) ==
  (\E c \in Context : KillHolds(n, c, t)) \/ (n = t /\ CheckHolds(t))

WaitCycle ==
  \E S \in (SUBSET Node) \ {{}} :
    \A n \in S : \E m \in S, t \in Node : WaitsFor(n, t) /\ HoldsLock(m, t)

\* OnlyTimersBlock: cores wait for each other in a cycle only when a timer
\* handler sends from inside a program that holds the lock of its own list,
\* which scc_signals_check lets happen (timers are unmasked by the scc_kill of
\* a handler and the lock is taken again at 581).  Without timers that send,
\* the locks of the lists never deadlock.
OnlyTimersBlock ==
  WaitCycle =>
    \E n \in Node : CheckHolds(n) /\ kill[n]["timer"] # NoKill

\* Lines between the top and the bottom index, and lines announced for n by
\* scc_kill calls that have not published them yet.
Used(n) == (index_bottom[n] + LEN - index_top[n]) % LEN
Pending(n) ==
  {line \in Node \X Context \X {1, 2} :
     LET call == kill[line[1]][line[2]]
     IN  call # NoKill /\ call.target = n /\ line[3] <= call.signal.size}

\* NothingLost: every line sent to a core and not handled yet is either in its
\* list or about to be put there; a full list is not taken for an empty one.
\* scc_signals_check announces an "Overflow check" (scc_signals.c 446) but
\* neither it nor scc_kill has one.
NothingLost == \A n \in Node : Used(n) + Cardinality(Pending(n)) = backlog[n]

\* ImplementsQueue: with at most LEN - 1 lines outstanding, the cyclic list is
\* a FIFO queue: no signal sent by scc_kill is lost, overwritten, duplicated,
\* reordered or split, whatever the interleaving of senders and owner.
\* Publishing is Put; the copy of the first line is Take, and what is copied
\* must be the oldest signal; moving the top index is Finish.
Handled(n) ==
  IF check[n].pc # "dispatch" THEN <<>>
  ELSE IF check[n].first.part = 1 THEN <<check[n].first.signal>> ELSE <<NoLine>>
Queue == INSTANCE SignalQueue WITH handling <- [n \in Node |-> Handled(n)]
ImplementsQueue == Queue!Spec

\* AllHandled: whatever is sent to a core is handled in the end, and the
\* core's list gets empty again when nobody sends any more.
AllHandled == \A n \in Node : backlog[n] > 0 ~> backlog[n] = 0
=============================================================================
