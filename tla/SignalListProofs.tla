-------------------------- MODULE SignalListProofs --------------------------
(***************************************************************************)
(* Proofs about SignalList, for any set of cores, any length of the lists  *)
(* and any number of signals and timers.                                   *)
(*                                                                         *)
(* Type correctness and mutual exclusion on the lock of a list rest on one *)
(* inductive invariant: a lock whose value is 1 is held by nobody (Locks). *)
(* The types need it, as a lock posted twice would leave {0, 1}.           *)
(*                                                                         *)
(* As long as fewer lines are outstanding than a list has slots, the list  *)
(* is a FIFO queue of whole signals and loses nothing; and in every        *)
(* instance only timer handlers can make cores wait for each other for     *)
(* good.  The queue itself is kept by a history variable.  What is proved  *)
(* is that the slots between the two indexes spell it (Spelled), so that   *)
(* what the owner copies, with the lock or without, is its oldest signal.  *)
(***************************************************************************)
EXTENDS SignalList, FiniteSetTheorems, TLAPS

\* Nobody is inside the critical section of a list whose lock is posted.
LockFree ==
  \A t \in Node : scc_lock[t] = 1 =>
    /\ \A n \in Node, c \in Context : ~ KillHolds(n, c, t)
    /\ ~ CheckHolds(t)

Locks == LockExclusion /\ LockFree

IInv == TypeOK /\ Locks
-----------------------------------------------------------------------------
\* What a frame of scc_kill is made of, once the call is under way, and that
\* it stays a frame when the call proceeds.
LEMMA FrameParts ==
  ASSUME NEW f \in KillFrame, f.pc # "out"
  PROVE  /\ f.target \in Node
         /\ f.signal \in Signal
         /\ \A pc \in {"wait", "write", "publish"} :
              [f EXCEPT !.pc = pc] \in KillFrame
BY DEF KillFrame, NoKill

\* A call of scc_kill under way is a frame that is not NoKill.
LEMMA CallParts ==
  ASSUME TypeOK, NEW n \in Node, NEW c \in Context, kill[n][c] # NoKill
  PROVE  /\ kill[n][c] \in KillFrame /\ kill[n][c].pc # "out"
         /\ kill[n][c].target \in Node /\ kill[n][c].signal \in Signal
<1>1. kill[n][c] \in KillFrame
  BY DEF TypeOK
<1>2. kill[n][c].pc # "out"
  BY <1>1 DEF KillFrame
<1> QED
  BY <1>1, <1>2, FrameParts

\* What the steps of a call do to the frames.
LEMMA CallSteps ==
  ASSUME TypeOK, NEW n \in Node, NEW c \in Context,
         KillAcquire(n, c) \/ KillWrite(n, c) \/ KillPublish(n, c)
  PROVE  /\ kill[n][c] # NoKill
         /\ \A m \in Node, d \in Context :
              ~ (m = n /\ d = c) => kill'[m][d] = kill[m][d]
         /\ KillAcquire(n, c) =>
              kill[n][c].pc = "wait" /\ kill'[n][c].pc = "write"
         /\ KillWrite(n, c) =>
              kill[n][c].pc = "write" /\ kill'[n][c].pc = "publish"
         /\ KillPublish(n, c) =>
              kill[n][c].pc = "publish" /\ kill'[n][c] = NoKill
         /\ ~ KillPublish(n, c) =>
              /\ kill'[n][c] # NoKill
              /\ kill'[n][c].target = kill[n][c].target
              /\ kill'[n][c].signal = kill[n][c].signal
<1>1. kill[n][c] # NoKill
  BY SMTT(30) DEF KillAcquire, KillWrite, KillPublish, NoKill
<1>2. PICK f \in KillFrame :
        f = kill[n][c] /\ f.pc \in {"wait", "write", "publish"} /\ f # NoKill
  BY <1>1, CallParts DEF KillAcquire, KillWrite, KillPublish
<1>3. f \in [pc : {"wait", "write", "publish"}, target : Node, signal : Signal]
  BY <1>2 DEF KillFrame
<1>4. kill \in [Node -> [Context -> KillFrame]]
  BY DEF TypeOK
<1>5. \E new : /\ kill' = [kill EXCEPT ![n][c] = new]
               /\ KillAcquire(n, c) => new = [f EXCEPT !.pc = "write"]
               /\ KillWrite(n, c) => new = [f EXCEPT !.pc = "publish"]
               /\ KillPublish(n, c) => new = NoKill
  BY <1>2, <1>4 DEF KillAcquire, KillWrite, KillPublish
<1>6. /\ ~ (KillAcquire(n, c) /\ KillWrite(n, c))
      /\ ~ (KillAcquire(n, c) /\ KillPublish(n, c))
      /\ ~ (KillWrite(n, c) /\ KillPublish(n, c))
  BY DEF KillAcquire, KillWrite, KillPublish
<1>7. /\ KillAcquire(n, c) => f.pc = "wait"
      /\ KillWrite(n, c) => f.pc = "write"
      /\ KillPublish(n, c) => f.pc = "publish"
  BY <1>2 DEF KillAcquire, KillWrite, KillPublish
<1>8. \A pc \in {"write", "publish"} :
        /\ [f EXCEPT !.pc = pc] # NoKill
        /\ [f EXCEPT !.pc = pc].pc = pc
        /\ [f EXCEPT !.pc = pc].target = f.target
        /\ [f EXCEPT !.pc = pc].signal = f.signal
  BY <1>3 DEF NoKill
<1>9. PICK new : /\ kill' = [kill EXCEPT ![n][c] = new]
                 /\ KillAcquire(n, c) => new = [f EXCEPT !.pc = "write"]
                 /\ KillWrite(n, c) => new = [f EXCEPT !.pc = "publish"]
                 /\ KillPublish(n, c) => new = NoKill
  BY <1>5
<1>10. /\ kill'[n][c] = new
       /\ \A m \in Node, d \in Context :
            ~ (m = n /\ d = c) => kill'[m][d] = kill[m][d]
  BY <1>4, <1>9
<1>11. /\ KillAcquire(n, c) => kill'[n][c].pc = "write"
       /\ KillWrite(n, c) => kill'[n][c].pc = "publish"
       /\ KillPublish(n, c) => kill'[n][c] = NoKill
  BY <1>8, <1>9, <1>10
<1>12. ~ KillPublish(n, c) => /\ kill'[n][c] # NoKill
                              /\ kill'[n][c].target = f.target
                              /\ kill'[n][c].signal = f.signal
  BY <1>8, <1>9, <1>10
<1> QED
  BY <1>1, <1>2, <1>7, <1>10, <1>11, <1>12

\* The same for a frame of scc_signals_check.
LEMMA CheckParts ==
  ASSUME NEW f \in CheckFrame
  PROVE  /\ f.cnt \in {1, 2} /\ f.tmp_bottom \in 0..(LEN - 1)
         /\ [f EXCEPT !.pc = "wait"] \in CheckFrame
         /\ \A i \in 0..(LEN - 1) :
              [f EXCEPT !.pc = "read", !.tmp_bottom = i] \in CheckFrame
         /\ \A slot \in Slot :
              /\ [f EXCEPT !.pc = "dispatch", !.first = slot] \in CheckFrame
              /\ [f EXCEPT !.second = slot, !.cnt = 2] \in CheckFrame
BY DEF CheckFrame

\* An index of a list is a natural number.
LEMMA IndexNat == 0..(LEN - 1) \subseteq Nat
BY LenAssumption

\* An index moved by Advance stays inside the list.
LEMMA AdvanceInList ==
  ASSUME NEW i \in Nat, NEW cnt \in Nat
  PROVE  Advance(i, cnt) \in 0..(LEN - 1)
BY LenAssumption, SMT DEF Advance

\* Initially nothing is locked.
LEMMA InitInv == Init => IInv
<1> SUFFICES ASSUME Init PROVE IInv
  OBVIOUS
<1>1. TypeOK
  <2>1. 0 \in 0..(LEN - 1)
    BY LenAssumption
  <2>2. IdleCheck \in CheckFrame
    BY <2>1 DEF IdleCheck, CheckFrame, Slot
  <2>3. NoLine \in Slot /\ NoKill \in KillFrame
    BY DEF Slot, KillFrame
  <2>4. beats \in [Node -> 0..MaxBeats] /\ R \in [Node -> 0..MaxR]
    BY BoundAssumption DEF Init
  <2>5. queue \in [Node -> Seq(Signal)]
    BY DEF Init
  <2> QED
    BY <2>1, <2>2, <2>3, <2>4, <2>5 DEF Init, TypeOK
<1>2. Locks
  BY DEF Init, Locks, LockExclusion, LockFree, KillHolds, CheckHolds, NoKill,
         IdleCheck
<1> QED
  BY <1>1, <1>2 DEF IInv
-----------------------------------------------------------------------------
\* Starting scc_kill keeps the types.
LEMMA KillType ==
  ASSUME TypeOK, NEW n \in Node, NEW c \in Context, NEW t \in Node,
         NEW signal \in Signal, Kill(n, c, t, signal)
  PROVE  /\ kill' \in [Node -> [Context -> KillFrame]]
         /\ masked' \in [Node -> BOOLEAN]
         /\ backlog' \in [Node -> Nat]
<1>1. [pc |-> "wait", target |-> t, signal |-> signal] \in KillFrame
  BY DEF KillFrame
<1>2. signal.size \in Nat
  BY DEF Signal
<1> QED
  BY SMTT(30), <1>1, <1>2 DEF Kill, TypeOK

\* While a context holds the lock of t, its semaphore is 0, so that posting it
\* gives 1.
LEMMA ReleaseType ==
  ASSUME IInv, NEW t \in Node, HoldsLock(t, t) \/ \E n \in Node : HoldsLock(n, t),
         Release(t)
  PROVE  scc_lock' \in [Node -> {0, 1}] /\ scc_lock[t] = 0
<1>1. scc_lock[t] # 1
  BY DEF IInv, Locks, LockFree, HoldsLock
<1>2. scc_lock[t] = 0
  BY <1>1 DEF IInv, TypeOK
<1> QED
  BY <1>2 DEF Release, IInv, TypeOK

\* Every step keeps the types.
LEMMA TypeStep == IInv /\ [Next]_vars => TypeOK'
<1> SUFFICES ASSUME IInv, [Next]_vars PROVE TypeOK'
  OBVIOUS
<1> USE DEF IInv
<1>1. ASSUME NEW n \in Node, NEW t \in Node, NEW size \in {1, 2},
             SendSignal(n, t, size)
      PROVE  TypeOK'
  <2>1. [from |-> n, serial |-> R[n], size |-> size] \in Signal
    BY DEF Signal, TypeOK
  <2>2. R' \in [Node -> 0..MaxR]
    BY SMTT(30), <1>1, BoundAssumption DEF SendSignal, TypeOK
  <2> QED
    BY <1>1, <2>1, <2>2, KillType DEF SendSignal, TypeOK, Context
<1>2. ASSUME NEW n \in Node, NEW t \in Node, TimerSignal(n, t)
      PROVE  TypeOK'
  <2>1. [from |-> n, serial |-> MaxR, size |-> 1] \in Signal
    BY BoundAssumption DEF Signal
  <2>2. beats' \in [Node -> 0..MaxBeats]
    BY SMTT(30), <1>2, BoundAssumption DEF TimerSignal, TypeOK
  <2> QED
    BY <1>2, <2>1, <2>2, KillType DEF TimerSignal, TypeOK, Context
<1>3. ASSUME NEW n \in Node, CheckEnter(n)
      PROVE  TypeOK'
  <2>1. check[n] \in CheckFrame
    BY DEF TypeOK
  <2>2. [check[n] EXCEPT !.pc = "wait"] \in CheckFrame
    BY <2>1, CheckParts
  <2> QED
    BY <1>3, <2>2 DEF CheckEnter, TypeOK
<1>4. ASSUME NEW n \in Node, NEW c \in Context, KillAcquire(n, c)
      PROVE  TypeOK'
  <2>1. /\ kill[n][c] \in KillFrame /\ kill[n][c].pc # "out"
    BY <1>4 DEF KillAcquire, TypeOK
  <2>2. scc_lock' \in [Node -> {0, 1}]
    BY <1>4 DEF KillAcquire, Acquire, TypeOK
  <2>3. kill' \in [Node -> [Context -> KillFrame]]
    BY <1>4, <2>1, FrameParts DEF KillAcquire, TypeOK
  <2> QED
    BY <1>4, <2>2, <2>3 DEF KillAcquire, TypeOK
<1>5. ASSUME NEW n \in Node, NEW c \in Context, KillWrite(n, c)
      PROVE  TypeOK'
  <2>1. /\ kill[n][c] \in KillFrame /\ kill[n][c].pc # "out"
    BY <1>5 DEF KillWrite, TypeOK
  <2>2. kill[n][c].target \in Node /\ kill[n][c].signal \in Signal
    BY <2>1, FrameParts
  <2>3. kill' \in [Node -> [Context -> KillFrame]]
    BY <1>5, <2>1, FrameParts DEF KillWrite, TypeOK
  <2>4. \A part \in {1, 2} :
          [signal |-> kill[n][c].signal, part |-> part] \in Slot
    BY <2>2 DEF Slot, Line
  <2>5. sig_array' \in [Node -> [0..(LEN - 1) -> Slot]]
    BY <1>5, <2>2, <2>4 DEF KillWrite, TypeOK
  <2> QED
    BY <1>5, <2>3, <2>5 DEF KillWrite, TypeOK
<1>6. ASSUME NEW n \in Node, NEW c \in Context, KillPublish(n, c)
      PROVE  TypeOK'
  <2>1. /\ kill[n][c] \in KillFrame /\ kill[n][c].pc # "out"
    BY <1>6 DEF KillPublish, TypeOK
  <2>2. kill[n][c].target \in Node /\ kill[n][c].signal \in Signal
    BY <2>1, FrameParts
  <2>3. HoldsLock(n, kill[n][c].target)
    BY <1>6 DEF KillPublish, HoldsLock, KillHolds
  <2>4. scc_lock' \in [Node -> {0, 1}]
    BY <1>6, <2>2, <2>3, ReleaseType DEF KillPublish
  <2>5. kill' \in [Node -> [Context -> KillFrame]]
    BY <1>6 DEF KillPublish, TypeOK, KillFrame
  <2>6. kill[n][c].signal.size \in Nat
    BY <2>2 DEF Signal
  <2>7. index_bottom[kill[n][c].target] \in Nat
    BY <2>2, IndexNat DEF TypeOK
  <2>8. index_bottom' \in [Node -> 0..(LEN - 1)]
    BY <1>6, <2>2, <2>6, <2>7, AdvanceInList DEF KillPublish, TypeOK
  <2>9. queue' \in [Node -> Seq(Signal)]
    BY <1>6, <2>2 DEF KillPublish, TypeOK
  <2> QED
    BY <1>6, <2>4, <2>5, <2>8, <2>9 DEF KillPublish, TypeOK
<1>7. ASSUME NEW n \in Node, CheckAcquire(n)
      PROVE  TypeOK'
  <2>1. /\ check[n] \in CheckFrame
        /\ index_bottom[n] \in 0..(LEN - 1)
    BY DEF TypeOK
  <2>2. check' \in [Node -> CheckFrame]
    BY <1>7, <2>1, CheckParts DEF CheckAcquire, TypeOK
  <2> QED
    BY <1>7, <2>2 DEF CheckAcquire, Acquire, TypeOK
<1>8. ASSUME NEW n \in Node, CheckTake(n)
      PROVE  TypeOK'
  <2>1. /\ check[n] \in CheckFrame
        /\ sig_array[n][index_top[n]] \in Slot
    BY DEF TypeOK
  <2>2. HoldsLock(n, n)
    BY <1>8 DEF CheckTake, InCheck, HoldsLock, CheckHolds
  <2>3. scc_lock' \in [Node -> {0, 1}]
    BY <1>8, <2>2, ReleaseType DEF CheckTake
  <2> QED
    BY <1>8, <2>1, <2>3, CheckParts DEF CheckTake, TypeOK
<1>9. ASSUME NEW n \in Node, HandlerGetSecond(n)
      PROVE  TypeOK'
  <2>1. Advance(index_top[n], 1) \in 0..(LEN - 1)
    BY IndexNat, AdvanceInList DEF TypeOK
  <2>2. /\ check[n] \in CheckFrame
        /\ sig_array[n][Advance(index_top[n], 1)] \in Slot
    BY ZenonT(30), <2>1 DEF TypeOK
  <2> QED
    BY <1>9, <2>2, CheckParts DEF HandlerGetSecond, TypeOK
<1>10. ASSUME NEW n \in Node, CheckAdvance(n)
       PROVE  TypeOK'
  <2>1. check[n].cnt \in {1, 2} /\ check[n].tmp_bottom \in 0..(LEN - 1)
    BY CheckParts DEF TypeOK
  <2>2. Advance(index_top[n], check[n].cnt) \in 0..(LEN - 1)
    BY <2>1, IndexNat, AdvanceInList DEF TypeOK
  <2>3. [IdleCheck EXCEPT !.pc = "relock", !.tmp_bottom = check[n].tmp_bottom]
          \in CheckFrame
    BY <2>1 DEF IdleCheck, CheckFrame, Slot
  <2>4. backlog' \in [Node -> Nat]
    BY <1>10, <2>1 DEF CheckAdvance, TypeOK
  <2>5. queue' \in [Node -> Seq(Signal)]
    BY <1>10 DEF CheckAdvance, TypeOK
  <2> QED
    BY <1>10, <2>2, <2>3, <2>4, <2>5 DEF CheckAdvance, TypeOK
<1>11. ASSUME NEW n \in Node, CheckDone(n)
       PROVE  TypeOK'
  <2>1. IdleCheck \in CheckFrame
    BY LenAssumption DEF IdleCheck, CheckFrame, Slot
  <2>2. HoldsLock(n, n)
    BY <1>11 DEF CheckDone, InCheck, HoldsLock, CheckHolds
  <2>3. scc_lock' \in [Node -> {0, 1}]
    BY <1>11, <2>2, ReleaseType DEF CheckDone
  <2> QED
    BY <1>11, <2>1, <2>3 DEF CheckDone, TypeOK
<1>12. CASE UNCHANGED vars
  BY <1>12 DEF vars, TypeOK
<1> QED
  BY <1>1, <1>2, <1>3, <1>4, <1>5, <1>6, <1>7, <1>8, <1>9, <1>10, <1>11, <1>12
     DEF Next, Proceed
-----------------------------------------------------------------------------
\* A step after which every holder of a lock held it before, and that leaves
\* the semaphores alone, keeps Locks.
LEMMA NoNewHolder ==
  ASSUME Locks, UNCHANGED scc_lock,
         \A n \in Node, c \in Context, t \in Node :
           KillHolds(n, c, t)' => KillHolds(n, c, t),
         \A t \in Node : CheckHolds(t)' => CheckHolds(t)
  PROVE  Locks'
BY DEF Locks, LockExclusion, LockFree

\* A call of scc_kill that acquires the lock of t finds it posted, so nobody
\* holds it; afterwards the call is its only holder.
LEMMA KillAcquireLocks ==
  ASSUME IInv, NEW n \in Node, NEW c \in Context, KillAcquire(n, c)
  PROVE  Locks'
<1> DEFINE t0 == kill[n][c].target
<1>1. kill[n][c] \in KillFrame /\ kill[n][c].pc # "out"
  BY DEF KillAcquire, IInv, TypeOK
<1>2. t0 \in Node /\ scc_lock[t0] = 1 /\ scc_lock'[t0] = 0
  BY <1>1, FrameParts DEF KillAcquire, Acquire, IInv, TypeOK
<1>3. \A t \in Node : t # t0 => scc_lock'[t] = scc_lock[t]
  BY <1>2 DEF KillAcquire, Acquire, IInv, TypeOK
<1>4. \A m \in Node, d \in Context, t \in Node :
        KillHolds(m, d, t)' =>
          KillHolds(m, d, t) \/ (m = n /\ d = c /\ t = t0)
  BY SMTT(30), CallSteps DEF KillPublish, KillAcquire, KillHolds, IInv
<1>5. \A t \in Node : CheckHolds(t)' => CheckHolds(t)
  BY DEF KillAcquire, CheckHolds
<1>6. /\ \A m \in Node, d \in Context : ~ KillHolds(m, d, t0)
      /\ ~ CheckHolds(t0)
  BY <1>2 DEF IInv, Locks, LockFree
<1>7. LockExclusion'
  BY <1>4, <1>5, <1>6 DEF LockExclusion, IInv, Locks
<1>8. LockFree'
  BY <1>2, <1>3, <1>4, <1>5, <1>6 DEF LockFree, IInv, Locks
<1> QED
  BY <1>7, <1>8 DEF Locks

\* The same for scc_signals_check and the own list.
LEMMA CheckAcquireLocks ==
  ASSUME IInv, NEW n \in Node, CheckAcquire(n)
  PROVE  Locks'
<1>1. scc_lock[n] = 1 /\ scc_lock'[n] = 0
  BY DEF CheckAcquire, Acquire, IInv, TypeOK
<1>2. \A t \in Node : t # n => scc_lock'[t] = scc_lock[t]
  BY DEF CheckAcquire, Acquire, IInv, TypeOK
<1>3. \A m \in Node, d \in Context, t \in Node :
        KillHolds(m, d, t)' => KillHolds(m, d, t)
  BY DEF CheckAcquire, KillHolds
<1>4. \A t \in Node : CheckHolds(t)' => CheckHolds(t) \/ t = n
  BY DEF CheckAcquire, CheckHolds, IInv, TypeOK
<1>5. /\ \A m \in Node, d \in Context : ~ KillHolds(m, d, n)
      /\ ~ CheckHolds(n)
  BY <1>1 DEF IInv, Locks, LockFree
<1>6. LockExclusion'
  BY <1>3, <1>4, <1>5 DEF LockExclusion, IInv, Locks
<1>7. LockFree'
  BY <1>1, <1>2, <1>3, <1>4, <1>5 DEF LockFree, IInv, Locks
<1> QED
  BY <1>6, <1>7 DEF Locks

\* A call of scc_kill that releases the lock of t was its only holder.
LEMMA KillPublishLocks ==
  ASSUME IInv, NEW n \in Node, NEW c \in Context, KillPublish(n, c)
  PROVE  Locks'
<1>1. kill[n][c] \in KillFrame /\ kill[n][c].pc # "out"
  BY DEF KillPublish, IInv, TypeOK
<1>2. PICK t0 \in Node : t0 = kill[n][c].target /\ KillHolds(n, c, t0)
  BY <1>1, FrameParts DEF KillPublish, KillHolds
<1>3. \A t \in Node : t # t0 => scc_lock'[t] = scc_lock[t]
  BY <1>2 DEF KillPublish, Release, IInv, TypeOK
<1>4. \A m \in Node, d \in Context, t \in Node :
        KillHolds(m, d, t)' =>
          KillHolds(m, d, t) /\ ~ (m = n /\ d = c)
  BY CallSteps DEF KillHolds, NoKill, IInv
<1>5. \A t \in Node : CheckHolds(t)' => CheckHolds(t)
  BY DEF KillPublish, CheckHolds
<1>6. /\ \A m \in Node, d \in Context : ~ KillHolds(m, d, t0)'
      /\ ~ CheckHolds(t0)'
  BY <1>2, <1>4, <1>5 DEF IInv, Locks, LockExclusion
<1>7. LockExclusion'
  BY <1>4, <1>5 DEF LockExclusion, IInv, Locks
<1>8. LockFree'
  BY <1>2, <1>3, <1>4, <1>5, <1>6 DEF LockFree, IInv, Locks
<1> QED
  BY <1>7, <1>8 DEF Locks

\* The same when scc_signals_check releases the lock of its own list, to run
\* a handler or because the list is drained.
LEMMA CheckReleaseLocks ==
  ASSUME IInv, NEW n \in Node, CheckTake(n) \/ CheckDone(n)
  PROVE  Locks'
<1>1. CheckHolds(n)
  BY DEF CheckTake, CheckDone, InCheck, CheckHolds
<1>2. \A t \in Node : t # n => scc_lock'[t] = scc_lock[t]
  BY DEF CheckTake, CheckDone, Release, IInv, TypeOK
<1>3. \A m \in Node, d \in Context, t \in Node :
        KillHolds(m, d, t)' => KillHolds(m, d, t)
  BY DEF CheckTake, CheckDone, KillHolds
<1>4. \A t \in Node : CheckHolds(t)' => CheckHolds(t) /\ t # n
  BY SMTT(30) DEF CheckTake, CheckDone, CheckHolds, IdleCheck, IInv, TypeOK,
         CheckFrame
<1>5. \A m \in Node, d \in Context : ~ KillHolds(m, d, n)
  BY <1>1 DEF IInv, Locks, LockExclusion
<1>6. LockExclusion'
  BY <1>3, <1>4 DEF LockExclusion, IInv, Locks
<1>7. LockFree'
  BY <1>2, <1>3, <1>4, <1>5 DEF LockFree, IInv, Locks
<1> QED
  BY <1>6, <1>7 DEF Locks

\* Every step keeps Locks.
LEMMA LocksStep == IInv /\ [Next]_vars => Locks'
<1> SUFFICES ASSUME IInv, [Next]_vars PROVE Locks'
  OBVIOUS
<1> USE DEF IInv
<1>1. ASSUME NEW n \in Node, NEW t \in Node, NEW size \in {1, 2},
             SendSignal(n, t, size)
      PROVE  Locks'
  <2>1. \A m \in Node, d \in Context, u \in Node :
          KillHolds(m, d, u)' => KillHolds(m, d, u)
    BY <1>1 DEF SendSignal, Kill, KillHolds, TypeOK, Context
  <2>2. UNCHANGED <<scc_lock, check>>
    BY <1>1 DEF SendSignal
  <2> QED
    BY <2>1, <2>2, NoNewHolder DEF CheckHolds
<1>2. ASSUME NEW n \in Node, NEW t \in Node, TimerSignal(n, t)
      PROVE  Locks'
  <2>1. \A m \in Node, d \in Context, u \in Node :
          KillHolds(m, d, u)' => KillHolds(m, d, u)
    BY <1>2 DEF TimerSignal, Kill, KillHolds, TypeOK, Context
  <2>2. UNCHANGED <<scc_lock, check>>
    BY <1>2 DEF TimerSignal
  <2> QED
    BY <2>1, <2>2, NoNewHolder DEF CheckHolds
<1>3. ASSUME NEW n \in Node, CheckEnter(n) \/ HandlerGetSecond(n)
                              \/ CheckAdvance(n)
      PROVE  Locks'
  <2>1. UNCHANGED <<scc_lock, kill>>
    BY <1>3 DEF CheckEnter, HandlerGetSecond, CheckAdvance
  <2>2. \A u \in Node : CheckHolds(u)' => CheckHolds(u)
    <3>1. \A u \in Node : u # n => check'[u] = check[u]
      BY <1>3 DEF CheckEnter, HandlerGetSecond, CheckAdvance, TypeOK
    <3>2. check[n] \in CheckFrame
      BY DEF TypeOK
    <3>3. CASE CheckEnter(n)
      BY <3>1, <3>2, <3>3 DEF CheckEnter, CheckHolds, CheckFrame, TypeOK
    <3>4. CASE HandlerGetSecond(n)
      BY <3>1, <3>2, <3>4
         DEF HandlerGetSecond, CheckHolds, CheckFrame, TypeOK
    <3>5. CASE CheckAdvance(n)
      BY <3>1, <3>5 DEF CheckAdvance, CheckHolds, IdleCheck, TypeOK
    <3> QED
      BY <1>3, <3>3, <3>4, <3>5
  <2> QED
    BY <2>1, <2>2, NoNewHolder DEF KillHolds
<1>4. ASSUME NEW n \in Node, NEW c \in Context, KillWrite(n, c)
      PROVE  Locks'
  <2>1. \A m \in Node, d \in Context, u \in Node :
          KillHolds(m, d, u)' => KillHolds(m, d, u)
    BY SMTT(30), <1>4 DEF KillWrite, KillHolds, TypeOK
  <2>2. UNCHANGED <<scc_lock, check>>
    BY <1>4 DEF KillWrite
  <2> QED
    BY <2>1, <2>2, NoNewHolder DEF CheckHolds
<1>5. CASE UNCHANGED vars
  BY <1>5, NoNewHolder DEF vars, KillHolds, CheckHolds
<1> QED
  BY <1>1, <1>2, <1>3, <1>4, <1>5, KillAcquireLocks, KillPublishLocks,
     CheckAcquireLocks, CheckReleaseLocks DEF Next, Proceed
-----------------------------------------------------------------------------
\* The invariant holds in every state.
LEMMA Invariant == Spec => []IInv
<1>1. IInv /\ [Next]_vars => IInv'
  BY TypeStep, LocksStep DEF IInv
<1> QED
  BY <1>1, InitInv, PTL DEF Spec

\* The variables of the signal lists always have their types: the indexes of
\* scc_kill and scc_signals_check stay inside the list whatever its length,
\* and no semaphore of a list is posted above 1.
THEOREM TypeCorrect == Spec => []TypeOK
<1>1. IInv => TypeOK
  BY DEF IInv
<1> QED
  BY <1>1, Invariant, PTL

\* Whatever scc_kill calls, polling loops and timer handlers do, only one of
\* them is inside the lock of a list at a time.
THEOREM MutualExclusion == Spec => []LockExclusion
<1>1. IInv => LockExclusion
  BY DEF IInv, Locks
<1> QED
  BY <1>1, Invariant, PTL

-----------------------------------------------------------------------------
(* The list as a queue.                                                     *)

\* A program that sends has masked the timers, and does so between checks or
\* from a handler.
Contexts ==
  \A n \in Node : kill[n]["main"] # NoKill =>
    /\ masked[n] /\ kill[n]["timer"] = NoKill
    /\ check[n].pc \in {"out", "dispatch"}

Put1(signal) == [signal |-> signal, part |-> 1]
Put2(signal) == [signal |-> signal, part |-> 2]

\* Line k of the list of n, from the top.
At(n, k) == sig_array[n][Advance(index_top[n], k)]

\* Signal i of the queue ends before line pos[i] of the list.
SpelledBy(n, pos) ==
  /\ pos[0] = 0 /\ pos[Len(queue[n])] = Used(n)
  /\ \A i \in 1..Len(queue[n]) :
       /\ pos[i] = pos[i - 1] + queue[n][i].size
       /\ At(n, pos[i - 1]) = Put1(queue[n][i])
       /\ queue[n][i].size = 2 => At(n, pos[i - 1] + 1) = Put2(queue[n][i])
  /\ \A i, j \in 0..Len(queue[n]) : i <= j => pos[i] <= pos[j]

Spelled(n) == \E pos \in [0..Len(queue[n]) -> 0..Used(n)] : SpelledBy(n, pos)

\* The lines of a call are in the list when it moves the bottom index.
Written ==
  \A n \in Node, c \in Context : kill[n][c].pc = "publish" =>
    LET t == kill[n][c].target
        signal == kill[n][c].signal
    IN  /\ sig_array[t][index_bottom[t]] = Put1(signal)
        /\ signal.size = 2 =>
             sig_array[t][Advance(index_bottom[t], 1)] = Put2(signal)

\* The owner knows the bottom index while it has the lock, and the handler it
\* runs is that of the oldest signal.
Reading ==
  \A n \in Node :
    LET frame == check[n]
    IN  /\ frame.pc = "read" => frame.tmp_bottom = index_bottom[n]
        /\ frame.pc # "dispatch" => frame.second = NoLine /\ frame.cnt = 1
        /\ frame.pc = "dispatch" =>
             /\ queue[n] # <<>>
             /\ frame.first = Put1(Head(queue[n]))
             /\ \/ frame.second = NoLine /\ frame.cnt = 1
                \/ /\ frame.second = Put2(Head(queue[n])) /\ frame.cnt = 2
                   /\ Head(queue[n]).size = 2

\* The lines outstanding are those in the list and those announced.
Counted ==
  \A n \in Node :
    /\ IsFiniteSet(Pending(n))
    /\ backlog[n] = Used(n) + Cardinality(Pending(n))
    /\ backlog[n] <= MaxBacklog

QInv ==
  IInv /\ Written /\ Reading /\ Counted /\ \A n \in Node : Spelled(n)
-----------------------------------------------------------------------------
(* Who may wait for whom.                                                  *)

\* What the start of a call does to the frames.
LEMMA CallStarts ==
  ASSUME TypeOK, NEW n \in Node, NEW c \in Context, NEW t \in Node,
         NEW signal \in Signal, Kill(n, c, t, signal)
  PROVE  /\ kill[n][c] = NoKill /\ kill'[n][c] # NoKill
         /\ kill'[n][c].pc = "wait" /\ kill'[n][c].target = t
         /\ kill'[n][c].signal = signal
         /\ \A m \in Node, d \in Context :
              ~ (m = n /\ d = c) => kill'[m][d] = kill[m][d]
         /\ masked'[n] /\ \A m \in Node : m # n => masked'[m] = masked[m]
<1> DEFINE f == [pc |-> "wait", target |-> t, signal |-> signal]
<1>1. f # NoKill /\ f.pc = "wait" /\ f.target = t /\ f.signal = signal
  BY DEF NoKill
<1> HIDE DEF f
<1>2. kill \in [Node -> [Context -> KillFrame]] /\ masked \in [Node -> BOOLEAN]
  BY DEF TypeOK
<1>3. /\ kill' = [kill EXCEPT ![n][c] = f] /\ kill[n][c] = NoKill
      /\ masked' = [masked EXCEPT ![n] = TRUE]
  BY DEF Kill, f
<1> QED
  BY <1>1, <1>2, <1>3

LEMMA InitContexts == Init => Contexts
BY DEF Init, Contexts, Context

LEMMA ContextsStep == TypeOK /\ Contexts /\ [Next]_vars => Contexts'
<1> SUFFICES ASSUME TypeOK, Contexts, [Next]_vars,
                    NEW m \in Node, kill'[m]["main"] # NoKill
             PROVE  /\ masked'[m] /\ kill'[m]["timer"] = NoKill
                    /\ check'[m].pc \in {"out", "dispatch"}
  BY DEF Contexts
<1>1. "main" \in Context /\ "timer" \in Context /\ "main" # "timer"
  BY DEF Context
<1> DEFINE Same == /\ kill'[m]["main"] = kill[m]["main"]
                   /\ kill'[m]["timer"] = kill[m]["timer"]
<1>2. ASSUME NEW n \in Node, NEW t \in Node, NEW size \in {1, 2},
             SendSignal(n, t, size)
      PROVE  /\ masked'[m] /\ kill'[m]["timer"] = NoKill
             /\ check'[m].pc \in {"out", "dispatch"}
  <2>1. [from |-> n, serial |-> R[n], size |-> size] \in Signal
    BY DEF Signal, TypeOK
  <2>2. /\ \A u \in Node, d \in Context :
             ~ (u = n /\ d = "main") => kill'[u][d] = kill[u][d]
        /\ masked'[n] /\ \A u \in Node : u # n => masked'[u] = masked[u]
    BY <1>1, <1>2, <2>1, CallStarts DEF SendSignal
  <2>3. /\ check' = check /\ kill[n]["timer"] = NoKill
        /\ check[n].pc \in {"out", "dispatch"}
    BY <1>2 DEF SendSignal, Runs
  <2>4. CASE m = n
    BY <1>1, <2>2, <2>3, <2>4
  <2>5. CASE m # n
    BY <1>1, <2>2, <2>3, <2>5 DEF Contexts
  <2> QED
    BY <2>4, <2>5
<1>3. ASSUME NEW n \in Node, NEW t \in Node, TimerSignal(n, t)
      PROVE  /\ masked'[m] /\ kill'[m]["timer"] = NoKill
             /\ check'[m].pc \in {"out", "dispatch"}
  <2>1. [from |-> n, serial |-> MaxR, size |-> 1] \in Signal
    BY BoundAssumption DEF Signal
  <2>2. /\ \A u \in Node, d \in Context :
             ~ (u = n /\ d = "timer") => kill'[u][d] = kill[u][d]
        /\ \A u \in Node : u # n => masked'[u] = masked[u]
    BY <1>1, <1>3, <2>1, CallStarts DEF TimerSignal
  <2>3. check' = check /\ ~ masked[n]
    BY <1>3 DEF TimerSignal
  <2> QED
    BY <1>1, <2>2, <2>3 DEF Contexts
<1>4. ASSUME NEW n \in Node, NEW c \in Context,
             KillAcquire(n, c) \/ KillWrite(n, c) \/ KillPublish(n, c)
      PROVE  /\ masked'[m] /\ kill'[m]["timer"] = NoKill
             /\ check'[m].pc \in {"out", "dispatch"}
  <2>1. /\ \A u \in Node, d \in Context :
             ~ (u = n /\ d = c) => kill'[u][d] = kill[u][d]
        /\ kill[n][c] # NoKill
        /\ KillPublish(n, c) => kill'[n][c] = NoKill
    BY <1>4, CallSteps
  <2>2. /\ check' = check /\ (m # n => masked'[m] = masked[m])
        /\ ~ KillPublish(n, c) => masked' = masked
    BY <1>4 DEF KillAcquire, KillWrite, KillPublish, TypeOK
  <2>3. c = "main" \/ c = "timer"
    BY DEF Context
  <2>4. kill[m]["main"] # NoKill
    BY <1>1, <2>1, <2>3
  <2>5. ~ (m = n /\ c = "timer")
    BY <2>1, <2>4 DEF Contexts
  <2>6. ~ (m = n /\ KillPublish(n, c))
    BY <2>1, <2>3, <2>5
  <2> QED
    BY <1>1, <2>1, <2>2, <2>4, <2>5, <2>6 DEF Contexts
<1>5. ASSUME NEW n \in Node,
             \/ CheckEnter(n) \/ CheckAcquire(n) \/ CheckTake(n)
             \/ HandlerGetSecond(n) \/ CheckAdvance(n) \/ CheckDone(n)
      PROVE  /\ masked'[m] /\ kill'[m]["timer"] = NoKill
             /\ check'[m].pc \in {"out", "dispatch"}
  <2>1. kill' = kill /\ kill[n]["main"] = NoKill
    BY <1>5 DEF CheckEnter, CheckAcquire, CheckTake, HandlerGetSecond,
                CheckAdvance, CheckDone, InCheck
  <2>2. m # n
    BY <2>1
  <2>3. check'[m] = check[m] /\ masked'[m] = masked[m]
    BY <1>5, <2>2 DEF CheckEnter, CheckAcquire, CheckTake, HandlerGetSecond,
                      CheckAdvance, CheckDone, TypeOK
  <2> QED
    BY <2>1, <2>3 DEF Contexts
<1>6. CASE UNCHANGED vars
  BY <1>6 DEF vars, Contexts
<1> QED
  BY <1>2, <1>3, <1>4, <1>5, <1>6 DEF Next, Proceed

\* A core that holds a lock and waits for one holds that of its own list, and
\* the one that waits is its timer handler.
LEMMA OnlyTimersWait ==
  ASSUME TypeOK, Contexts, NEW m \in Node, NEW t \in Node, NEW u \in Node,
         HoldsLock(m, t), WaitsFor(m, u)
  PROVE  CheckHolds(m) /\ kill[m]["timer"] # NoKill
<1>1. "main" \in Context /\ "timer" \in Context /\ \A c \in Context :
        c = "main" \/ c = "timer"
  BY DEF Context
<1>2. CASE \E c \in Context : KillHolds(m, c, t)
  <2>1. PICK c \in Context : KillHolds(m, c, t)
    BY <1>2
  <2>2. kill[m][c] # NoKill
    BY <2>1 DEF KillHolds, NoKill
  <2>3. kill[m][c].pc # "wait"
    BY <2>1 DEF KillHolds
  <2>4. CASE c = "timer"
    <3>1. kill[m]["main"] = NoKill /\ ~ Runs(m, "main")
      BY <1>1, <2>2, <2>4 DEF Runs, Contexts
    <3>2. kill[m]["main"].pc # "wait"
      BY <3>1 DEF NoKill
    <3> QED
      BY <1>1, <2>3, <2>4, <3>1, <3>2 DEF WaitsFor
  <2>5. CASE c = "main"
    <3>1. kill[m]["timer"] = NoKill
      BY <2>2, <2>5 DEF Contexts
    <3>2. kill[m]["timer"].pc # "wait"
      BY <3>1 DEF NoKill
    <3> QED
      BY <1>1, <2>2, <2>3, <2>5, <3>2 DEF WaitsFor
  <2> QED
    BY <1>1, <2>4, <2>5
<1>3. CASE CheckHolds(m)
  <2>1. kill[m]["main"] = NoKill
    BY <1>3 DEF CheckHolds, Contexts
  <2>2. PICK c \in Context : kill[m][c].pc = "wait"
    BY <1>3, <2>1 DEF WaitsFor, CheckHolds
  <2>3. kill[m][c] # NoKill
    BY <2>2 DEF NoKill
  <2> QED
    BY <1>1, <1>3, <2>1, <2>3
<1> QED
  BY <1>2, <1>3 DEF HoldsLock

\* Whatever is sent, by however many cores: cores that wait for each other's
\* locks for good do so through a timer handler that sends from inside a
\* program which has locked its own list; without timers there is no deadlock.
THEOREM OnlyTimersBlockHolds == Spec => []OnlyTimersBlock
<1>1. TypeOK /\ Contexts => OnlyTimersBlock
  <2> SUFFICES ASSUME TypeOK, Contexts,
                      NEW S \in (SUBSET Node) \ {{}},
                      \A n \in S : \E m \in S, t \in Node :
                        WaitsFor(n, t) /\ HoldsLock(m, t)
               PROVE  \E n \in Node : CheckHolds(n) /\ kill[n]["timer"] # NoKill
    BY DEF OnlyTimersBlock, WaitCycle
  <2>1. S \subseteq Node /\ \E n : n \in S
    OBVIOUS
  <2>2. PICK m \in S, t \in Node : HoldsLock(m, t)
    BY <2>1
  <2>3. PICK u \in Node : WaitsFor(m, u)
    BY <2>2
  <2> QED
    BY <2>2, <2>3, OnlyTimersWait
<1>2. IInv => TypeOK
  BY DEF IInv
<1> QED
  BY <1>1, <1>2, Invariant, InitContexts, ContextsStep, PTL DEF Spec
-----------------------------------------------------------------------------
(* The indexes of a cyclic list.                                           *)

\* Lines from the top index to the bottom index.
Span(bottom, top) == (bottom + LEN - top) % LEN

\* A cyclic index wraps at most once.
LEMMA Wrap ==
  ASSUME NEW a \in Nat, a < 2 * LEN
  PROVE  a % LEN = IF a < LEN THEN a ELSE a - LEN
BY LenAssumption, SMTT(60)

LEMMA AdvanceIs ==
  ASSUME NEW i \in 0..(LEN - 1), NEW k \in 0..LEN
  PROVE  /\ Advance(i, k) = IF i + k < LEN THEN i + k ELSE i + k - LEN
         /\ Advance(i, k) \in 0..(LEN - 1)
<1>1. PICK a \in Nat : a = i + k /\ a < 2 * LEN
  BY LenAssumption
<1>2. a % LEN = IF a < LEN THEN a ELSE a - LEN
  BY <1>1, Wrap
<1>3. Advance(i, k) = a % LEN
  BY <1>1 DEF Advance
<1> QED
  BY <1>1, <1>2, <1>3, LenAssumption

LEMMA SpanIs ==
  ASSUME NEW bottom \in 0..(LEN - 1), NEW top \in 0..(LEN - 1)
  PROVE  Span(bottom, top) =
           IF top <= bottom THEN bottom - top ELSE bottom + LEN - top
<1>1. bottom + LEN - top \in Nat /\ bottom + LEN - top < 2 * LEN
  BY LenAssumption
<1> QED
  BY <1>1, Wrap, LenAssumption DEF Span

\* The lines of a list, counted from the top: Span of them up to the bottom
\* index, each in a slot of its own.
LEMMA Lap ==
  ASSUME NEW bottom \in 0..(LEN - 1), NEW top \in 0..(LEN - 1)
  PROVE  /\ Span(bottom, top) \in 0..(LEN - 1)
         /\ Advance(top, Span(bottom, top)) = bottom
         /\ Span(bottom, top) = 0 <=> bottom = top
         /\ Advance(top, 0) = top
<1> DEFINE span == Span(bottom, top)
<1>1. span = IF top <= bottom THEN bottom - top ELSE bottom + LEN - top
  BY SpanIs
<1> HIDE DEF span
<1>2. span \in 0..(LEN - 1) /\ (span = 0 <=> bottom = top)
  BY <1>1, LenAssumption
<1>3. span \in 0..LEN /\ 0 \in 0..LEN
  BY <1>2, LenAssumption
<1>4. Advance(top, span) = IF top + span < LEN THEN top + span ELSE top + span - LEN
  BY <1>3, AdvanceIs
<1>5. Advance(top, 0) = IF top + 0 < LEN THEN top + 0 ELSE top + 0 - LEN
  BY <1>3, AdvanceIs
<1> QED
  BY <1>1, <1>2, <1>4, <1>5, LenAssumption DEF span

LEMMA SlotsApart ==
  ASSUME NEW top \in 0..(LEN - 1), NEW j \in 0..(LEN - 1), NEW k \in 0..(LEN - 1),
         Advance(top, j) = Advance(top, k)
  PROVE  j = k
<1>1. j \in 0..LEN /\ k \in 0..LEN
  BY LenAssumption
<1>2. PICK x : x = Advance(top, j)
  OBVIOUS
<1>3. /\ x = IF top + j < LEN THEN top + j ELSE top + j - LEN
      /\ x = IF top + k < LEN THEN top + k ELSE top + k - LEN
  BY <1>1, <1>2, AdvanceIs
<1> QED
  BY <1>3, LenAssumption

LEMMA AdvanceTwice ==
  ASSUME NEW top \in 0..(LEN - 1), NEW j \in 0..LEN, NEW k \in 0..LEN,
         j + k <= LEN
  PROVE  Advance(Advance(top, j), k) = Advance(top, j + k)
<1> DEFINE x == Advance(top, j)
           y == j + k
<1>1. y \in 0..LEN
  BY LenAssumption
<1>2. /\ x = IF top + j < LEN THEN top + j ELSE top + j - LEN
      /\ x \in 0..(LEN - 1)
  BY AdvanceIs
<1> HIDE DEF x, y
<1>3. /\ Advance(x, k) = IF x + k < LEN THEN x + k ELSE x + k - LEN
      /\ Advance(top, y) = IF top + y < LEN THEN top + y ELSE top + y - LEN
  BY <1>1, <1>2, AdvanceIs
<1>4. y = j + k
  BY DEF y
<1>5. Advance(x, k) = Advance(top, y)
  BY <1>2, <1>3, <1>4, LenAssumption
<1> QED
  BY <1>5 DEF x, y

\* Moving one of the indexes by the lines of a signal.
LEMMA SpanMoves ==
  ASSUME NEW bottom \in 0..(LEN - 1), NEW top \in 0..(LEN - 1),
         NEW size \in {1, 2}
  PROVE  /\ Span(bottom, top) + size < LEN =>
              Span(Advance(bottom, size), top) = Span(bottom, top) + size
         /\ size <= Span(bottom, top) =>
              Span(bottom, Advance(top, size)) = Span(bottom, top) - size
<1> DEFINE x == Advance(bottom, size)
           y == Advance(top, size)
<1>1. size \in 0..LEN
  BY LenAssumption
<1>2. /\ x = IF bottom + size < LEN THEN bottom + size ELSE bottom + size - LEN
      /\ y = IF top + size < LEN THEN top + size ELSE top + size - LEN
      /\ x \in 0..(LEN - 1) /\ y \in 0..(LEN - 1)
  BY <1>1, AdvanceIs
<1> HIDE DEF x, y
<1>3. /\ Span(bottom, top) =
           IF top <= bottom THEN bottom - top ELSE bottom + LEN - top
      /\ Span(x, top) = IF top <= x THEN x - top ELSE x + LEN - top
      /\ Span(bottom, y) = IF y <= bottom THEN bottom - y ELSE bottom + LEN - y
  BY <1>2, SpanIs
<1>4. /\ Span(bottom, top) + size < LEN => Span(x, top) = Span(bottom, top) + size
      /\ size <= Span(bottom, top) => Span(bottom, y) = Span(bottom, top) - size
  BY <1>2, <1>3, LenAssumption
<1> QED
  BY <1>4 DEF x, y
-----------------------------------------------------------------------------
(* The list spells the queue.                                              *)

LEMMA UsedSpan ==
  ASSUME TypeOK, NEW n \in Node
  PROVE  /\ index_bottom[n] \in 0..(LEN - 1) /\ index_top[n] \in 0..(LEN - 1)
         /\ Used(n) = Span(index_bottom[n], index_top[n])
         /\ Used(n) \in 0..(LEN - 1) /\ Used(n) \in Nat
         /\ Advance(index_top[n], Used(n)) = index_bottom[n]
         /\ Used(n) = 0 <=> index_bottom[n] = index_top[n]
         /\ At(n, 0) = sig_array[n][index_top[n]]
<1>1. index_bottom[n] \in 0..(LEN - 1) /\ index_top[n] \in 0..(LEN - 1)
  BY DEF TypeOK
<1>2. Used(n) = Span(index_bottom[n], index_top[n])
  BY DEF Used, Span
<1>3. Used(n) \in 0..(LEN - 1)
  BY <1>1, <1>2, Lap
<1> HIDE DEF Used
<1>4. PICK bottom \in 0..(LEN - 1), top \in 0..(LEN - 1) :
        bottom = index_bottom[n] /\ top = index_top[n] /\ Used(n) = Span(bottom, top)
  BY <1>1, <1>2
<1>5. /\ Advance(top, Span(bottom, top)) = bottom
      /\ Span(bottom, top) = 0 <=> bottom = top
  BY Lap
<1>6. At(n, 0) = sig_array[n][index_top[n]]
  BY <1>1, Lap DEF At
<1> QED
  BY <1>1, <1>2, <1>3, <1>4, <1>6, <1>5, IndexNat

\* Where the signals of a queue are.
LEMMA Places ==
  ASSUME TypeOK, NEW n \in Node, Used(n) \in Nat,
         NEW pos \in [0..Len(queue[n]) -> 0..Used(n)], SpelledBy(n, pos)
  PROVE  /\ Len(queue[n]) \in Nat
         /\ \A i \in 0..Len(queue[n]) : pos[i] \in Nat /\ pos[i] <= Used(n)
         /\ \A i \in 1..Len(queue[n]) :
              /\ i - 1 \in 0..Len(queue[n]) /\ i \in 0..Len(queue[n])
              /\ queue[n][i].size \in {1, 2} /\ queue[n][i] \in Signal
              /\ pos[i - 1] + queue[n][i].size <= Used(n)
<1>1. queue[n] \in Seq(Signal)
  BY DEF TypeOK
<1>2. Len(queue[n]) \in Nat /\ \A i \in 1..Len(queue[n]) : queue[n][i] \in Signal
  BY <1>1
<1>3. \A i \in 1..Len(queue[n]) : queue[n][i].size \in {1, 2}
  BY <1>2 DEF Signal
<1>4. \A i \in 0..Len(queue[n]) : pos[i] \in Nat /\ pos[i] <= Used(n)
  OBVIOUS
<1>5. \A i \in 1..Len(queue[n]) :
        i - 1 \in 0..Len(queue[n]) /\ i \in 0..Len(queue[n])
  BY <1>2
<1>6. \A i \in 1..Len(queue[n]) : pos[i] = pos[i - 1] + queue[n][i].size
  BY DEF SpelledBy
<1> QED
  BY <1>2, <1>3, <1>4, <1>5, <1>6

\* As long as the queue, its place and the lines in it stay the same, the list
\* goes on spelling the queue.
LEMMA SpelledKept ==
  ASSUME TypeOK, NEW n \in Node, Spelled(n),
         queue'[n] = queue[n], Used(n)' = Used(n),
         \A k \in Nat : k < Used(n) => At(n, k)' = At(n, k)
  PROVE  Spelled(n)'
<1>1. PICK pos \in [0..Len(queue[n]) -> 0..Used(n)] : SpelledBy(n, pos)
  BY DEF Spelled
<1>2. /\ Used(n) \in Nat /\ Len(queue[n]) \in Nat
      /\ \A i \in 0..Len(queue[n]) : pos[i] \in Nat
      /\ \A i \in 1..Len(queue[n]) :
              /\ i - 1 \in 0..Len(queue[n])
              /\ queue[n][i].size \in {1, 2}
              /\ pos[i - 1] + queue[n][i].size <= Used(n)
  BY <1>1, Places, UsedSpan
<1>3. ASSUME NEW i \in 1..Len(queue[n])
      PROVE  /\ At(n, pos[i - 1])' = Put1(queue[n][i])
             /\ queue[n][i].size = 2 => At(n, pos[i - 1] + 1)' = Put2(queue[n][i])
  <2>1. PICK p \in Nat, size \in {1, 2} :
          p = pos[i - 1] /\ size = queue[n][i].size /\ p + size <= Used(n)
    BY <1>2
  <2>2. pos[i - 1] \in Nat /\ pos[i - 1] < Used(n)
    BY SMTT(30), <1>2, <2>1
  <2>3. queue[n][i].size = 2 => pos[i - 1] + 1 \in Nat /\ pos[i - 1] + 1 < Used(n)
    BY SMTT(30), <1>2, <2>1
  <2>4. /\ At(n, pos[i - 1]) = Put1(queue[n][i])
        /\ queue[n][i].size = 2 => At(n, pos[i - 1] + 1) = Put2(queue[n][i])
    BY <1>1 DEF SpelledBy
  <2> QED
    BY <2>2, <2>3, <2>4
<1>4. SpelledBy(n, pos)'
  BY <1>1, <1>3 DEF SpelledBy
<1> QED
  BY <1>4 DEF Spelled

\* A list with lines in it holds a signal, and the oldest is at its top.
LEMMA Oldest ==
  ASSUME TypeOK, NEW n \in Node, Spelled(n)
  PROVE  /\ Used(n) > 0 => queue[n] # <<>>
         /\ queue[n] # <<>> =>
              /\ Head(queue[n]) \in Signal /\ Head(queue[n]).size \in {1, 2}
              /\ Head(queue[n]).size <= Used(n)
              /\ At(n, 0) = Put1(Head(queue[n]))
              /\ Head(queue[n]).size = 2 => At(n, 1) = Put2(Head(queue[n]))
<1>1. PICK pos \in [0..Len(queue[n]) -> 0..Used(n)] : SpelledBy(n, pos)
  BY DEF Spelled
<1>2. queue[n] \in Seq(Signal) /\ Used(n) \in Nat
  BY UsedSpan DEF TypeOK
<1>3. ASSUME queue[n] = <<>>
      PROVE  Used(n) = 0
  <2>1. Len(queue[n]) = 0
    BY <1>3
  <2> QED
    BY <1>1, <2>1 DEF SpelledBy
<1>4. ASSUME queue[n] # <<>>
      PROVE  /\ Head(queue[n]) \in Signal /\ Head(queue[n]).size \in {1, 2}
             /\ Head(queue[n]).size <= Used(n)
             /\ At(n, 0) = Put1(Head(queue[n]))
             /\ Head(queue[n]).size = 2 => At(n, 1) = Put2(Head(queue[n]))
  <2>1. 1 \in 1..Len(queue[n]) /\ Head(queue[n]) = queue[n][1] /\ 1 - 1 = 0
    BY <1>2, <1>4
  <2>2. pos[0] = 0
    BY <1>1 DEF SpelledBy
  <2>3. /\ queue[n][1].size \in {1, 2} /\ queue[n][1] \in Signal
        /\ 0 + queue[n][1].size <= Used(n)
    BY <1>1, <1>2, <2>1, <2>2, Places
  <2>4. /\ At(n, pos[1 - 1]) = Put1(queue[n][1])
        /\ queue[n][1].size = 2 => At(n, pos[1 - 1] + 1) = Put2(queue[n][1])
    BY <1>1, <2>1 DEF SpelledBy
  <2>5. /\ At(n, 0) = Put1(queue[n][1])
        /\ queue[n][1].size = 2 => At(n, 0 + 1) = Put2(queue[n][1])
    BY <2>1, <2>2, <2>4
  <2>6. 0 + 1 = 1
    OBVIOUS
  <2> QED
    BY <2>1, <2>3, <2>5, <2>6
<1> QED
  BY <1>2, <1>3, <1>4

\* Publishing the lines behind the last one appends their signal.
LEMMA SpelledPut ==
  ASSUME TypeOK, NEW n \in Node, Spelled(n), NEW signal \in Signal,
         queue'[n] = Append(queue[n], signal),
         Used(n)' = Used(n) + signal.size,
         \A k \in Nat : At(n, k)' = At(n, k),
         At(n, Used(n)) = Put1(signal),
         signal.size = 2 => At(n, Used(n) + 1) = Put2(signal)
  PROVE  Spelled(n)'
<1>1. PICK pos \in [0..Len(queue[n]) -> 0..Used(n)] : SpelledBy(n, pos)
  BY DEF Spelled
<1>2. PICK len \in Nat : len = Len(queue[n])
  BY DEF TypeOK
<1>3. PICK new :
         new = [i \in 0..(len + 1) |->
                  IF i <= len THEN pos[i] ELSE Used(n) + signal.size]
  OBVIOUS
<1>4. /\ Used(n) \in Nat /\ len \in Nat /\ queue[n] \in Seq(Signal)
      /\ \A i \in 0..len : pos[i] \in Nat /\ pos[i] <= Used(n)
      /\ \A i \in 1..len : i - 1 \in 0..len
  BY <1>2, <1>1, Places, UsedSpan DEF TypeOK
<1>5. signal.size \in {1, 2}
  BY DEF Signal
<1>6. /\ Len(queue'[n]) = len + 1 /\ queue'[n][len + 1] = signal
      /\ \A i \in 1..len : queue'[n][i] = queue[n][i]
  BY <1>2, <1>4
<1>7. /\ \A i \in 0..len : new[i] = pos[i]
      /\ new[len + 1] = Used(n) + signal.size
      /\ DOMAIN new = 0..(len + 1)
  BY <1>3, <1>4
<1>8. new \in [0..(len + 1) -> 0..(Used(n) + signal.size)]
  <2>1. \A i \in 0..(len + 1) :
          (IF i <= len THEN pos[i] ELSE Used(n) + signal.size)
            \in 0..(Used(n) + signal.size)
    BY <1>4, <1>5
  <2> QED
    BY <1>3, <2>1
<1>9. new[0] = 0 /\ pos[len] = Used(n)
  BY <1>2, <1>1, <1>4, <1>7 DEF SpelledBy
<1>10. ASSUME NEW i \in 1..(len + 1)
      PROVE  /\ new[i] = new[i - 1] + queue'[n][i].size
             /\ At(n, new[i - 1])' = Put1(queue'[n][i])
             /\ queue'[n][i].size = 2 =>
                  At(n, new[i - 1] + 1)' = Put2(queue'[n][i])
  <2>1. CASE i \in 1..len
    <3>1. /\ new[i] = pos[i] /\ new[i - 1] = pos[i - 1]
          /\ pos[i - 1] \in Nat /\ queue'[n][i] = queue[n][i]
      BY SMTT(30), <1>4, <1>6, <1>7, <2>1
    <3>2. pos[i - 1] + 1 \in Nat
      BY <3>1
    <3>3. /\ pos[i] = pos[i - 1] + queue[n][i].size
          /\ At(n, pos[i - 1]) = Put1(queue[n][i])
          /\ queue[n][i].size = 2 => At(n, pos[i - 1] + 1) = Put2(queue[n][i])
      BY <1>2, <1>1, <2>1 DEF SpelledBy
    <3> QED
      BY <3>1, <3>2, <3>3
  <2>2. CASE i = len + 1
    <3>1. i - 1 = len /\ len \in 0..len
      BY <1>4, <2>2
    <3>2. new[i - 1] = Used(n) /\ queue'[n][i] = signal
      BY <1>6, <1>7, <1>9, <2>2, <3>1
    <3>3. Used(n) + 1 \in Nat
      BY <1>4
    <3>4. new[i] = Used(n) + signal.size
      BY <1>7, <2>2
    <3> QED
      BY <1>4, <3>2, <3>3, <3>4
  <2>3. i \in 1..len \/ i = len + 1
    BY <1>4
  <2> QED
    BY <2>1, <2>2, <2>3
<1>11. ASSUME NEW i \in 0..(len + 1), NEW j \in 0..(len + 1), i <= j
      PROVE  new[i] <= new[j]
  <2>1. CASE j <= len
    <3>1. i \in 0..len /\ j \in 0..len
      BY <1>4, <1>11, <2>1
    <3> QED
      BY <1>2, <1>1, <1>7, <1>11, <3>1 DEF SpelledBy
  <2>2. CASE ~ (j <= len)
    <3>1. j = len + 1
      BY <1>4, <2>2
    <3>2. CASE i \in 0..len
      BY <1>4, <1>5, <1>7, <3>1, <3>2
    <3>3. CASE i = len + 1
      BY <1>4, <1>5, <1>7, <3>1, <3>3
    <3> QED
      BY <1>4, <3>2, <3>3
  <2> QED
    BY <2>1, <2>2
<1>12. SpelledBy(n, new)'
  BY <1>6, <1>7, <1>9, <1>10, <1>11 DEF SpelledBy
<1> QED
  BY <1>6, <1>8, <1>12 DEF Spelled

\* Moving the top index past the lines of the oldest signal removes it.
LEMMA SpelledFinish ==
  ASSUME TypeOK, NEW n \in Node, Spelled(n), queue[n] # <<>>,
         queue'[n] = Tail(queue[n]),
         Used(n)' = Used(n) - Head(queue[n]).size,
         \A k \in Nat : k + Head(queue[n]).size < Used(n) =>
           At(n, k)' = At(n, k + Head(queue[n]).size)
  PROVE  Spelled(n)'
<1>1. PICK pos \in [0..Len(queue[n]) -> 0..Used(n)] : SpelledBy(n, pos)
  BY DEF Spelled
<1>2. PICK size \in Nat :
        size \in {1, 2} /\ size = Head(queue[n]).size /\ size <= Used(n)
  BY Oldest
<1>3. PICK len \in Nat : Len(queue[n]) = len + 1
  <2>1. queue[n] \in Seq(Signal)
    BY DEF TypeOK
  <2>2. Len(queue[n]) \in Nat /\ Len(queue[n]) # 0
    BY <2>1
  <2>3. Len(queue[n]) - 1 \in Nat /\ Len(queue[n]) = Len(queue[n]) - 1 + 1
    BY <2>2
  <2> QED
    BY <2>3
<1>4. /\ Len(queue'[n]) = len
      /\ \A i \in 1..len : queue'[n][i] = queue[n][i + 1]
      /\ queue[n][1].size = size
  <2>1. queue[n] \in Seq(Signal)
    BY DEF TypeOK
  <2> QED
    BY <1>2, <1>3, <2>1
<1>5. /\ Used(n) \in Nat
      /\ \A i \in 0..(len + 1) : pos[i] \in Nat /\ pos[i] <= Used(n)
      /\ \A i \in 1..(len + 1) :
           /\ i - 1 \in 0..(len + 1)
           /\ queue[n][i].size \in {1, 2}
           /\ pos[i - 1] + queue[n][i].size <= Used(n)
  BY <1>1, <1>3, Places, UsedSpan
<1>6. /\ pos[0] = 0 /\ pos[len + 1] = Used(n)
      /\ \A i \in 1..(len + 1) :
           /\ pos[i] = pos[i - 1] + queue[n][i].size
           /\ At(n, pos[i - 1]) = Put1(queue[n][i])
           /\ queue[n][i].size = 2 => At(n, pos[i - 1] + 1) = Put2(queue[n][i])
      /\ \A i, j \in 0..(len + 1) : i <= j => pos[i] <= pos[j]
  BY <1>1, <1>3 DEF SpelledBy
<1>7. pos[1] = size
  <2>1. 1 \in 1..(len + 1) /\ 1 - 1 = 0
    BY <1>3
  <2> QED
    BY <1>2, <1>4, <1>6, <2>1
<1>8. \A i \in 0..len : i + 1 \in 0..(len + 1) /\ size <= pos[i + 1]
  <2>1. \A i \in 0..len : i + 1 \in 0..(len + 1) /\ 1 <= i + 1 /\ 1 \in 0..(len + 1)
    BY <1>3
  <2> QED
    BY <1>6, <1>7, <2>1
<1> DEFINE new == [i \in 0..len |-> pos[i + 1] - size]
<1>9. new \in [0..len -> 0..(Used(n) - size)]
  <2>1. ASSUME NEW i \in 0..len
        PROVE  pos[i + 1] - size \in 0..(Used(n) - size)
    <3>1. PICK p \in Nat, used \in Nat :
            p = pos[i + 1] /\ used = Used(n) /\ size <= p /\ p <= used
      BY <1>5, <1>8
    <3>2. p - size \in 0..(used - size)
      BY <3>1
    <3> QED
      BY <3>1, <3>2
  <2> QED
    BY <2>1
<1>10. \A i \in 0..len : new[i] = pos[i + 1] - size
  OBVIOUS
<1> HIDE DEF new
<1>11. new[0] = 0 /\ new[len] = Used(n) - size
  <2>1. 0 \in 0..len /\ len \in 0..len /\ 0 + 1 = 1 /\ size - size = 0
    BY <1>3
  <2> QED
    BY <1>6, <1>7, <1>10, <2>1
<1>12. ASSUME NEW i \in 1..len
       PROVE  /\ new[i] = new[i - 1] + queue'[n][i].size
              /\ At(n, new[i - 1])' = Put1(queue'[n][i])
              /\ queue'[n][i].size = 2 =>
                   At(n, new[i - 1] + 1)' = Put2(queue'[n][i])
  <2>1. /\ i \in 0..len /\ i - 1 \in 0..len /\ i - 1 + 1 = i
        /\ i + 1 \in 1..(len + 1) /\ i + 1 - 1 = i /\ i \in 0..(len + 1)
    BY <1>3
  <2>2. PICK p \in Nat, q \in Nat, s \in Nat :
          /\ s \in {1, 2} /\ p = pos[i] /\ q = pos[i + 1]
          /\ s = queue[n][i + 1].size
          /\ q = p + s /\ size <= p /\ p + s <= Used(n)
    <3>1. pos[i] \in Nat /\ pos[i + 1] \in Nat
      BY <1>5, <2>1, <1>8
    <3>2. queue[n][i + 1].size \in {1, 2}
      BY <1>5, <2>1
    <3>3. pos[i + 1] = pos[i] + queue[n][i + 1].size
      BY <1>6, <2>1
    <3>4. size <= pos[i]
      BY <1>8, <2>1
    <3>5. pos[i + 1] <= Used(n)
      BY <1>5, <1>8, <2>1
    <3>6. queue[n][i + 1].size \in Nat
      BY <3>2
    <3> QED
      BY <3>1, <3>2, <3>3, <3>4, <3>5, <3>6
  <2>3. new[i] = q - size /\ new[i - 1] = p - size
    BY <1>10, <2>1, <2>2
  <2>4. queue'[n][i] = queue[n][i + 1]
    BY <1>4
  <2>5. PICK r \in Nat : r = p - size /\ r + size = p
    <3>1. size <= p
      BY <2>2
    <3>2. p - size \in Nat /\ p - size + size = p
      BY <3>1
    <3> QED
      BY <3>2
  <2>6. /\ r + size < Used(n)
        /\ s = 2 => (r + 1) + size < Used(n) /\ r + 1 \in Nat
    <3>1. PICK used \in Nat : used = Used(n) /\ r + size + s <= used
      BY <1>5, <2>2, <2>5
    <3>2. s = 1 \/ s = 2
      BY <2>2
    <3> QED
      BY <3>1, <3>2
  <2>7. At(n, r)' = At(n, p)
    BY <1>2, <2>5, <2>6
  <2>8. s = 2 => At(n, r + 1)' = At(n, p + 1)
    <3>1. (r + 1) + size = p + 1
      BY <2>5
    <3> QED
      BY <1>2, <2>6, <3>1
  <2>9. /\ At(n, p) = Put1(queue[n][i + 1])
        /\ s = 2 => At(n, p + 1) = Put2(queue[n][i + 1])
    BY <1>6, <2>1, <2>2
  <2>10. q - size = (p - size) + s
    <3>1. q = p + s
      BY <2>2
    <3> QED
      BY <3>1
  <2> QED
    BY <2>2, <2>3, <2>4, <2>5, <2>7, <2>8, <2>9, <2>10
<1>13. ASSUME NEW i \in 0..len, NEW j \in 0..len, i <= j
       PROVE  new[i] <= new[j]
  <2>1. i + 1 \in 0..(len + 1) /\ j + 1 \in 0..(len + 1) /\ i + 1 <= j + 1
    BY <1>3, <1>13
  <2>2. pos[i + 1] <= pos[j + 1] /\ pos[i + 1] \in Nat /\ pos[j + 1] \in Nat
    BY <1>5, <1>6, <2>1
  <2> QED
    BY <1>2, <1>10, <2>2
<1>14. SpelledBy(n, new)'
  BY <1>2, <1>4, <1>11, <1>12, <1>13 DEF SpelledBy
<1> QED
  BY <1>2, <1>4, <1>9, <1>14 DEF Spelled
-----------------------------------------------------------------------------
(* The lines announced by the calls under way.                             *)

PendingOf(calls, n) ==
  {line \in Node \X Context \X {1, 2} :
     LET call == calls[line[1]][line[2]]
     IN  call # NoKill /\ call.target = n /\ line[3] <= call.signal.size}

\* L are the calls K and one to t by context c of n.
OneMore(K, L, n, c, t) ==
  /\ K[n][c] = NoKill /\ L[n][c] # NoKill /\ L[n][c].target = t
  /\ L[n][c].signal.size \in {1, 2}
  /\ \A m \in Node, d \in Context : ~ (m = n /\ d = c) => L[m][d] = K[m][d]

\* A call announces as many lines as its signal has.
LEMMA OneCallMore ==
  ASSUME NEW K, NEW L, NEW n \in Node, NEW c \in Context, NEW t \in Node,
         OneMore(K, L, n, c, t),
         IsFiniteSet(PendingOf(K, t)) \/ IsFiniteSet(PendingOf(L, t))
  PROVE  /\ IsFiniteSet(PendingOf(K, t)) /\ IsFiniteSet(PendingOf(L, t))
         /\ Cardinality(PendingOf(K, t)) \in Nat
         /\ Cardinality(PendingOf(L, t)) =
              Cardinality(PendingOf(K, t)) + L[n][c].signal.size
         /\ \A u \in Node : u # t => PendingOf(L, u) = PendingOf(K, u)
<1> DEFINE size == L[n][c].signal.size
           a == <<n, c, 1>>
           b == <<n, c, 2>>
           P == Node \X Context \X {1, 2}
<1>1. \A u : PendingOf(K, u) \subseteq P /\ PendingOf(L, u) \subseteq P
  BY DEF PendingOf
<1>2. \A u, m \in Node, d \in Context, k \in {1, 2} :
        /\ <<m, d, k>> \in PendingOf(K, u) <=>
             /\ K[m][d] # NoKill /\ K[m][d].target = u
             /\ k <= K[m][d].signal.size
        /\ <<m, d, k>> \in PendingOf(L, u) <=>
             /\ L[m][d] # NoKill /\ L[m][d].target = u
             /\ k <= L[m][d].signal.size
  BY SMTT(30) DEF PendingOf
<1> HIDE DEF PendingOf
<1>3. ASSUME NEW u \in Node, NEW m \in Node, NEW d \in Context, NEW k \in {1, 2}
      PROVE  <<m, d, k>> \in PendingOf(L, u) <=>
               \/ <<m, d, k>> \in PendingOf(K, u)
               \/ m = n /\ d = c /\ u = t /\ k <= size
  <2>1. /\ <<m, d, k>> \in PendingOf(K, u) <=>
             /\ K[m][d] # NoKill /\ K[m][d].target = u
             /\ k <= K[m][d].signal.size
        /\ <<m, d, k>> \in PendingOf(L, u) <=>
             /\ L[m][d] # NoKill /\ L[m][d].target = u
             /\ k <= L[m][d].signal.size
    BY DEF PendingOf
  <2> QED
    BY <2>1 DEF OneMore
<1>4. \A line \in P :
        \E m \in Node, d \in Context, k \in {1, 2} : line = <<m, d, k>>
  OBVIOUS
<1>5. a \in P /\ b \in P
  OBVIOUS
<1>6. \A k \in {1, 2} : /\ size = 1 => (k <= size <=> k = 1)
                        /\ size = 2 => k <= size
  BY DEF OneMore
<1> HIDE DEF P, size
<1>7. ASSUME size = 1
      PROVE  PendingOf(L, t) = PendingOf(K, t) \cup {a}
  <2>1. ASSUME NEW line \in P
        PROVE  line \in PendingOf(L, t) <=> line \in PendingOf(K, t) \/ line = a
    <3>1. PICK m \in Node, d \in Context, k \in {1, 2} : line = <<m, d, k>>
      BY <1>4
    <3>2. <<m, d, k>> \in PendingOf(L, t) <=>
            <<m, d, k>> \in PendingOf(K, t) \/ (m = n /\ d = c /\ k <= size)
      BY <1>3
    <3>3. k <= size <=> k = 1
      BY <1>6, <1>7
    <3>4. <<m, d, k>> = a <=> m = n /\ d = c /\ k = 1
      OBVIOUS
    <3> QED
      BY <3>1, <3>2, <3>3, <3>4
  <2> QED
    BY <1>1, <1>5, <2>1
<1>8. ASSUME size = 2
      PROVE  PendingOf(L, t) = (PendingOf(K, t) \cup {a}) \cup {b}
  <2>1. ASSUME NEW line \in P
        PROVE  line \in PendingOf(L, t) <=>
                 line \in PendingOf(K, t) \/ line = a \/ line = b
    <3>1. PICK m \in Node, d \in Context, k \in {1, 2} : line = <<m, d, k>>
      BY <1>4
    <3>2. <<m, d, k>> \in PendingOf(L, t) <=>
            <<m, d, k>> \in PendingOf(K, t) \/ (m = n /\ d = c /\ k <= size)
      BY <1>3
    <3>3. k <= size
      BY <1>6, <1>8
    <3>4. /\ <<m, d, k>> = a <=> m = n /\ d = c /\ k = 1
          /\ <<m, d, k>> = b <=> m = n /\ d = c /\ k = 2
      OBVIOUS
    <3>5. k = 1 \/ k = 2
      OBVIOUS
    <3> QED
      BY <3>1, <3>2, <3>3, <3>4, <3>5
  <2> QED
    BY <1>1, <1>5, <2>1
<1>9. ASSUME NEW u \in Node, u # t
      PROVE  PendingOf(L, u) = PendingOf(K, u)
  <2>1. ASSUME NEW line \in P
        PROVE  line \in PendingOf(L, u) <=> line \in PendingOf(K, u)
    <3>1. PICK m \in Node, d \in Context, k \in {1, 2} : line = <<m, d, k>>
      BY <1>4
    <3> QED
      BY <1>3, <1>9, <3>1
  <2> QED
    BY <1>1, <2>1
<1>10. size = 1 \/ size = 2
  BY DEF size, OneMore
<1>11. a # b /\ a \notin PendingOf(K, t) /\ b \notin PendingOf(K, t)
  BY <1>2 DEF OneMore
<1> HIDE DEF a, b
<1>12. IsFiniteSet(PendingOf(K, t))
  <2>1. PendingOf(K, t) \subseteq PendingOf(L, t)
    BY <1>7, <1>8, <1>10
  <2> QED
    BY <2>1, FS_Subset
<1>13. /\ IsFiniteSet(PendingOf(K, t) \cup {a})
       /\ Cardinality(PendingOf(K, t) \cup {a}) = Cardinality(PendingOf(K, t)) + 1
  BY <1>11, <1>12, FS_AddElement
<1>14. b \notin PendingOf(K, t) \cup {a}
  BY <1>11
<1>15. /\ IsFiniteSet((PendingOf(K, t) \cup {a}) \cup {b})
       /\ Cardinality((PendingOf(K, t) \cup {a}) \cup {b}) =
            Cardinality(PendingOf(K, t) \cup {a}) + 1
  BY <1>13, <1>14, FS_AddElement
<1>16. Cardinality(PendingOf(K, t)) \in Nat
  BY <1>12, FS_CardinalityType
<1>17. size = 2 => Cardinality(PendingOf(L, t)) = Cardinality(PendingOf(K, t)) + 2
  <2>1. Cardinality(PendingOf(K, t)) + 1 + 1 = Cardinality(PendingOf(K, t)) + 2
    BY <1>16
  <2> QED
    BY <1>8, <1>13, <1>15, <2>1
<1>18. size = 1 => Cardinality(PendingOf(L, t)) = Cardinality(PendingOf(K, t)) + 1
  BY <1>7, <1>13
<1>19. Cardinality(PendingOf(L, t)) = Cardinality(PendingOf(K, t)) + size
  BY <1>10, <1>17, <1>18
<1>20. IsFiniteSet(PendingOf(L, t))
  BY <1>7, <1>8, <1>10, <1>13, <1>15
<1> QED
  BY <1>9, <1>12, <1>16, <1>19, <1>20 DEF size

LEMMA PendingCalls ==
  ASSUME NEW n \in Node
  PROVE  Pending(n) = PendingOf(kill, n) /\ Pending(n)' = PendingOf(kill', n)
BY DEF Pending, PendingOf

\* What is announced stays as it is while no call starts or ends.
LEMMA PendingSame ==
  ASSUME \A m \in Node, d \in Context :
           /\ kill'[m][d] # NoKill <=> kill[m][d] # NoKill
           /\ kill[m][d] # NoKill =>
                /\ kill'[m][d].target = kill[m][d].target
                /\ kill'[m][d].signal = kill[m][d].signal
  PROVE  \A n \in Node : Pending(n)' = Pending(n)
<1> SUFFICES ASSUME NEW n \in Node
             PROVE  PendingOf(kill', n) = PendingOf(kill, n)
  BY PendingCalls
<1>1. \A line \in Node \X Context \X {1, 2} :
        line[1] \in Node /\ line[2] \in Context
  OBVIOUS
<1> QED
  BY <1>1 DEF PendingOf
-----------------------------------------------------------------------------
(* The invariant of the queue is inductive.                                *)

LEMMA InitQueue == Init => QInv
<1> SUFFICES ASSUME Init PROVE QInv
  OBVIOUS
<1>1. IInv
  BY InitInv
<1>2. \A n \in Node : Used(n) = 0
  <2>1. \A n \in Node : index_bottom[n] = 0 /\ index_top[n] = 0
    BY DEF Init
  <2> QED
    BY <1>1, <2>1, UsedSpan DEF IInv
<1>3. \A n \in Node, c \in Context : kill[n][c] = NoKill
  BY DEF Init
<1>4. Written
  BY <1>3 DEF Written, NoKill
<1>5. Reading
  BY DEF Init, Reading, IdleCheck
<1>6. Counted
  <2>1. \A n \in Node : Pending(n) = {}
    BY <1>3 DEF Pending
  <2>2. IsFiniteSet({}) /\ Cardinality({}) = 0
    BY FS_EmptySet
  <2>3. \A n \in Node : backlog[n] = 0
    BY DEF Init
  <2> QED
    BY <1>2, <2>1, <2>2, <2>3, BoundAssumption DEF Counted
<1>7. ASSUME NEW n \in Node
      PROVE  Spelled(n)
  <2>1. queue[n] = <<>> /\ Len(queue[n]) = 0
    BY DEF Init
  <2> DEFINE pos == [i \in 0..0 |-> 0]
  <2>2. pos \in [0..Len(queue[n]) -> 0..Used(n)]
    BY <1>2, <2>1
  <2>3. pos[0] = 0 /\ pos[Len(queue[n])] = Used(n)
    BY <1>2, <2>1
  <2>4. \A i, j \in 0..0 : pos[i] <= pos[j]
    OBVIOUS
  <2>5. 1..0 = {}
    OBVIOUS
  <2> HIDE DEF pos
  <2>6. SpelledBy(n, pos)
    BY <2>1, <2>3, <2>4, <2>5 DEF SpelledBy
  <2> QED
    BY <2>2, <2>6 DEF Spelled
<1> QED
  BY <1>1, <1>4, <1>5, <1>6, <1>7 DEF QInv

LEMMA SpelledSame ==
  ASSUME NEW n \in Node, Spelled(n),
         UNCHANGED <<sig_array, index_bottom, index_top, queue>>
  PROVE  Spelled(n)'
BY DEF Spelled, SpelledBy, At, Used

LEMMA WrittenSame ==
  ASSUME Written, UNCHANGED <<sig_array, index_bottom>>,
         \A n \in Node, c \in Context :
           kill'[n][c].pc = "publish" => kill'[n][c] = kill[n][c]
  PROVE  Written'
BY DEF Written

LEMMA CountedSame ==
  ASSUME Counted, UNCHANGED <<index_bottom, index_top, backlog>>,
         \A n \in Node : Pending(n)' = Pending(n)
  PROVE  Counted'
BY DEF Counted, Used

\* More lines than are counted, a list never holds.
LEMMA Room ==
  ASSUME TypeOK, Counted, MaxBacklog < LEN, NEW n \in Node
  PROVE  /\ Used(n) \in Nat /\ Cardinality(Pending(n)) \in Nat
         /\ backlog[n] = Used(n) + Cardinality(Pending(n))
         /\ backlog[n] \in Nat /\ backlog[n] <= MaxBacklog
         /\ Used(n) + Cardinality(Pending(n)) < LEN
<1>1. /\ Used(n) \in Nat /\ Cardinality(Pending(n)) \in Nat
      /\ backlog[n] \in Nat
  BY UsedSpan, FS_CardinalityType DEF Counted, TypeOK
<1>2. /\ backlog[n] = Used(n) + Cardinality(Pending(n))
      /\ backlog[n] <= MaxBacklog
  BY DEF Counted
<1> QED
  BY <1>1, <1>2, BoundAssumption, LenAssumption

\* A call starts, from the program or from the timer handler.
LEMMA StartStep ==
  ASSUME QInv, IInv', NEW n \in Node, NEW c \in Context, NEW t \in Node,
         NEW signal \in Signal, Kill(n, c, t, signal),
         UNCHANGED <<sig_array, index_bottom, index_top, check, queue>>
  PROVE  QInv'
<1>1. TypeOK /\ TypeOK'
  BY DEF QInv, IInv
<1>2. /\ kill[n][c] = NoKill /\ kill'[n][c] # NoKill
      /\ kill'[n][c].pc = "wait" /\ kill'[n][c].target = t
      /\ kill'[n][c].signal = signal
      /\ \A m \in Node, d \in Context :
           ~ (m = n /\ d = c) => kill'[m][d] = kill[m][d]
  BY <1>1, CallStarts
<1>3. Written'
  BY <1>2, WrittenSame DEF QInv
<1>4. Reading'
  BY DEF QInv, Reading
<1>5. \A m \in Node : Spelled(m)'
  BY SpelledSame DEF QInv
<1>6. signal.size \in {1, 2}
  BY DEF Signal
<1>7. /\ \A m \in Node : IsFiniteSet(PendingOf(kill, m))
      /\ \A m \in Node : backlog[m] = Used(m) + Cardinality(PendingOf(kill, m))
      /\ \A m \in Node : backlog[m] <= MaxBacklog
  BY PendingCalls DEF QInv, Counted
<1>8. /\ IsFiniteSet(PendingOf(kill', t))
      /\ Cardinality(PendingOf(kill, t)) \in Nat
      /\ Cardinality(PendingOf(kill', t)) =
           Cardinality(PendingOf(kill, t)) + signal.size
      /\ \A u \in Node : u # t => PendingOf(kill', u) = PendingOf(kill, u)
  <2>1. OneMore(kill, kill', n, c, t)
    BY <1>2, <1>6 DEF OneMore
  <2> QED
    BY <1>2, <1>7, <2>1, OneCallMore
<1>9. \A m \in Node : Used(m)' = Used(m) /\ Used(m) \in Nat
  BY <1>1, UsedSpan DEF Used
<1>10. /\ backlog'[t] = backlog[t] + signal.size
       /\ backlog[t] + signal.size <= MaxBacklog
       /\ \A m \in Node : m # t => backlog'[m] = backlog[m]
  BY <1>1 DEF Kill, TypeOK
<1>11. ASSUME NEW m \in Node
       PROVE  /\ IsFiniteSet(PendingOf(kill', m))
              /\ backlog'[m] = Used(m)' + Cardinality(PendingOf(kill', m))
              /\ backlog'[m] <= MaxBacklog
  <2>1. CASE m = t
    <3>1. PICK used \in Nat, card \in Nat, size \in {1, 2} :
            /\ used = Used(t) /\ card = Cardinality(PendingOf(kill, t))
            /\ size = signal.size
      BY <1>6, <1>8, <1>9
    <3>2. (used + card) + size = used + (card + size)
      BY <3>1
    <3> QED
      BY <1>7, <1>8, <1>9, <1>10, <2>1, <3>1, <3>2
  <2>2. CASE m # t
    BY <1>7, <1>8, <1>9, <1>10, <2>2
  <2> QED
    BY <2>1, <2>2
<1>12. Counted'
  BY <1>11, PendingCalls DEF Counted
<1> QED
  BY <1>3, <1>4, <1>5, <1>12 DEF QInv

\* There is room for the lines of a call under way.
LEMMA RoomForCall ==
  ASSUME TypeOK, Counted, MaxBacklog < LEN, NEW n \in Node, NEW c \in Context,
         kill[n][c] # NoKill, NEW t \in Node, t = kill[n][c].target
  PROVE  /\ kill[n][c].signal \in Signal
         /\ kill[n][c].signal.size \in {1, 2}
         /\ Used(t) + kill[n][c].signal.size < LEN
<1>1. kill[n][c].signal \in Signal /\ kill[n][c].signal.size \in {1, 2}
  BY CallParts DEF Signal
<1> DEFINE K == [kill EXCEPT ![n][c] = NoKill]
<1>2. OneMore(K, kill, n, c, t)
  BY <1>1 DEF OneMore, TypeOK
<1> HIDE DEF K
<1>3. IsFiniteSet(PendingOf(kill, t))
  BY PendingCalls DEF Counted
<1>4. /\ Cardinality(PendingOf(K, t)) \in Nat
      /\ Cardinality(PendingOf(kill, t)) =
           Cardinality(PendingOf(K, t)) + kill[n][c].signal.size
  BY <1>2, <1>3, OneCallMore
<1>5. Used(t) \in Nat /\ Used(t) + Cardinality(PendingOf(kill, t)) < LEN
  BY Room, PendingCalls
<1>6. PICK used \in Nat, card \in Nat, size \in Nat :
        /\ used = Used(t) /\ card = Cardinality(PendingOf(K, t))
        /\ size = kill[n][c].signal.size
        /\ used + (card + size) < LEN
  BY <1>1, <1>4, <1>5
<1>7. used + size < LEN
  BY <1>6, LenAssumption
<1> QED
  BY <1>1, <1>6, <1>7

\* The slots behind the last line of a list.
LEMMA Behind ==
  ASSUME TypeOK, NEW t \in Node, NEW size \in {1, 2}, Used(t) + size < LEN
  PROVE  /\ \A k \in Nat : k < Used(t) => Advance(index_top[t], k) # index_bottom[t]
         /\ At(t, Used(t)) = sig_array[t][index_bottom[t]]
         /\ size = 2 =>
              /\ Advance(index_top[t], Used(t) + 1) = Advance(index_bottom[t], 1)
              /\ Advance(index_bottom[t], 1) # index_bottom[t]
              /\ \A k \in Nat : k < Used(t) =>
                   Advance(index_top[t], k) # Advance(index_bottom[t], 1)
              /\ At(t, Used(t) + 1) = sig_array[t][Advance(index_bottom[t], 1)]
<1>1. /\ index_bottom[t] \in 0..(LEN - 1) /\ index_top[t] \in 0..(LEN - 1)
      /\ Used(t) \in 0..(LEN - 1) /\ Used(t) \in Nat
      /\ Advance(index_top[t], Used(t)) = index_bottom[t]
  BY UsedSpan
<1>2. PICK used \in Nat, top \in 0..(LEN - 1), bottom \in 0..(LEN - 1) :
        /\ used = Used(t) /\ top = index_top[t] /\ bottom = index_bottom[t]
        /\ Advance(top, used) = bottom
  BY <1>1
<1>3. used + size < LEN /\ used \in 0..(LEN - 1)
  BY <1>1, <1>2
<1>4. \A k \in Nat : k < used => k \in 0..(LEN - 1) /\ k # used /\ k # used + 1
  BY <1>3, LenAssumption
<1>5. \A k \in Nat : k < used => Advance(top, k) # bottom
  BY <1>2, <1>3, <1>4, SlotsApart
<1>6. ASSUME size = 2
      PROVE  /\ Advance(top, used + 1) = Advance(bottom, 1)
             /\ Advance(bottom, 1) # bottom
             /\ \A k \in Nat : k < used => Advance(top, k) # Advance(bottom, 1)
  <2>1. PICK next \in 0..(LEN - 1) : next = used + 1 /\ next # used
    BY <1>3, <1>6, LenAssumption
  <2>2. used \in 0..LEN /\ 1 \in 0..LEN /\ used + 1 <= LEN
    BY <1>3, <1>6, LenAssumption
  <2>3. Advance(Advance(top, used), 1) = Advance(top, used + 1)
    BY <2>2, AdvanceTwice
  <2>4. Advance(top, next) = Advance(bottom, 1)
    BY <1>2, <2>1, <2>3
  <2>5. Advance(top, next) # Advance(top, used)
    BY <1>3, <2>1, SlotsApart
  <2>6. \A k \in Nat : k < used => Advance(top, k) # Advance(top, next)
    BY <1>4, <2>1, SlotsApart
  <2> QED
    BY <1>2, <2>1, <2>4, <2>5, <2>6
<1> QED
  BY <1>2, <1>5, <1>6 DEF At

\* The lines of a call go behind those of the list.
LEMMA WriteStep ==
  ASSUME QInv, MaxBacklog < LEN, IInv', NEW n \in Node, NEW c \in Context,
         KillWrite(n, c)
  PROVE  QInv'
<1> DEFINE signal == kill[n][c].signal
<1>1. TypeOK /\ TypeOK' /\ Counted
  BY DEF QInv, IInv
<1>2. /\ kill[n][c] # NoKill /\ kill'[n][c] # NoKill /\ KillHolds(n, c, kill[n][c].target)
      /\ kill'[n][c].target = kill[n][c].target /\ kill'[n][c].signal = signal
      /\ \A m \in Node, d \in Context :
           ~ (m = n /\ d = c) => kill'[m][d] = kill[m][d]
  BY <1>1, CallSteps DEF KillWrite, KillPublish, KillHolds
<1>3. PICK t \in Node : t = kill[n][c].target
  BY <1>1, <1>2, CallParts
<1>4. signal \in Signal /\ signal.size \in {1, 2} /\ Used(t) + signal.size < LEN
  BY <1>1, <1>2, <1>3, RoomForCall
<1>5. /\ UNCHANGED <<index_bottom, index_top, check, backlog, queue>>
      /\ \A m \in Node : m # t => sig_array'[m] = sig_array[m]
  BY <1>1, <1>3 DEF KillWrite, TypeOK
<1>6. \A i \in 0..(LEN - 1) :
        /\ i = index_bottom[t] => sig_array'[t][i] = Put1(signal)
        /\ i # index_bottom[t] /\ signal.size = 2 /\ i = Advance(index_bottom[t], 1)
             => sig_array'[t][i] = Put2(signal)
        /\ i # index_bottom[t] /\ ~ (signal.size = 2 /\ i = Advance(index_bottom[t], 1))
             => sig_array'[t][i] = sig_array[t][i]
  <2> DEFINE slots == [i \in 0..(LEN - 1) |->
                         CASE i = index_bottom[t] -> Put1(signal)
                           [] signal.size = 2 /\ i = Advance(index_bottom[t], 1)
                                -> Put2(signal)
                           [] OTHER -> sig_array[t][i]]
  <2>1. sig_array' = [sig_array EXCEPT ![t] = slots]
    BY <1>3 DEF KillWrite, Put1, Put2, SecondSlot
  <2>2. sig_array'[t] = slots
    BY <1>1, <2>1 DEF TypeOK
  <2> HIDE DEF signal
  <2>3. ASSUME NEW i \in 0..(LEN - 1)
        PROVE  sig_array'[t][i] =
                 CASE i = index_bottom[t] -> Put1(signal)
                   [] signal.size = 2 /\ i = Advance(index_bottom[t], 1)
                        -> Put2(signal)
                   [] OTHER -> sig_array[t][i]
    BY <2>2
  <2> HIDE DEF slots
  <2>4. ASSUME NEW i \in 0..(LEN - 1)
        PROVE  sig_array'[t][i] =
                 IF i = index_bottom[t] THEN Put1(signal)
                 ELSE IF signal.size = 2 /\ i = Advance(index_bottom[t], 1)
                      THEN Put2(signal) ELSE sig_array[t][i]
    <3>1. Advance(index_bottom[t], 1) # index_bottom[t] \/ signal.size # 2
      BY <1>1, <1>4, Behind DEF signal
    <3> QED
      BY <2>3, <3>1
  <2> QED
    BY <2>4
<1> HIDE DEF signal
<1>7. /\ \A k \in Nat : k < Used(t) => Advance(index_top[t], k) # index_bottom[t]
      /\ signal.size = 2 =>
           /\ Advance(index_bottom[t], 1) # index_bottom[t]
           /\ \A k \in Nat : k < Used(t) =>
                Advance(index_top[t], k) # Advance(index_bottom[t], 1)
  BY <1>1, <1>4, Behind
<1>8. /\ index_bottom[t] \in 0..(LEN - 1)
      /\ \A m \in Node : index_top[m] \in Nat
      /\ \A i, k \in Nat : Advance(i, k) \in 0..(LEN - 1)
  BY <1>1, UsedSpan, IndexNat, AdvanceInList
<1>9. Written'
  <2> SUFFICES ASSUME NEW m \in Node, NEW d \in Context, kill'[m][d].pc = "publish"
               PROVE  /\ sig_array'[kill'[m][d].target][index_bottom'[kill'[m][d].target]]
                           = Put1(kill'[m][d].signal)
                      /\ kill'[m][d].signal.size = 2 =>
                           sig_array'[kill'[m][d].target]
                             [Advance(index_bottom'[kill'[m][d].target], 1)]
                               = Put2(kill'[m][d].signal)
    BY DEF Written
  <2>1. CASE m = n /\ d = c
    <3>1. sig_array'[t][index_bottom[t]] = Put1(signal)
      BY <1>6, <1>8
    <3>2. signal.size = 2 => sig_array'[t][Advance(index_bottom[t], 1)] = Put2(signal)
      <4>1. Advance(index_bottom[t], 1) \in 0..(LEN - 1)
        BY <1>8, IndexNat
      <4> QED
        BY <1>6, <1>7, <4>1
    <3> QED
      BY <1>2, <1>3, <1>5, <2>1, <3>1, <3>2
  <2>2. CASE ~ (m = n /\ d = c)
    <3>1. kill'[m][d] = kill[m][d] /\ kill[m][d].pc = "publish"
      BY <1>2, <2>2
    <3>2. kill[m][d].target \in Node
      <4>1. kill[m][d] # NoKill
        BY <3>1 DEF NoKill
      <4> QED
        BY <1>1, <4>1, CallParts
    <3>3. kill[m][d].target # t
      BY <1>2, <1>3, <2>2, <3>1 DEF QInv, IInv, Locks, LockExclusion, KillHolds
    <3>4. sig_array'[kill[m][d].target] = sig_array[kill[m][d].target]
      BY <1>5, <3>2, <3>3
    <3> QED
      BY <1>5, <3>1, <3>4 DEF QInv, Written
  <2> QED
    BY <2>1, <2>2
<1>10. Reading'
  BY <1>5 DEF QInv, Reading
<1>11. Counted'
  <2>1. \A m \in Node, d \in Context :
          /\ kill'[m][d] # NoKill <=> kill[m][d] # NoKill
          /\ kill[m][d] # NoKill =>
               /\ kill'[m][d].target = kill[m][d].target
               /\ kill'[m][d].signal = kill[m][d].signal
    BY <1>2 DEF signal
  <2>2. \A m \in Node : Pending(m)' = Pending(m)
    BY <2>1, PendingSame
  <2> QED
    BY <1>1, <1>5, <2>2, CountedSame
<1>12. ASSUME NEW m \in Node
       PROVE  Spelled(m)'
  <2>1. queue'[m] = queue[m] /\ Used(m)' = Used(m) /\ Spelled(m)
    BY <1>5 DEF Used, QInv
  <2>2. ASSUME NEW k \in Nat, k < Used(m)
        PROVE  At(m, k)' = At(m, k)
    <3>1. index_top' = index_top
      BY <1>5
    <3>2. Advance(index_top[m], k) \in 0..(LEN - 1)
      BY <1>8
    <3>3. sig_array'[m][Advance(index_top[m], k)] = sig_array[m][Advance(index_top[m], k)]
      BY <1>5, <1>6, <1>7, <2>2, <3>2
    <3> QED
      BY <3>1, <3>3 DEF At
  <2> QED
    BY <1>1, <2>1, <2>2, SpelledKept
<1> QED
  BY <1>9, <1>10, <1>11, <1>12 DEF QInv

\* What publishing a call does: its signal becomes the last of the queue.
LEMMA PublishStep ==
  ASSUME QInv, MaxBacklog < LEN, IInv', NEW n \in Node, NEW c \in Context,
         KillPublish(n, c)
  PROVE  QInv'
<1> DEFINE signal == kill[n][c].signal
<1>1. TypeOK /\ TypeOK' /\ Counted
  BY DEF QInv, IInv
<1>2. /\ kill[n][c] # NoKill /\ kill[n][c].pc = "publish" /\ kill'[n][c] = NoKill
      /\ KillHolds(n, c, kill[n][c].target)
      /\ \A m \in Node, d \in Context :
           ~ (m = n /\ d = c) => kill'[m][d] = kill[m][d]
  BY <1>1, CallSteps DEF KillPublish, KillHolds
<1>3. PICK t \in Node : t = kill[n][c].target
  BY <1>1, <1>2, CallParts
<1>4. signal \in Signal /\ signal.size \in {1, 2} /\ Used(t) + signal.size < LEN
  BY <1>1, <1>2, <1>3, RoomForCall
<1>5. /\ UNCHANGED <<sig_array, index_top, check, backlog>>
      /\ index_bottom'[t] = Advance(index_bottom[t], signal.size)
      /\ queue'[t] = Append(queue[t], signal)
      /\ \A m \in Node : m # t => /\ index_bottom'[m] = index_bottom[m]
                                  /\ queue'[m] = queue[m]
  BY <1>1, <1>3 DEF KillPublish, TypeOK
<1>6. /\ sig_array[t][index_bottom[t]] = Put1(signal)
      /\ signal.size = 2 => sig_array[t][Advance(index_bottom[t], 1)] = Put2(signal)
  BY <1>2, <1>3 DEF QInv, Written
<1> HIDE DEF signal
<1>7. /\ \A m \in Node : Used(m) \in Nat
      /\ \A m \in Node : m # t => Used(m)' = Used(m)
      /\ Used(t)' = Used(t) + signal.size
  <2>1. \A m \in Node : Used(m) \in Nat
    BY <1>1, UsedSpan
  <2>2. \A m \in Node : m # t => Used(m)' = Used(m)
    BY <1>5 DEF Used
  <2>3. /\ Used(t) = Span(index_bottom[t], index_top[t])
        /\ index_bottom[t] \in 0..(LEN - 1) /\ index_top[t] \in 0..(LEN - 1)
    BY <1>1, UsedSpan
  <2>4. Span(Advance(index_bottom[t], signal.size), index_top[t]) =
          Span(index_bottom[t], index_top[t]) + signal.size
    BY <1>4, <2>3, SpanMoves
  <2>5. Used(t)' = Span(index_bottom'[t], index_top'[t])
    BY DEF Used, Span
  <2> QED
    BY <1>5, <2>1, <2>2, <2>3, <2>4, <2>5
<1>8. \A m \in Node, d \in Context :
        kill'[m][d].pc = "publish" =>
          /\ kill'[m][d] = kill[m][d] /\ kill[m][d].target \in Node
          /\ kill[m][d].target # t
  <2> SUFFICES ASSUME NEW m \in Node, NEW d \in Context, kill'[m][d].pc = "publish"
               PROVE  /\ kill'[m][d] = kill[m][d] /\ kill[m][d].target \in Node
                      /\ kill[m][d].target # t
    OBVIOUS
  <2>1. ~ (m = n /\ d = c)
    BY <1>2 DEF NoKill
  <2>2. kill'[m][d] = kill[m][d] /\ kill[m][d].pc = "publish"
    BY <1>2, <2>1
  <2>3. kill[m][d] # NoKill
    BY <2>2 DEF NoKill
  <2>4. kill[m][d].target # t
    BY <1>2, <1>3, <2>1, <2>2 DEF QInv, IInv, Locks, LockExclusion, KillHolds
  <2> QED
    BY <1>1, <2>2, <2>3, <2>4, CallParts
<1>9. Written'
  <2> SUFFICES ASSUME NEW m \in Node, NEW d \in Context, kill'[m][d].pc = "publish"
               PROVE  /\ sig_array'[kill'[m][d].target][index_bottom'[kill'[m][d].target]]
                           = Put1(kill'[m][d].signal)
                      /\ kill'[m][d].signal.size = 2 =>
                           sig_array'[kill'[m][d].target]
                             [Advance(index_bottom'[kill'[m][d].target], 1)]
                               = Put2(kill'[m][d].signal)
    BY DEF Written
  <2>1. index_bottom'[kill[m][d].target] = index_bottom[kill[m][d].target]
    BY <1>5, <1>8
  <2> QED
    BY <1>5, <1>8, <2>1 DEF QInv, Written
<1>10. Reading'
  <2> SUFFICES ASSUME NEW m \in Node PROVE
        LET frame == check'[m]
        IN  /\ frame.pc = "read" => frame.tmp_bottom = index_bottom'[m]
            /\ frame.pc # "dispatch" => frame.second = NoLine /\ frame.cnt = 1
            /\ frame.pc = "dispatch" =>
                 /\ queue'[m] # <<>>
                 /\ frame.first = Put1(Head(queue'[m]))
                 /\ \/ frame.second = NoLine /\ frame.cnt = 1
                    \/ /\ frame.second = Put2(Head(queue'[m])) /\ frame.cnt = 2
                       /\ Head(queue'[m]).size = 2
    BY DEF Reading
  <2>1. check[m].pc = "read" => m # t
    BY <1>2, <1>3 DEF QInv, IInv, Locks, LockExclusion, CheckHolds
  <2>2. queue[m] # <<>> => queue'[m] # <<>> /\ Head(queue'[m]) = Head(queue[m])
    <3>1. queue[m] \in Seq(Signal)
      BY <1>1 DEF TypeOK
    <3>2. ASSUME NEW q \in Seq(Signal), q # <<>>
          PROVE  Append(q, signal) # <<>> /\ Head(Append(q, signal)) = Head(q)
      BY <1>4, <3>2
    <3>3. queue'[m] = queue[m] \/ queue'[m] = Append(queue[m], signal)
      BY <1>5
    <3> QED
      BY <3>1, <3>2, <3>3
  <2> QED
    BY <1>5, <2>1, <2>2 DEF QInv, Reading
<1>11. Counted'
  <2>1. OneMore(kill', kill, n, c, t)
    BY <1>2, <1>3, <1>4 DEF OneMore, signal
  <2>2. \A m \in Node : IsFiniteSet(PendingOf(kill, m))
    BY PendingCalls DEF QInv, Counted
  <2>3. /\ IsFiniteSet(PendingOf(kill', t))
        /\ Cardinality(PendingOf(kill', t)) \in Nat
        /\ Cardinality(PendingOf(kill, t)) =
             Cardinality(PendingOf(kill', t)) + kill[n][c].signal.size
        /\ \A u \in Node : u # t => PendingOf(kill, u) = PendingOf(kill', u)
    BY <2>1, <2>2, OneCallMore
  <2>4. \A m \in Node : /\ backlog[m] = Used(m) + Cardinality(PendingOf(kill, m))
                        /\ backlog[m] <= MaxBacklog
    BY PendingCalls DEF QInv, Counted
  <2>5. ASSUME NEW m \in Node
        PROVE  /\ IsFiniteSet(PendingOf(kill', m))
               /\ backlog'[m] = Used(m)' + Cardinality(PendingOf(kill', m))
               /\ backlog'[m] <= MaxBacklog
    <3>1. CASE m = t
      <4>1. PICK used \in Nat, card \in Nat, size \in {1, 2} :
              /\ used = Used(t) /\ card = Cardinality(PendingOf(kill', t))
              /\ size = signal.size
        BY <1>4, <1>7, <2>3
      <4>2. (used + size) + card = used + (card + size)
        BY <4>1
      <4> QED
        BY <1>5, <1>7, <2>3, <2>4, <3>1, <4>1, <4>2 DEF signal
    <3>2. CASE m # t
      BY <1>5, <1>7, <2>2, <2>3, <2>4, <3>2
    <3> QED
      BY <3>1, <3>2
  <2> QED
    BY <2>5, PendingCalls DEF Counted
<1>12. ASSUME NEW m \in Node
       PROVE  Spelled(m)'
  <2>1. \A k \in Nat : At(m, k)' = At(m, k)
    BY <1>5 DEF At
  <2>2. Spelled(m)
    BY DEF QInv
  <2>3. CASE m = t
    <3>1. At(t, Used(t)) = Put1(signal)
      BY <1>1, <1>4, <1>6, Behind
    <3>2. signal.size = 2 => At(t, Used(t) + 1) = Put2(signal)
      BY <1>1, <1>4, <1>6, Behind
    <3> QED
      BY <1>1, <1>4, <1>5, <1>7, <2>1, <2>2, <2>3, <3>1, <3>2, SpelledPut
  <2>4. CASE m # t
    BY <1>1, <1>5, <1>7, <2>1, <2>2, <2>4, SpelledKept
  <2> QED
    BY <2>3, <2>4
<1> QED
  BY <1>9, <1>10, <1>11, <1>12 DEF QInv

\* A step of a call that waits, or of the owner up to the end of a handler,
\* leaves the list as it is.
LEMMA QuietStep ==
  ASSUME QInv, IInv', Reading',
         UNCHANGED <<sig_array, index_bottom, index_top, backlog, queue>>,
         \A n \in Node, c \in Context :
           /\ kill'[n][c].pc = "publish" => kill'[n][c] = kill[n][c]
           /\ kill'[n][c] # NoKill <=> kill[n][c] # NoKill
           /\ kill[n][c] # NoKill =>
                /\ kill'[n][c].target = kill[n][c].target
                /\ kill'[n][c].signal = kill[n][c].signal
  PROVE  QInv'
<1>1. Written'
  BY WrittenSame DEF QInv
<1>2. \A n \in Node : Pending(n)' = Pending(n)
  BY PendingSame
<1>3. Counted'
  BY <1>2, CountedSame DEF QInv
<1>4. \A n \in Node : Spelled(n)'
  BY SpelledSame DEF QInv
<1> QED
  BY <1>1, <1>3, <1>4 DEF QInv

\* Acquiring a lock for a call.
LEMMA AcquireStep ==
  ASSUME QInv, IInv', NEW n \in Node, NEW c \in Context, KillAcquire(n, c)
  PROVE  QInv'
<1>1. TypeOK
  BY DEF QInv, IInv
<1>2. /\ kill[n][c] # NoKill /\ kill'[n][c].pc = "write" /\ kill'[n][c] # NoKill
      /\ kill'[n][c].target = kill[n][c].target
      /\ kill'[n][c].signal = kill[n][c].signal
      /\ \A m \in Node, d \in Context :
           ~ (m = n /\ d = c) => kill'[m][d] = kill[m][d]
  BY <1>1, CallSteps DEF KillAcquire, KillPublish
<1>3. UNCHANGED <<sig_array, index_bottom, index_top, check, backlog, queue>>
  BY DEF KillAcquire
<1>4. Reading'
  BY <1>3 DEF QInv, Reading
<1> QED
  BY <1>2, <1>3, <1>4, QuietStep

\* The steps of the owner other than the last of a handler.
LEMMA OwnerStep ==
  ASSUME QInv, IInv', NEW n \in Node,
         \/ CheckEnter(n) \/ CheckAcquire(n) \/ CheckTake(n)
         \/ HandlerGetSecond(n) \/ CheckDone(n)
  PROVE  /\ QInv'
         /\ CheckTake(n) => queue[n] # <<>> /\ check'[n].first = Put1(Head(queue[n]))
<1>1. TypeOK
  BY DEF QInv, IInv
<1>2. /\ UNCHANGED <<sig_array, index_bottom, index_top, backlog, queue, kill>>
      /\ \A m \in Node : m # n => check'[m] = check[m]
  BY <1>1 DEF CheckEnter, CheckAcquire, CheckTake, HandlerGetSecond, CheckDone,
              TypeOK
<1>3. check \in [Node -> CheckFrame]
  BY <1>1 DEF TypeOK
<1> DEFINE Reads(frame) ==
             /\ frame.pc = "read" => frame.tmp_bottom = index_bottom[n]
             /\ frame.pc # "dispatch" => frame.second = NoLine /\ frame.cnt = 1
             /\ frame.pc = "dispatch" =>
                  /\ queue[n] # <<>>
                  /\ frame.first = Put1(Head(queue[n]))
                  /\ \/ frame.second = NoLine /\ frame.cnt = 1
                     \/ /\ frame.second = Put2(Head(queue[n])) /\ frame.cnt = 2
                        /\ Head(queue[n]).size = 2
<1>4. Reads(check[n])
  BY DEF QInv, Reading
<1>5. PICK f \in CheckFrame : f = check[n]
  BY <1>3
<1>6. /\ Used(n) > 0 => queue[n] # <<>>
      /\ queue[n] # <<>> =>
           /\ sig_array[n][index_top[n]] = Put1(Head(queue[n]))
           /\ Head(queue[n]).size = 2 =>
                sig_array[n][Advance(index_top[n], 1)] = Put2(Head(queue[n]))
  <2>1. Spelled(n)
    BY DEF QInv
  <2>2. At(n, 0) = sig_array[n][index_top[n]]
    BY <1>1, UsedSpan
  <2> QED
    BY <1>1, <2>1, <2>2, Oldest DEF At
<1>7. ASSUME CheckEnter(n)
      PROVE  Reads(check'[n])
  <2>1. check'[n] = [f EXCEPT !.pc = "wait"] /\ f.pc = "out"
    BY <1>3, <1>5, <1>7 DEF CheckEnter, InCheck
  <2>2. /\ check'[n].pc = "wait" /\ check'[n].second = f.second
        /\ check'[n].cnt = f.cnt
    BY <2>1 DEF CheckFrame
  <2> QED
    BY <1>4, <1>5, <2>1, <2>2
<1>8. ASSUME CheckAcquire(n)
      PROVE  Reads(check'[n])
  <2>1. /\ check'[n] = [f EXCEPT !.pc = "read", !.tmp_bottom = index_bottom[n]]
        /\ f.pc \in {"wait", "relock"}
    BY <1>3, <1>5, <1>8 DEF CheckAcquire, InCheck
  <2>2. /\ check'[n].pc = "read" /\ check'[n].second = f.second
        /\ check'[n].cnt = f.cnt /\ check'[n].tmp_bottom = index_bottom[n]
    BY <2>1 DEF CheckFrame
  <2> QED
    BY <1>4, <1>5, <2>1, <2>2
<1>9. ASSUME CheckTake(n)
      PROVE  /\ Reads(check'[n])
             /\ queue[n] # <<>> /\ check'[n].first = Put1(Head(queue[n]))
  <2>1. /\ check'[n] = [f EXCEPT !.pc = "dispatch",
                                 !.first = sig_array[n][index_top[n]]]
        /\ f.pc = "read" /\ index_top[n] # f.tmp_bottom
    BY <1>3, <1>5, <1>9 DEF CheckTake, InCheck
  <2>2. /\ check'[n].pc = "dispatch" /\ check'[n].second = f.second
        /\ check'[n].cnt = f.cnt /\ check'[n].first = sig_array[n][index_top[n]]
    BY <2>1 DEF CheckFrame
  <2>3. index_top[n] # index_bottom[n]
    BY <1>4, <1>5, <2>1
  <2>4. Used(n) \in Nat /\ Used(n) # 0
    BY <1>1, <2>3, UsedSpan
  <2>5. queue[n] # <<>>
    BY <1>6, <2>4
  <2> QED
    BY <1>4, <1>5, <1>6, <2>1, <2>2, <2>5
<1>10. ASSUME HandlerGetSecond(n)
       PROVE  Reads(check'[n])
  <2>1. /\ check'[n] = [f EXCEPT
              !.second = sig_array[n][Advance(index_top[n], 1)], !.cnt = 2]
        /\ f.pc = "dispatch" /\ f.first.signal.size = 2
    BY <1>3, <1>5, <1>10 DEF HandlerGetSecond, InCheck
  <2>2. /\ check'[n].pc = "dispatch" /\ check'[n].first = f.first
        /\ check'[n].second = sig_array[n][Advance(index_top[n], 1)]
        /\ check'[n].cnt = 2
    BY <2>1 DEF CheckFrame
  <2>3. Head(queue[n]).size = 2
    BY <1>4, <1>5, <2>1 DEF Put1
  <2> QED
    BY <1>4, <1>5, <1>6, <2>1, <2>2, <2>3
<1>11. ASSUME CheckDone(n)
       PROVE  Reads(check'[n])
  <2>1. check'[n] = IdleCheck
    BY <1>3, <1>11 DEF CheckDone
  <2> QED
    BY <2>1 DEF IdleCheck
<1>12. Reads(check'[n])
  BY <1>7, <1>8, <1>9, <1>10, <1>11
<1>13. Reading'
  BY <1>2, <1>12 DEF QInv, Reading
<1>14. QInv'
  BY <1>2, <1>13, QuietStep
<1> QED
  BY <1>9, <1>14

\* The end of a handler: its signal is the first of the queue and leaves it.
LEMMA AdvanceStep ==
  ASSUME QInv, MaxBacklog < LEN, IInv', NEW n \in Node, CheckAdvance(n)
  PROVE  QInv' /\ queue[n] # <<>>
<1>1. TypeOK /\ TypeOK' /\ Counted
  BY DEF QInv, IInv
<1>2. /\ UNCHANGED <<sig_array, index_bottom, kill>>
      /\ index_top'[n] = Advance(index_top[n], check[n].cnt)
      /\ check[n].pc = "dispatch" /\ HandlerDone(n)
      /\ check'[n] = [IdleCheck EXCEPT !.pc = "relock",
                                       !.tmp_bottom = check[n].tmp_bottom]
      /\ backlog'[n] = IF backlog[n] < check[n].cnt THEN 0
                       ELSE backlog[n] - check[n].cnt
      /\ queue'[n] = IF queue[n] = <<>> THEN queue[n] ELSE Tail(queue[n])
      /\ \A m \in Node : m # n =>
           /\ index_top'[m] = index_top[m] /\ check'[m] = check[m]
           /\ backlog'[m] = backlog[m] /\ queue'[m] = queue[m]
  BY <1>1 DEF CheckAdvance, InCheck, TypeOK
<1>3. /\ queue[n] # <<>>
      /\ check[n].first = Put1(Head(queue[n]))
      /\ \/ check[n].second = NoLine /\ check[n].cnt = 1
         \/ check[n].cnt = 2 /\ Head(queue[n]).size = 2
  BY <1>2 DEF QInv, Reading
<1>4. Spelled(n)
  BY DEF QInv
<1>5. Head(queue[n]).size \in {1, 2} /\ Head(queue[n]).size <= Used(n)
  BY <1>1, <1>3, <1>4, Oldest
<1>6. check[n].cnt = Head(queue[n]).size
  <2>1. check[n].first.part = 1 /\ check[n].first.signal = Head(queue[n])
    BY <1>3 DEF Put1
  <2> QED
    BY <1>2, <1>3, <1>5, <2>1 DEF HandlerDone
<1>7. PICK size \in Nat :
        size \in {1, 2} /\ size = Head(queue[n]).size /\ size = check[n].cnt
  BY <1>5, <1>6
<1>8. /\ \A m \in Node : Used(m) \in Nat
      /\ \A m \in Node : m # n => Used(m)' = Used(m)
      /\ Used(n)' = Used(n) - size
      /\ Used(n) < LEN /\ size <= Used(n)
  <2>1. \A m \in Node : Used(m) \in Nat
    BY <1>1, UsedSpan
  <2>2. \A m \in Node : m # n => Used(m)' = Used(m)
    BY <1>2 DEF Used
  <2>3. /\ Used(n) = Span(index_bottom[n], index_top[n])
        /\ index_bottom[n] \in 0..(LEN - 1) /\ index_top[n] \in 0..(LEN - 1)
        /\ Used(n) \in 0..(LEN - 1)
    BY <1>1, UsedSpan
  <2>4. Span(index_bottom[n], Advance(index_top[n], size)) =
          Span(index_bottom[n], index_top[n]) - size
    BY <1>5, <1>7, <2>3, SpanMoves
  <2>5. Used(n)' = Span(index_bottom'[n], index_top'[n])
    BY DEF Used, Span
  <2>6. Used(n) < LEN
    BY <2>3, LenAssumption
  <2> QED
    BY <1>2, <1>5, <1>7, <2>1, <2>2, <2>3, <2>4, <2>5, <2>6
<1>9. Written'
  BY <1>2, WrittenSame DEF QInv
<1>10. Reading'
  <2>1. /\ check'[n].pc = "relock" /\ check'[n].second = NoLine
        /\ check'[n].cnt = 1
    BY <1>2 DEF IdleCheck
  <2>2. check'[n].pc # "read" /\ check'[n].pc # "dispatch"
    BY <2>1
  <2> SUFFICES ASSUME NEW m \in Node PROVE
        LET frame == check'[m]
        IN  /\ frame.pc = "read" => frame.tmp_bottom = index_bottom'[m]
            /\ frame.pc # "dispatch" => frame.second = NoLine /\ frame.cnt = 1
            /\ frame.pc = "dispatch" =>
                 /\ queue'[m] # <<>>
                 /\ frame.first = Put1(Head(queue'[m]))
                 /\ \/ frame.second = NoLine /\ frame.cnt = 1
                    \/ /\ frame.second = Put2(Head(queue'[m])) /\ frame.cnt = 2
                       /\ Head(queue'[m]).size = 2
    BY DEF Reading
  <2>3. CASE m = n
    BY <2>1, <2>2, <2>3
  <2>4. CASE m # n
    BY <1>2, <2>4 DEF QInv, Reading
  <2> QED
    BY <2>3, <2>4
<1>11. Counted'
  <2>1. \A m \in Node : Pending(m)' = Pending(m)
    BY <1>2 DEF Pending
  <2>2. PICK used \in Nat, card \in Nat :
          /\ used = Used(n) /\ card = Cardinality(Pending(n))
          /\ backlog[n] = used + card /\ used + card <= MaxBacklog
    BY <1>1, Room
  <2>3. backlog'[n] = (used - size) + card /\ (used - size) + card <= MaxBacklog
    <3>1. used + card - size = (used - size) + card /\ ~ (used + card < size)
      BY <1>7, <1>8, <2>2
    <3>2. (used - size) + card <= used + card /\ (used - size) \in Nat
      BY <1>7, <1>8, <2>2
    <3>3. (used - size) + card <= MaxBacklog
      BY <1>7, <2>2, <3>2, BoundAssumption
    <3> QED
      BY <1>2, <1>7, <2>2, <3>1, <3>3
  <2> QED
    BY <1>2, <1>8, <2>1, <2>2, <2>3 DEF QInv, Counted
<1>12. ASSUME NEW m \in Node
       PROVE  Spelled(m)'
  <2>1. CASE m = n
    <3>1. queue'[n] = Tail(queue[n])
      BY <1>2, <1>3
    <3>2. ASSUME NEW k \in Nat, k + size < Used(n)
          PROVE  At(n, k)' = At(n, k + size)
      <4>1. index_top[n] \in 0..(LEN - 1)
        BY <1>1, UsedSpan
      <4>2. /\ size \in 0..LEN /\ k \in 0..LEN /\ size + k <= LEN
            /\ size + k = k + size
        BY <1>7, <1>8, <3>2, LenAssumption
      <4>3. Advance(Advance(index_top[n], size), k) = Advance(index_top[n], k + size)
        BY <4>1, <4>2, AdvanceTwice
      <4> QED
        BY <1>2, <1>7, <4>3 DEF At
    <3> QED
      BY <1>1, <1>3, <1>4, <1>7, <1>8, <2>1, <3>1, <3>2, SpelledFinish
  <2>2. CASE m # n
    <3>1. \A k \in Nat : At(m, k)' = At(m, k)
      BY <1>2, <2>2 DEF At
    <3> QED
      BY <1>1, <1>2, <1>8, <2>2, <3>1, SpelledKept DEF QInv
  <2> QED
    BY <2>1, <2>2
<1> QED
  BY <1>3, <1>9, <1>10, <1>11, <1>12 DEF QInv

LEMMA QueueStep == MaxBacklog < LEN /\ QInv /\ IInv' /\ [Next]_vars => QInv'
<1> SUFFICES ASSUME MaxBacklog < LEN, QInv, IInv', [Next]_vars PROVE QInv'
  OBVIOUS
<1>1. ASSUME NEW n \in Node, NEW t \in Node, NEW size \in {1, 2},
             SendSignal(n, t, size)
      PROVE  QInv'
  <2>1. [from |-> n, serial |-> R[n], size |-> size] \in Signal
    BY DEF Signal, QInv, IInv, TypeOK
  <2>2. [from |-> n, serial |-> R[n], size |-> size].size = size
    OBVIOUS
  <2> QED
    BY <1>1, <2>1, StartStep DEF SendSignal, Context
<1>2. ASSUME NEW n \in Node, NEW t \in Node, TimerSignal(n, t)
      PROVE  QInv'
  <2>1. [from |-> n, serial |-> MaxR, size |-> 1] \in Signal
    BY BoundAssumption DEF Signal
  <2> QED
    BY <1>2, <2>1, StartStep DEF TimerSignal, Context
<1>3. CASE UNCHANGED vars
  <2>1. Reading'
    BY <1>3 DEF vars, QInv, Reading
  <2> QED
    BY <1>3, <2>1, QuietStep DEF vars
<1> QED
  BY <1>1, <1>2, <1>3, AcquireStep, WriteStep, PublishStep, OwnerStep, AdvanceStep
     DEF Next, Proceed
-----------------------------------------------------------------------------
\* As long as fewer lines are outstanding than a list has slots, the list
\* between its indexes spells the queue.
LEMMA QueueInvariant == MaxBacklog < LEN => (Spec => []QInv)
<1> SUFFICES ASSUME MaxBacklog < LEN PROVE Spec => []QInv
  OBVIOUS
<1>1. QInv /\ IInv' /\ [Next]_vars => QInv'
  BY QueueStep
<1> QED
  BY <1>1, InitQueue, Invariant, PTL DEF Spec

\* A handler that fetches the second line of its signal without the lock gets
\* the second line of that very signal, however many lines the list has, as
\* long as those outstanding leave one of them free.
THEOREM WholeSignalHolds == MaxBacklog < LEN => (Spec => []WholeSignal)
<1> SUFFICES ASSUME MaxBacklog < LEN PROVE Spec => []WholeSignal
  OBVIOUS
<1>1. QInv => WholeSignal
  <2> SUFFICES ASSUME QInv, NEW n \in Node, check[n].second # NoLine
               PROVE  check[n].second =
                        [signal |-> check[n].first.signal, part |-> 2]
    BY DEF WholeSignal
  <2>1. /\ check[n].first = Put1(Head(queue[n]))
        /\ check[n].second = Put2(Head(queue[n]))
    BY DEF QInv, Reading
  <2>2. check[n].first.signal = Head(queue[n])
    BY <2>1 DEF Put1
  <2> QED
    BY <2>1, <2>2 DEF Put2
<1> QED
  BY <1>1, QueueInvariant, PTL

\* No line sent to a core disappears: the lines outstanding are those between
\* the indexes of its list and those of the calls under way.
THEOREM NothingLostHolds == MaxBacklog < LEN => (Spec => []NothingLost)
<1> SUFFICES ASSUME MaxBacklog < LEN PROVE Spec => []NothingLost
  OBVIOUS
<1>1. QInv => NothingLost
  BY DEF QInv, Counted, NothingLost
<1> QED
  BY <1>1, QueueInvariant, PTL
-----------------------------------------------------------------------------
(* The list implements the queue, a step for a step or a stutter.          *)

Running == [n \in Node |-> Handled(n)]

\* A step that changes neither the queue nor what is being handled.
LEMMA Stutter ==
  ASSUME UNCHANGED queue, \A n \in Node : Handled(n)' = Handled(n)
  PROVE  UNCHANGED Queue!vars
<1>1. Running' = Running
  BY DEF Running
<1> QED
  BY <1>1 DEF Queue!vars, Running

LEMMA HandledSame ==
  ASSUME NEW n \in Node, check'[n].pc = check[n].pc,
         check'[n].first = check[n].first
  PROVE  Handled(n)' = Handled(n)
BY DEF Handled

LEMMA QueueRefined ==
  MaxBacklog < LEN /\ QInv /\ IInv' /\ [Next]_vars => [Queue!Next]_(Queue!vars)
<1> SUFFICES ASSUME MaxBacklog < LEN, QInv, IInv', [Next]_vars
             PROVE  [Queue!Next]_(Queue!vars)
  OBVIOUS
<1>1. TypeOK
  BY DEF QInv, IInv
<1>2. ASSUME NEW n \in Node, NEW t \in Node, NEW size \in {1, 2},
             SendSignal(n, t, size) \/ TimerSignal(n, t)
      PROVE  [Queue!Next]_(Queue!vars)
  BY <1>2, HandledSame, Stutter DEF SendSignal, TimerSignal
<1>3. ASSUME NEW n \in Node, NEW c \in Context, KillAcquire(n, c) \/ KillWrite(n, c)
      PROVE  [Queue!Next]_(Queue!vars)
  BY <1>3, HandledSame, Stutter DEF KillAcquire, KillWrite
<1>4. ASSUME NEW n \in Node, NEW c \in Context, KillPublish(n, c)
      PROVE  [Queue!Next]_(Queue!vars)
  <2>1. kill[n][c] # NoKill
    BY <1>1, <1>4, CallSteps
  <2>2. kill[n][c].target \in Node /\ kill[n][c].signal \in Signal
    BY <1>1, <2>1, CallParts
  <2>3. \A m \in Node : Handled(m)' = Handled(m)
    BY <1>4, HandledSame DEF KillPublish
  <2>4. Running' = Running
    BY <2>3 DEF Running
  <2>5. queue' = [queue EXCEPT ![kill[n][c].target] = Append(@, kill[n][c].signal)]
    BY <1>4 DEF KillPublish
  <2>6. Queue!Put(kill[n][c].target, kill[n][c].signal)
    BY <2>4, <2>5 DEF Queue!Put, Running
  <2> QED
    BY <2>2, <2>6 DEF Queue!Next
<1>5. ASSUME NEW n \in Node,
             CheckEnter(n) \/ CheckAcquire(n) \/ HandlerGetSecond(n) \/ CheckDone(n)
      PROVE  [Queue!Next]_(Queue!vars)
  <2>1. /\ UNCHANGED queue
        /\ \A m \in Node : m # n => check'[m] = check[m]
    BY <1>1, <1>5 DEF CheckEnter, CheckAcquire, HandlerGetSecond, CheckDone, TypeOK
  <2>2. PICK f \in CheckFrame : f = check[n]
    BY <1>1 DEF TypeOK
  <2>3. CASE HandlerGetSecond(n)
    <3>1. check'[n] = [f EXCEPT
                !.second = sig_array[n][Advance(index_top[n], 1)], !.cnt = 2]
      BY <1>1, <2>2, <2>3 DEF HandlerGetSecond, TypeOK
    <3>2. check'[n].pc = check[n].pc /\ check'[n].first = check[n].first
      BY <2>2, <3>1 DEF CheckFrame
    <3> QED
      BY <2>1, <3>2, HandledSame, Stutter
  <2>4. CASE CheckEnter(n) \/ CheckAcquire(n) \/ CheckDone(n)
    <3>1. check[n].pc # "dispatch"
      BY <2>4 DEF CheckEnter, CheckAcquire, CheckDone, InCheck
    <3>2. check'[n].pc # "dispatch"
      <4>1. CASE CheckEnter(n)
        <5>1. check'[n] = [f EXCEPT !.pc = "wait"]
          BY <1>1, <2>2, <4>1 DEF CheckEnter, TypeOK
        <5> QED
          BY <5>1 DEF CheckFrame
      <4>2. CASE CheckAcquire(n)
        <5>1. check'[n] = [f EXCEPT !.pc = "read", !.tmp_bottom = index_bottom[n]]
          BY <1>1, <2>2, <4>2 DEF CheckAcquire, TypeOK
        <5> QED
          BY <5>1 DEF CheckFrame
      <4>3. CASE CheckDone(n)
        BY <1>1, <4>3 DEF CheckDone, TypeOK, IdleCheck
      <4> QED
        BY <2>4, <4>1, <4>2, <4>3
    <3>3. Handled(n)' = Handled(n)
      BY <3>1, <3>2 DEF Handled
    <3>4. \A m \in Node : Handled(m)' = Handled(m)
      BY <2>1, <3>3, HandledSame
    <3> QED
      BY <2>1, <3>4, Stutter
  <2> QED
    BY <1>5, <2>3, <2>4
<1>6. ASSUME NEW n \in Node, CheckTake(n)
      PROVE  [Queue!Next]_(Queue!vars)
  <2>1. queue[n] # <<>> /\ check'[n].first = Put1(Head(queue[n]))
    BY <1>6, OwnerStep
  <2>2. PICK f \in CheckFrame : f = check[n]
    BY <1>1 DEF TypeOK
  <2>3. /\ check'[n] = [f EXCEPT !.pc = "dispatch",
                                 !.first = sig_array[n][index_top[n]]]
        /\ check[n].pc = "read" /\ UNCHANGED queue
        /\ \A m \in Node : m # n => check'[m] = check[m]
    BY <1>1, <1>6, <2>2 DEF CheckTake, InCheck, TypeOK
  <2>4. check'[n].pc = "dispatch"
    BY <2>3 DEF CheckFrame
  <2>5. Handled(n) = <<>> /\ Handled(n)' = <<Head(queue[n])>>
    <3>1. check'[n].first.part = 1 /\ check'[n].first.signal = Head(queue[n])
      BY <2>1 DEF Put1
    <3> QED
      BY <2>3, <2>4, <3>1 DEF Handled
  <2>6. \A m \in Node : m # n => Handled(m)' = Handled(m)
    BY <2>3, HandledSame
  <2>7. Running[n] = <<>> /\ Running' = [Running EXCEPT ![n] = <<Head(queue[n])>>]
    BY <2>5, <2>6 DEF Running
  <2>8. Queue!Take(n)
    BY <2>1, <2>3, <2>7 DEF Queue!Take, Running
  <2> QED
    BY <2>8 DEF Queue!Next
<1>7. ASSUME NEW n \in Node, CheckAdvance(n)
      PROVE  [Queue!Next]_(Queue!vars)
  <2>1. queue[n] # <<>>
    BY <1>7, AdvanceStep
  <2>2. /\ queue' = [queue EXCEPT ![n] = Tail(@)]
        /\ check[n].pc = "dispatch"
        /\ check'[n] = [IdleCheck EXCEPT !.pc = "relock",
                                         !.tmp_bottom = check[n].tmp_bottom]
        /\ \A m \in Node : m # n => check'[m] = check[m]
    BY <1>1, <1>7, <2>1 DEF CheckAdvance, InCheck, TypeOK
  <2>3. check'[n].pc = "relock"
    BY <2>2 DEF IdleCheck
  <2>4. Handled(n) # <<>> /\ Handled(n)' = <<>>
    BY <2>2, <2>3 DEF Handled
  <2>5. \A m \in Node : m # n => Handled(m)' = Handled(m)
    BY <2>2, HandledSame
  <2>6. Running[n] # <<>> /\ Running' = [Running EXCEPT ![n] = <<>>]
    BY <2>4, <2>5 DEF Running
  <2>7. Queue!Finish(n)
    BY <2>2, <2>6 DEF Queue!Finish, Running
  <2> QED
    BY <2>7 DEF Queue!Next
<1>8. CASE UNCHANGED vars
  BY <1>8, HandledSame, Stutter DEF vars
<1> QED
  BY <1>2, <1>3, <1>4, <1>5, <1>6, <1>7, <1>8 DEF Next, Proceed

\* The cyclic list, with its two indexes, its lock and the timers that pre-empt
\* it, is a FIFO queue of signals for every core: nothing is lost, duplicated,
\* reordered or torn while the lines outstanding leave one slot free.
THEOREM ListImplementsQueue == MaxBacklog < LEN => (Spec => ImplementsQueue)
<1> SUFFICES ASSUME MaxBacklog < LEN PROVE Spec => ImplementsQueue
  OBVIOUS
<1>1. Init => Queue!Init
  BY DEF Init, Queue!Init, Handled, IdleCheck
<1>2. QInv /\ IInv' /\ [Next]_vars => [Queue!Next]_(Queue!vars)
  BY QueueRefined
<1> QED
  BY <1>1, <1>2, QueueInvariant, Invariant, PTL DEF Spec, Queue!Spec, ImplementsQueue
=============================================================================
