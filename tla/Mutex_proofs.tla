------------------------------ MODULE Mutex_proofs ------------------------------
(***************************************************************************)
(* Mutual exclusion of Threads::Mutex, and that it implements AbstractLock, *)
(* for any number of threads, any timeouts, and with killed waiters and    *)
(* Suspend scopes.                                                         *)
(***************************************************************************)
EXTENDS Mutex, FiniteSetTheorems, WellFoundedInduction, TLAPS

(***************************************************************************)
(* The scheduler's operations.                                             *)
(***************************************************************************)

\* A set of naturals that is not empty has a least element: the slot
\* that a scan takes.
LEMMA LeastNatural ==
    ASSUME NEW S \in SUBSET Nat, S # {}
    PROVE  \E x \in S : \A y \in S : x <= y
<1>1. PICK x \in S : \A y \in S : <<y, x>> \notin OpToRel(<, Nat)
  BY NatLessThanWellFounded, WFMin, Zenon
<1>2. ASSUME NEW y \in S PROVE x <= y
  <2>1. x \in Nat /\ y \in Nat
    OBVIOUS
  <2>2. ~(y < x)
    BY <1>1, <2>1, Zenon DEF OpToRel
  <2> QED BY <2>1, <2>2
<1> QED BY <1>2

\* Slot 0 is a slot, and slots are naturals.
LEMMA SlotFacts == 0 \in Slots /\ Slots \subseteq Nat
BY ThreadConstants DEF Slots

\* The scan of getNextThread returns a slot of the table, never the index one
\* past it, whatever the states of the threads.
LEMMA NextThreadIsSlot ==
    ASSUME NEW i \in Slots, NEW fl PROVE NextThread(i, fl) \in Slots
<1>1. CASE RunnableAfter(i, fl) = {}
  BY <1>1, SlotFacts DEF NextThread
<1>2. CASE RunnableAfter(i, fl) # {}
  <2> DEFINE R == RunnableAfter(i, fl)
  <2>1. R \subseteq Slots /\ R \in SUBSET Nat
    BY SlotFacts DEF RunnableAfter
  <2>2. \E x \in R : \A y \in R : x <= y
    BY <1>2, <2>1, LeastNatural
  <2>3. Min(R) \in R
    BY <2>2 DEF Min
  <2> QED BY <1>2, <2>1, <2>3 DEF NextThread
<1> QED BY <1>1, <1>2

\* The scan dispatches a RUNNING thread or thread 0.
LEMMA DispatchedRuns ==
    ASSUME NEW i \in Slots, NEW fl PROVE NextThread(i, fl) = 0 \/ fl[NextThread(i, fl)] = RUNNING
<1>1. CASE RunnableAfter(i, fl) # {}
  <2> DEFINE R == RunnableAfter(i, fl)
  <2>1. R \in SUBSET Nat
    BY SlotFacts DEF RunnableAfter
  <2>2. \E x \in R : \A y \in R : x <= y
    BY <1>1, <2>1, LeastNatural
  <2>3. Min(R) \in R
    BY <2>2 DEF Min
  <2> QED BY <1>1, <2>3 DEF NextThread, RunnableAfter
<1> QED BY <1>1 DEF NextThread

\* A tick of the timer keeps the scheduler's types.
LEMMA TickKeepsTypes ==
    ASSUME SchedTypeOK, TickCountsDown \/ TickSwitches PROVE SchedTypeOK'
<1>1. CASE TickCountsDown
  BY <1>1, ThreadConstants DEF SchedTypeOK, TickCountsDown
<1>2. CASE TickSwitches
  BY <1>2, ThreadConstants, NextThreadIsSlot
     DEF SchedTypeOK, TickSwitches, getNextThread
<1> QED BY <1>1, <1>2

\* yield() keeps the scheduler's types.
LEMMA YieldKeepsTypes ==
    ASSUME SchedTypeOK, yieldCore, UNCHANGED <<currentActive, flags, thread_count>>
    PROVE  SchedTypeOK'
<1>1. CASE currentActive = STARTED
  BY <1>1, ThreadConstants, NextThreadIsSlot DEF SchedTypeOK, yieldCore, getNextThread
<1>2. CASE currentActive # STARTED
  BY <1>2 DEF SchedTypeOK, yieldCore
<1> QED BY <1>1, <1>2

\* kill, suspend, restart and setState keep the scheduler's types.
LEMMA SetFlagsKeepsTypes ==
    ASSUME SchedTypeOK, NEW i \in Slots, NEW s \in ThreadStates, setFlags(i, s)
    PROVE  SchedTypeOK'
BY DEF SchedTypeOK, setFlags

-----------------------------------------------------------------------------

\* The clock of a lock() counts only in its loop.
TimeInv == \A t \in Slots : pc[t] \notin InLock \ {"first"} => elapsed[t] = 0

\* The lock word tells whether a thread is in the critical section, and at most
\* one is.
LockInv ==
    /\ state = 0 => \A t \in Slots : pc[t] # "held"
    /\ state = 1 => \E t \in Slots : pc[t] = "held"
    /\ \A t, u \in Slots : pc[t] = "held" /\ pc[u] = "held" => t = u

IInv == TypeOK /\ TimeInv /\ LockInv

\* The limits of lock() are naturals.
LEMMA TimeoutFacts == TIMEOUTS \union {0} \subseteq Nat
<1>1. TIMEOUTS \subseteq Nat
  BY MutexConstants
<1> QED BY <1>1

\* The invariant holds before the first lock().
LEMMA InitInv == Init => IInv
<1> SUFFICES ASSUME Init PROVE IInv
  OBVIOUS
<1>1. SchedTypeOK
  BY ThreadConstants, SlotFacts DEF Init, SchedTypeOK, SystemStates, ThreadStates
<1>2. TypeOK
  BY <1>1 DEF Init, TypeOK, Places
<1>3. TimeInv /\ LockInv
  BY DEF Init, TimeInv, LockInv
<1> QED BY <1>2, <1>3 DEF IInv

-----------------------------------------------------------------------------
(***************************************************************************)
(* Types.  Every step of a thread changes the scheduler through one of the *)
(* operations of ThreadScheduler and its own entries of the rest.          *)
(***************************************************************************)
LEMMA LockStepTypes ==
    ASSUME TypeOK, TimeInv, NEW t \in Slots, LockStep(t)
    PROVE  TypeOK' /\ TimeInv'
<1> USE MutexConstants DEF TypeOK, TimeInv, InLock, Places
<1>1. CASE FirstTry(t)
  BY <1>1 DEF FirstTry, tryTakes, tryFails, LockReturns, Goto, At, schedVars,
              lockVars, SchedTypeOK
<1>2. CASE LoopTry(t)
  BY <1>2 DEF LoopTry, tryTakes, tryFails, LockReturns, Goto, At, schedVars,
              lockVars, SchedTypeOK
<1>3. CASE CheckLimit(t)
  BY <1>3 DEF CheckLimit, LockReturns, Goto, At, schedVars, lockVars, SchedTypeOK
<1>4. CASE CheckWaiter(t)
  BY <1>4 DEF CheckWaiter, Goto, At, schedVars, lockVars, SchedTypeOK
<1>5. CASE Enroll(t)
  <2>1. SchedTypeOK'
    BY <1>5, SetFlagsKeepsTypes DEF Enroll, ThreadStates
  <2> QED BY <1>5, <2>1 DEF Enroll, Goto, At
<1>6. CASE YieldInLock(t)
  <2>1. SchedTypeOK'
    BY <1>6, YieldKeepsTypes DEF YieldInLock
  <2> QED BY <1>6, <2>1 DEF YieldInLock, Goto, At, lockVars
<1> QED BY <1>1, <1>2, <1>3, <1>4, <1>5, <1>6 DEF LockStep

\* try_lock, unlock, the scopes, kill and yield keep the types.
LEMMA OtherStepTypes ==
    ASSUME TypeOK, TimeInv, NEW t \in Slots,
           \/ \E ms \in TIMEOUTS : LockCalled(t, ms)
           \/ TryLock(t) \/ Unlock(t) \/ IdleYield(t)
           \/ OpenScope(t) \/ CloseScope(t)
           \/ \E i \in Slots : Kill(t, i)
    PROVE  TypeOK' /\ TimeInv'
<1> USE MutexConstants DEF TypeOK, TimeInv, InLock, Places
<1>1. ASSUME NEW ms \in TIMEOUTS, LockCalled(t, ms) PROVE TypeOK' /\ TimeInv'
  BY <1>1 DEF LockCalled, Goto, At, schedVars, lockVars, SchedTypeOK
<1>2. CASE TryLock(t)
  BY <1>2 DEF TryLock, tryTakes, Goto, At, schedVars, SchedTypeOK
<1>3. CASE UnlockWakes(t)
  <2>1. waitthread \in Slots
    BY <1>3 DEF UnlockWakes
  <2>2. flags' \in [Slots -> ThreadStates]
    BY <1>3, <2>1 DEF UnlockWakes, SchedTypeOK, ThreadStates
  <2>3. current_thread' \in Slots /\ currentCount' \in 0..DEFAULT_TICKS
    BY <1>3, NextThreadIsSlot, ThreadConstants
       DEF UnlockWakes, getNextThread, SchedTypeOK
  <2>4. SchedTypeOK'
    BY <1>3, <2>2, <2>3 DEF UnlockWakes, SchedTypeOK, SystemStates
  <2> QED BY <1>3, <2>4 DEF UnlockWakes, Goto, At
<1>4. CASE UnlockPlain(t)
  BY <1>4 DEF UnlockPlain, Goto, At, schedVars, SchedTypeOK
<1>5. CASE IdleYield(t)
  <2>1. SchedTypeOK'
    BY <1>5, YieldKeepsTypes DEF IdleYield
  <2> QED BY <1>5, <2>1 DEF IdleYield, lockVars, threadVars
<1>6. CASE OpenScope(t)
  <2>1. SchedTypeOK' /\ saved' \in [Slots -> SystemStates \union {NoScope}]
    BY <1>6 DEF OpenScope, SchedTypeOK, SystemStates
  <2> QED BY <1>6, <2>1 DEF OpenScope, lockVars
<1>7. CASE CloseScope(t)
  <2>1. SchedTypeOK' /\ saved' \in [Slots -> SystemStates \union {NoScope}]
    BY <1>7 DEF CloseScope, SchedTypeOK
  <2> QED BY <1>7, <2>1 DEF CloseScope, lockVars
<1>8. ASSUME NEW i \in Slots, Kill(t, i) PROVE TypeOK' /\ TimeInv'
  <2>1. SchedTypeOK'
    BY <1>8, SetFlagsKeepsTypes DEF Kill, ThreadStates
  <2> QED BY <1>8, <2>1 DEF Kill, lockVars, threadVars
<1> QED BY <1>1, <1>2, <1>3, <1>4, <1>5, <1>6, <1>7, <1>8 DEF Unlock

\* The timer and the clock keep the types.
LEMMA ClockStepTypes ==
    ASSUME TypeOK, TimeInv, Tick \/ Millis PROVE TypeOK' /\ TimeInv'
<1>1. CASE Tick
  <2>1. SchedTypeOK'
    BY <1>1, TickKeepsTypes DEF Tick, TypeOK
  <2> QED BY <1>1, <2>1 DEF Tick, TypeOK, TimeInv, lockVars, threadVars
<1>2. CASE Millis
  <2>1. ASSUME NEW t \in Slots
        PROVE  /\ elapsed'[t] \in Nat
               /\ elapsed'[t] <= limit[t] + 1
               /\ pc[t] \notin InLock \ {"first"} => elapsed'[t] = elapsed[t]
    <3>1. limit[t] \in Nat /\ elapsed[t] \in Nat /\ elapsed[t] <= limit[t] + 1
      <4>1. limit[t] \in TIMEOUTS \union {0}
        BY DEF TypeOK
      <4>2. limit[t] \in Nat
        BY <4>1, TimeoutFacts
      <4>3. elapsed[t] \in Nat /\ elapsed[t] <= limit[t] + 1
        BY DEF TypeOK
      <4> QED BY <4>2, <4>3
    <3> QED BY <1>2, <3>1 DEF Millis
  <2>2. elapsed' \in [Slots -> Nat]
    BY <1>2, <2>1 DEF Millis
  <2> QED BY <1>2, <2>1, <2>2 DEF Millis, TypeOK, TimeInv, SchedTypeOK, schedVars, lockVars
<1> QED BY <1>1, <1>2

\* Every step keeps the types.
LEMMA TypeStep == TypeOK /\ TimeInv /\ [Next]_vars => TypeOK' /\ TimeInv'
<1> SUFFICES ASSUME TypeOK, TimeInv, [Next]_vars PROVE TypeOK' /\ TimeInv'
  OBVIOUS
<1>1. CASE Next
  BY <1>1, LockStepTypes, OtherStepTypes, ClockStepTypes DEF Next
<1>2. CASE UNCHANGED vars
  BY <1>2 DEF vars, schedVars, lockVars, threadVars, TypeOK, SchedTypeOK, TimeInv
<1> QED BY <1>1, <1>2

-----------------------------------------------------------------------------
(***************************************************************************)
(* The lock.  A step takes the free mutex, gives it back, or leaves the    *)
(* lock word and the critical sections alone.                              *)
(***************************************************************************)
Takes(t) ==
    /\ state = 0 /\ state' = 1
    /\ pc' = [pc EXCEPT ![t] = "held"]

Gives(t) ==
    /\ pc[t] = "held"
    /\ state = 1 /\ state' = 0
    /\ pc' = [pc EXCEPT ![t] = "idle"]

LeavesLock ==
    /\ state' = state
    /\ \A t \in Slots : pc'[t] = "held" <=> pc[t] = "held"

\* Every step takes the mutex for one thread, releases it by its holder, or
\* moves no thread into or out of the critical section.
LEMMA StepKinds ==
    ASSUME TypeOK, [Next]_vars
    PROVE  \/ \E t \in Slots : Takes(t) \/ Gives(t)
           \/ LeavesLock
<1>1. CASE Tick \/ Millis
  BY <1>1 DEF Tick, Millis, LeavesLock, lockVars, threadVars
<1>2. ASSUME NEW t \in Slots, LockStep(t) PROVE Takes(t) \/ LeavesLock
  BY <1>2 DEF LockStep, FirstTry, LoopTry, CheckLimit, CheckWaiter, Enroll,
              YieldInLock, tryTakes, tryFails, LockReturns, Goto, At, lockVars,
              Takes, LeavesLock, TypeOK
<1>3. ASSUME NEW t \in Slots, TryLock(t) PROVE Takes(t)
  BY <1>3 DEF TryLock, tryTakes, Goto, Takes
<1>4. ASSUME NEW t \in Slots, Unlock(t) PROVE Gives(t)
  BY <1>4 DEF Unlock, UnlockWakes, UnlockPlain, Goto, At, Gives
<1>5. ASSUME NEW t \in Slots,
             \/ \E ms \in TIMEOUTS : LockCalled(t, ms)
             \/ IdleYield(t) \/ OpenScope(t) \/ CloseScope(t)
             \/ \E i \in Slots : Kill(t, i)
      PROVE  LeavesLock
  BY <1>5 DEF LockCalled, IdleYield, OpenScope, CloseScope, Kill, Goto, At,
              lockVars, threadVars, LeavesLock, TypeOK
<1>6. CASE UNCHANGED vars
  BY <1>6 DEF vars, lockVars, threadVars, LeavesLock
<1> QED BY <1>1, <1>2, <1>3, <1>4, <1>5, <1>6 DEF Next

\* The lock word keeps telling whether the mutex is held.
LEMMA LockStepInv == TypeOK /\ LockInv /\ [Next]_vars => LockInv'
<1> SUFFICES ASSUME TypeOK, LockInv, [Next]_vars PROVE LockInv'
  OBVIOUS
<1>1. ASSUME NEW t \in Slots, Takes(t) PROVE LockInv'
  BY <1>1 DEF Takes, LockInv, TypeOK
<1>2. ASSUME NEW t \in Slots, Gives(t) PROVE LockInv'
  BY <1>2 DEF Gives, LockInv, TypeOK
<1>3. CASE LeavesLock
  BY <1>3 DEF LeavesLock, LockInv
<1> QED BY <1>1, <1>2, <1>3, StepKinds

\* Every step keeps the invariant.
LEMMA InvStep == IInv /\ [Next]_vars => IInv'
BY TypeStep, LockStepInv DEF IInv

-----------------------------------------------------------------------------
\* IInv is an invariant of every behaviour of the mutex's clients.
THEOREM Invariant == Spec => []IInv
BY InitInv, InvStep, PTL DEF Spec

\* The scheduler's and the mutex's variables keep their types: the scan never
\* leaves the table, the lock word is 0 or 1, and the clock of a lock() with a
\* limit stops one millisecond past it.
THEOREM TypeCorrect == Spec => []TypeOK
<1>1. IInv => TypeOK
  BY DEF IInv
<1> QED BY <1>1, Invariant, PTL

\* lock(), try_lock() and unlock() never let two threads into the critical
\* section, and the lock word is 1 exactly when one is in it.
THEOREM MutexIsExclusive == Spec => []MutualExclusion
<1>1. IInv => MutualExclusion
  <2> SUFFICES ASSUME IInv PROVE Cardinality(Holders) = state
    BY DEF MutualExclusion
  <2>1. CASE state = 0
    <3>1. Holders = {}
      BY <2>1 DEF Holders, IInv, LockInv
    <3> QED BY <2>1, <3>1, FS_EmptySet
  <2>2. CASE state = 1
    <3>1. PICK t \in Slots : pc[t] = "held"
      BY <2>2 DEF IInv, LockInv
    <3>2. Holders = {t}
      BY <3>1 DEF Holders, IInv, LockInv
    <3> QED BY <2>2, <3>2, FS_Singleton
  <2> QED BY <2>1, <2>2 DEF IInv, TypeOK
<1> QED BY <1>1, Invariant, PTL

-----------------------------------------------------------------------------
(***************************************************************************)
(* Refinement of AbstractLock.                                             *)
(***************************************************************************)

\* What the mapping of owner says in a state of the invariant.
OwnerInv ==
    /\ \A t \in Slots : pc[t] = "held" => owner = t
    /\ Holders = {} => owner = NoOwner

\* The owner that callers see is the one thread in the critical section.
LEMMA OwnerFacts == IInv => OwnerInv
<1> SUFFICES ASSUME IInv PROVE OwnerInv
  OBVIOUS
<1>1. ASSUME NEW t \in Slots, pc[t] = "held" PROVE owner = t
  <2>1. Holders = {t}
    BY <1>1 DEF Holders, IInv, LockInv
  <2> QED BY <2>1 DEF owner
<1>2. Holders = {} => owner = NoOwner
  BY DEF owner
<1> QED BY <1>1, <1>2 DEF OwnerInv

\* Every step is an acquisition, a release or a stutter of AbstractLock.
LEMMA StepRefines ==
    ASSUME IInv, IInv', OwnerInv, OwnerInv', [Next]_vars
    PROVE  [Abstract!Next]_owner
<1>1. ASSUME NEW t \in Slots, Takes(t) PROVE Abstract!Acquire(t)
  <2>1. Holders = {}
    BY <1>1 DEF Takes, Holders, IInv, LockInv
  <2>2. pc'[t] = "held"
    BY <1>1 DEF Takes, IInv, TypeOK
  <2> QED BY <2>1, <2>2 DEF OwnerInv, Abstract!Acquire
<1>2. ASSUME NEW t \in Slots, Gives(t) PROVE Abstract!Release(t)
  <2>1. owner = t
    BY <1>2 DEF Gives, OwnerInv
  <2>2. Holders' = {}
    BY <1>2 DEF Gives, Holders, IInv, LockInv
  <2> QED BY <2>1, <2>2 DEF OwnerInv, Abstract!Release
<1>3. CASE LeavesLock
  <2>1. Holders' = Holders
    BY <1>3 DEF LeavesLock, Holders
  <2> QED BY <2>1 DEF owner
<1> QED BY <1>1, <1>2, <1>3, StepKinds DEF IInv, Abstract!Next

\* To its callers the mutex is an abstract lock: it passes from one owner to
\* another only through the owner's unlock(), whoever is suspended, restarted,
\* killed or timed out meanwhile.
THEOREM MutexImplementsLock == Spec => ImplementsLock
<1>1. Init => Abstract!Init
  BY DEF Init, Abstract!Init, owner, Holders
<1>2. IInv /\ IInv' /\ [Next]_vars => [Abstract!Next]_owner
  <2>1. IInv' => OwnerInv'
    BY OwnerFacts, PTL
  <2> QED BY <2>1, OwnerFacts, StepRefines
<1> QED BY <1>1, <1>2, Invariant, PTL DEF Spec, ImplementsLock, Abstract!Spec

-----------------------------------------------------------------------------
(***************************************************************************)
(* Waiting.  A thread other than thread 0 that is suspended or killed has  *)
(* the core only between Enroll and the yield that follows it; a thread in *)
(* lock() has no scope open, so that yield does give the core away.        *)
(***************************************************************************)
CoreInv ==
    current_thread # 0 /\ flags[current_thread] # RUNNING => pc[current_thread] = "yield"

ScopeInv ==
    /\ currentActive # STARTED => saved[current_thread] # NoScope
    /\ \A t \in Slots : saved[t] # NoScope => saved[t] = STARTED /\ pc[t] \notin InLock

WaitInv == CoreInv /\ ScopeInv /\ WaiterIsWaiting /\ OutOfLockRuns

\* Whoever gets the core from the scheduler is thread 0 or RUNNING.
LEMMA DispatchKeepsCore ==
    ASSUME TypeOK, flags' \in [Slots -> ThreadStates], getNextThread(flags') PROVE CoreInv'
<1>1. current_thread \in Slots
  BY DEF TypeOK, SchedTypeOK
<1>2. current_thread' # 0 => flags'[current_thread'] = RUNNING
  BY <1>1, DispatchedRuns DEF getNextThread
<1> QED BY <1>2 DEF CoreInv

\* The thread that has the core and is not yielding in lock() is RUNNING.
LEMMA RunsAtItsPlace ==
    ASSUME CoreInv, NEW t \in Slots \ {0}, current_thread = t, pc[t] # "yield"
    PROVE  flags[t] = RUNNING
BY DEF CoreInv

\* A step by which the running thread moves between places of lock(), "idle" and
\* "held", while flags, waiter and scheduler stay.
LEMMA MoveKeepsWait ==
    ASSUME TypeOK, WaitInv, NEW t \in Slots, current_thread = t,
           pc[t] # "yield", NEW place \in Places, saved[t] = NoScope,
           Goto(t, place), UNCHANGED <<schedVars, waitthread, saved>>
    PROVE  WaitInv'
<1>1. CoreInv'
  BY SlotFacts DEF WaitInv, CoreInv, TypeOK, Goto, schedVars
<1>2. ScopeInv'
  BY DEF WaitInv, ScopeInv, TypeOK, Goto, schedVars
<1>3. WaiterIsWaiting'
  BY RunsAtItsPlace DEF WaitInv, WaiterIsWaiting, TypeOK, Goto, schedVars,
                        RUNNING, SUSPENDED, ENDED
<1>4. OutOfLockRuns'
  BY RunsAtItsPlace DEF WaitInv, OutOfLockRuns, TypeOK, Goto, schedVars
<1> QED BY <1>1, <1>2, <1>3, <1>4 DEF WaitInv

\* The steps of lock() keep the waiter waiting.
LEMMA LockStepWait ==
    ASSUME TypeOK, WaitInv, NEW t \in Slots, LockStep(t) PROVE WaitInv'
<1>1. current_thread = t /\ pc[t] \in InLock /\ saved[t] = NoScope
  BY DEF LockStep, FirstTry, LoopTry, CheckLimit, CheckWaiter, Enroll, YieldInLock,
         At, InLock, WaitInv, ScopeInv
<1>2. CASE FirstTry(t) \/ LoopTry(t) \/ CheckLimit(t) \/ CheckWaiter(t)
  <2>1. UNCHANGED <<schedVars, waitthread, saved>> /\ pc[t] # "yield"
    BY <1>2 DEF FirstTry, LoopTry, CheckLimit, CheckWaiter, tryTakes, tryFails,
                LockReturns, At, lockVars
  <2>2. PICK place \in Places : Goto(t, place)
    BY <1>2 DEF FirstTry, LoopTry, CheckLimit, CheckWaiter, LockReturns, Places, InLock
  <2> QED BY <1>1, <2>1, <2>2, MoveKeepsWait
<1>3. CASE Enroll(t)
  <2>1. /\ pc' = [pc EXCEPT ![t] = "yield"] /\ flags' = [flags EXCEPT ![t] = SUSPENDED]
        /\ waitthread' = t /\ UNCHANGED <<current_thread, currentActive, saved>>
    BY <1>3 DEF Enroll, Goto, setFlags
  <2>2. CoreInv' /\ WaiterIsWaiting'
    BY <1>1, <2>1 DEF CoreInv, WaiterIsWaiting, TypeOK, SchedTypeOK
  <2>3. ScopeInv' /\ OutOfLockRuns'
    BY <1>1, <2>1 DEF WaitInv, ScopeInv, OutOfLockRuns, InLock, TypeOK, SchedTypeOK
  <2> QED BY <2>2, <2>3 DEF WaitInv
<1>4. CASE YieldInLock(t)
  <2>1. getNextThread(flags') /\ flags' \in [Slots -> ThreadStates]
    BY <1>1, <1>4 DEF YieldInLock, yieldCore, WaitInv, ScopeInv, TypeOK, SchedTypeOK
  <2>2. CoreInv'
    BY <2>1, DispatchKeepsCore
  <2>3. ScopeInv' /\ WaiterIsWaiting' /\ OutOfLockRuns'
    BY <1>1, <1>4 DEF YieldInLock, Goto, WaitInv, ScopeInv, WaiterIsWaiting,
                      OutOfLockRuns, InLock, TypeOK, lockVars
  <2> QED BY <2>2, <2>3 DEF WaitInv
<1> QED BY <1>2, <1>3, <1>4 DEF LockStep

\* So do try_lock, unlock, the scopes, kill and yield.
LEMMA OtherStepWait ==
    ASSUME TypeOK, WaitInv, NEW t \in Slots,
           \/ \E ms \in TIMEOUTS : LockCalled(t, ms)
           \/ TryLock(t) \/ Unlock(t) \/ IdleYield(t)
           \/ OpenScope(t) \/ CloseScope(t)
           \/ \E i \in Slots : Kill(t, i)
    PROVE  WaitInv'
<1> USE DEF WaitInv, InLock
<1>1. CASE (\E ms \in TIMEOUTS : LockCalled(t, ms)) \/ TryLock(t)
  <2>1. PICK place \in Places : Goto(t, place)
    BY <1>1 DEF LockCalled, TryLock, Places
  <2>2. /\ current_thread = t /\ pc[t] # "yield" /\ saved[t] = NoScope
        /\ UNCHANGED <<schedVars, waitthread, saved>>
    BY <1>1 DEF LockCalled, TryLock, tryTakes, At, lockVars
  <2> QED BY <2>1, <2>2, MoveKeepsWait
<1>2. CASE UnlockWakes(t)
  <2>1. waitthread \in Slots /\ pc[t] = "held" /\ current_thread = t
    BY <1>2 DEF UnlockWakes, At, TypeOK
  <2>2. flags' \in [Slots -> ThreadStates]
    BY <1>2, <2>1 DEF UnlockWakes, TypeOK, SchedTypeOK, ThreadStates
  <2>3. CoreInv'
    BY <1>2, <2>2, DispatchKeepsCore DEF UnlockWakes
  <2>4. ScopeInv' /\ WaiterIsWaiting'
    BY <1>2, <2>1 DEF UnlockWakes, Goto, ScopeInv, WaiterIsWaiting, TypeOK
  <2>5. t # 0 => flags[t] = RUNNING
    BY <2>1, RunsAtItsPlace
  <2>6. OutOfLockRuns'
    BY <1>2, <2>1, <2>5 DEF UnlockWakes, Goto, OutOfLockRuns, TypeOK, SchedTypeOK
  <2> QED BY <2>3, <2>4, <2>6
<1>3. CASE UnlockPlain(t)
  <2>1. waitthread' = NoWaiter /\ UNCHANGED <<schedVars, saved>>
    BY <1>3 DEF UnlockPlain
  <2>2. pc' = [pc EXCEPT ![t] = "idle"] /\ pc[t] = "held" /\ current_thread = t
    BY <1>3 DEF UnlockPlain, At, Goto
  <2>3. CoreInv' /\ OutOfLockRuns'
    BY <2>1, <2>2 DEF CoreInv, OutOfLockRuns, TypeOK, schedVars
  <2>4. ScopeInv' /\ WaiterIsWaiting'
    BY <2>1, <2>2 DEF ScopeInv, WaiterIsWaiting, TypeOK, schedVars
  <2> QED BY <2>3, <2>4
<1>4. CASE IdleYield(t)
  <2>1. UNCHANGED <<currentActive, flags, waitthread, pc, saved>>
    BY <1>4 DEF IdleYield, lockVars, threadVars
  <2>2. flags' \in [Slots -> ThreadStates]
    BY <2>1 DEF TypeOK, SchedTypeOK
  <2>3. CoreInv' /\ ScopeInv'
    <3>1. CASE currentActive = STARTED
      <4>1. getNextThread(flags')
        BY <1>4, <2>1, <3>1 DEF IdleYield, yieldCore
      <4> QED BY <2>1, <2>2, <3>1, <4>1, DispatchKeepsCore DEF ScopeInv
    <3>2. CASE currentActive # STARTED
      <4>1. current_thread' = current_thread
        BY <1>4, <3>2 DEF IdleYield, yieldCore
      <4> QED BY <2>1, <4>1 DEF CoreInv, ScopeInv
    <3> QED BY <3>1, <3>2
  <2> QED BY <2>1, <2>3 DEF WaiterIsWaiting, OutOfLockRuns
<1>5. CASE OpenScope(t) \/ CloseScope(t)
  <2>1. UNCHANGED <<current_thread, flags, waitthread, pc>>
    BY <1>5 DEF OpenScope, CloseScope, lockVars
  <2>2. ScopeInv'
    <3>1. CASE OpenScope(t)
      BY <2>1, <3>1 DEF OpenScope, At, ScopeInv, TypeOK, STARTED, NoScope
    <3>2. CASE CloseScope(t)
      BY <2>1, <3>2 DEF CloseScope, ScopeInv, TypeOK
    <3> QED BY <1>5, <3>1, <3>2
  <2> QED BY <2>1, <2>2 DEF CoreInv, WaiterIsWaiting, OutOfLockRuns
<1>6. ASSUME NEW i \in Slots, Kill(t, i) PROVE WaitInv'
  <2>1. /\ flags' = [flags EXCEPT ![i] = ENDED] /\ i # t /\ current_thread = t
        /\ pc[i] \in InLock
        /\ UNCHANGED <<current_thread, currentActive, waitthread, pc, saved>>
    BY <1>6 DEF Kill, At, setFlags, lockVars, threadVars
  <2>2. CoreInv' /\ ScopeInv'
    BY <2>1 DEF CoreInv, ScopeInv, TypeOK, SchedTypeOK
  <2>3. WaiterIsWaiting' /\ OutOfLockRuns'
    BY <2>1 DEF WaiterIsWaiting, OutOfLockRuns, TypeOK, SchedTypeOK
  <2> QED BY <2>2, <2>3
<1> QED BY <1>1, <1>2, <1>3, <1>4, <1>5, <1>6 DEF Unlock

\* Every step keeps the waiter waiting.
LEMMA WaitStep == TypeOK /\ WaitInv /\ [Next]_vars => WaitInv'
<1> SUFFICES ASSUME TypeOK, WaitInv, [Next]_vars PROVE WaitInv'
  OBVIOUS
<1>1. CASE Tick
  <2>1. UNCHANGED <<currentActive, flags, waitthread, pc, saved>>
    BY <1>1 DEF Tick, TickCountsDown, TickSwitches, lockVars, threadVars
  <2>2. flags' \in [Slots -> ThreadStates]
    BY <2>1 DEF TypeOK, SchedTypeOK
  <2>3. CoreInv' /\ ScopeInv'
    <3>1. CASE TickSwitches
      BY <2>1, <2>2, <3>1, DispatchKeepsCore DEF TickSwitches, WaitInv, ScopeInv
    <3>2. CASE TickCountsDown
      BY <2>1, <3>2 DEF TickCountsDown, WaitInv, CoreInv, ScopeInv
    <3> QED BY <1>1, <3>1, <3>2 DEF Tick
  <2> QED BY <2>1, <2>3 DEF WaitInv, WaiterIsWaiting, OutOfLockRuns
<1>2. CASE Millis \/ UNCHANGED vars
  BY <1>2 DEF Millis, vars, schedVars, lockVars, threadVars, WaitInv, CoreInv, ScopeInv,
              WaiterIsWaiting, OutOfLockRuns
<1> QED BY <1>1, <1>2, LockStepWait, OtherStepWait DEF Next

\* The invariant of the waiting threads holds in every behaviour.
THEOREM Waiting == Spec => []WaitInv
<1>1. Init => WaitInv
  <2>1. Init => CoreInv /\ ScopeInv
    BY SlotFacts DEF Init, CoreInv, ScopeInv
  <2>2. Init => WaiterIsWaiting /\ OutOfLockRuns
    BY DEF Init, WaiterIsWaiting, OutOfLockRuns
  <2> QED BY <2>1, <2>2 DEF WaitInv
<1>2. IInv => TypeOK
  BY DEF IInv
<1> QED BY <1>1, <1>2, WaitStep, Invariant, PTL DEF Spec

\* unlock() restarts only a thread that is stopped inside lock(), never one that
\* took the mutex, gave up or went on to something else; killed waiters and
\* Suspend scopes included.
THEOREM RestartsOnlyWaiters == Spec => []WaiterIsWaiting
<1>1. WaitInv => WaiterIsWaiting
  BY DEF WaitInv
<1> QED BY <1>1, Waiting, PTL

\* No thread comes out of lock() suspended, with the mutex or without it.
THEOREM LeavesLockRunning == Spec => []OutOfLockRuns
<1>1. WaitInv => OutOfLockRuns
  BY DEF WaitInv
<1> QED BY <1>1, Waiting, PTL

=============================================================================
