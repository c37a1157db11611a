--------------------------------- MODULE Mutex ---------------------------------
(***************************************************************************)
(* Threads::Mutex on top of the scheduler.  Every thread repeats lock(ms)  *)
(* or try_lock(), its critical section and unlock(); the timer preempts it *)
(* between any two steps.  What the code does between threads.stop() and   *)
(* threads.start(p) is one step, because no other thread can run there;    *)
(* the test of waitthread in lock() is outside such a region and is a step *)
(* of its own.                                                             *)
(***************************************************************************)
EXTENDS ThreadScheduler

CONSTANTS
    TIMEOUTS,  \* values of timeout_ms that callers pass to lock, 0 for no limit
    KILLS,     \* whether threads kill threads that are waiting for the mutex
    SCOPES     \* whether threads open a Suspend scope around unlock()

ASSUME MutexConstants ==
    /\ TIMEOUTS \subseteq Nat /\ TIMEOUTS # {} /\ IsFiniteSet(TIMEOUTS)
    /\ KILLS \in BOOLEAN /\ SCOPES \in BOOLEAN

VARIABLES
    state,       \* 1 when locked
    waitthread,  \* the suspended thread that unlock will restart, -1 for none
    pc,          \* where each thread is
    limit,       \* timeout_ms of its lock()
    elapsed,     \* systick_millis_count - start, up to limit + 1
    saved        \* save_state of its Suspend scope, NoScope when it has none

NoWaiter == -1
NoScope == "none"

lockVars == <<state, waitthread>>
threadVars == <<pc, limit, elapsed, saved>>
vars == <<schedVars, lockVars, threadVars>>

\* Steps of lock(), in the order of the code; "held" is the critical section.
InLock == {"first", "try", "limit", "check", "enroll", "yield"}
Places == InLock \union {"idle", "held"}

TypeOK ==
    /\ SchedTypeOK
    /\ state \in {0, 1}
    /\ waitthread \in Slots \union {NoWaiter}
    /\ pc \in [Slots -> Places]
    /\ limit \in [Slots -> TIMEOUTS \union {0}]
    /\ elapsed \in [Slots -> Nat]
    /\ \A t \in Slots : elapsed[t] <= limit[t] + 1
    /\ saved \in [Slots -> SystemStates \union {NoScope}]

\* All threads have been added and thread 0 still has the core.
Init ==
    /\ currentActive = STARTED
    /\ current_thread = 0
    /\ currentCount = DEFAULT_TICKS
    /\ flags = [i \in Slots |-> RUNNING]
    /\ thread_count = MAX_THREADS - 1
    /\ state = 0
    /\ waitthread = NoWaiter
    /\ pc = [t \in Slots |-> "idle"]
    /\ limit = [t \in Slots |-> 0]
    /\ elapsed = [t \in Slots |-> 0]
    /\ saved = [t \in Slots |-> NoScope]

At(t, place) == current_thread = t /\ pc[t] = place
Goto(t, place) == pc' = [pc EXCEPT ![t] = place]

-----------------------------------------------------------------------------
(***************************************************************************)
(* lock                                                                    *)
(***************************************************************************)

LockCalled(t, ms) ==
    /\ At(t, "idle")
    /\ saved[t] = NoScope
    /\ Goto(t, "first")
    /\ limit' = [limit EXCEPT ![t] = ms]
    /\ UNCHANGED <<schedVars, lockVars, elapsed, saved>>

\* lock() returns, with the mutex (held) or without it (idle).
LockReturns(t, place) ==
    /\ Goto(t, place)
    /\ limit' = [limit EXCEPT ![t] = 0]
    /\ elapsed' = [elapsed EXCEPT ![t] = 0]
    /\ UNCHANGED saved

\* Slips: the test is left out; the lock word counts up.
tryTakes_Blind == state' = 1 /\ UNCHANGED <<schedVars, waitthread>>
tryTakes_Counts == state' = state + 1 /\ UNCHANGED <<schedVars, waitthread>>

tryTakes == state = 0 /\ state' = 1 /\ UNCHANGED <<schedVars, waitthread>>
tryFails == state # 0 /\ UNCHANGED <<schedVars, lockVars>>

\* try_lock before the loop; when it fails the start time is read.
FirstTry(t) ==
    /\ At(t, "first")
    /\ \/ tryTakes /\ LockReturns(t, "held")
       \/ tryFails /\ Goto(t, "try") /\ UNCHANGED <<limit, elapsed, saved>>

\* Slip: the start time is read inside the loop.
LoopTry_Restarts(t) ==
    /\ At(t, "try")
    /\ \/ tryTakes /\ LockReturns(t, "held")
       \/ /\ tryFails /\ Goto(t, "limit")
          /\ elapsed' = [elapsed EXCEPT ![t] = 0]
          /\ UNCHANGED <<limit, saved>>

\* try_lock at the head of the loop.
LoopTry(t) ==
    /\ At(t, "try")
    /\ \/ tryTakes /\ LockReturns(t, "held")
       \/ tryFails /\ Goto(t, "limit") /\ UNCHANGED <<limit, elapsed, saved>>

TimedOut(t) == limit[t] # 0 /\ elapsed[t] > limit[t]

\* Slip: lock() reports success when it gives up.
CheckLimit_Locked(t) ==
    /\ At(t, "limit")
    /\ \/ TimedOut(t) /\ LockReturns(t, "held")
       \/ ~TimedOut(t) /\ Goto(t, "check") /\ UNCHANGED <<limit, elapsed, saved>>
    /\ UNCHANGED <<schedVars, lockVars>>

CheckLimit(t) ==
    /\ At(t, "limit")
    /\ \/ TimedOut(t) /\ LockReturns(t, "idle")
       \/ ~TimedOut(t) /\ Goto(t, "check") /\ UNCHANGED <<limit, elapsed, saved>>
    /\ UNCHANGED <<schedVars, lockVars>>

CheckWaiter(t) ==
    /\ At(t, "check")
    /\ Goto(t, IF waitthread = NoWaiter THEN "enroll" ELSE "yield")
    /\ UNCHANGED <<schedVars, lockVars, limit, elapsed, saved>>

\* Slip: the loop is repeated without giving the core away.
Enroll_NoYield(t) ==
    /\ At(t, "enroll")
    /\ waitthread' = t
    /\ setFlags(t, SUSPENDED)
    /\ Goto(t, "try")
    /\ UNCHANGED <<state, limit, elapsed, saved>>

Enroll(t) ==
    /\ At(t, "enroll")
    /\ waitthread' = t
    /\ setFlags(t, SUSPENDED)
    /\ Goto(t, "yield")
    /\ UNCHANGED <<state, limit, elapsed, saved>>

YieldInLock(t) ==
    /\ At(t, "yield")
    /\ yieldCore
    /\ Goto(t, "try")
    /\ UNCHANGED <<currentActive, flags, thread_count,
                   lockVars, limit, elapsed, saved>>

LockStep(t) ==
    \/ FirstTry(t) \/ LoopTry(t) \/ CheckLimit(t)
    \/ CheckWaiter(t) \/ Enroll(t) \/ YieldInLock(t)

-----------------------------------------------------------------------------
(***************************************************************************)
(* try_lock and unlock                                                     *)
(***************************************************************************)

TryLock(t) ==
    /\ At(t, "idle")
    /\ saved[t] = NoScope
    /\ tryTakes
    /\ Goto(t, "held")
    /\ UNCHANGED <<limit, elapsed, saved>>

\* Slip: waitthread is not reset.
UnlockWakes_Keeps(t) ==
    /\ At(t, "held")
    /\ state = 1 /\ waitthread # NoWaiter
    /\ state' = 0
    /\ flags' = [flags EXCEPT ![waitthread] = RUNNING]
    /\ currentActive' = STARTED
    /\ getNextThread(flags')
    /\ Goto(t, "idle")
    /\ UNCHANGED <<thread_count, waitthread, limit, elapsed, saved>>

\* With a waiter: restart it and yield_and_start, which sets the system to
\* STARTED whatever it was and gives the core to the next running thread.
UnlockWakes(t) ==
    /\ At(t, "held")
    /\ state = 1 /\ waitthread # NoWaiter
    /\ state' = 0
    /\ waitthread' = NoWaiter
    /\ flags' = [flags EXCEPT ![waitthread] = RUNNING]
    /\ currentActive' = STARTED
    /\ getNextThread(flags')
    /\ Goto(t, "idle")
    /\ UNCHANGED <<thread_count, limit, elapsed, saved>>

UnlockPlain(t) ==
    /\ At(t, "held")
    /\ state = 1 /\ waitthread = NoWaiter
    /\ state' = 0
    /\ Goto(t, "idle")
    /\ UNCHANGED <<schedVars, waitthread, limit, elapsed, saved>>

Unlock(t) == UnlockWakes(t) \/ UnlockPlain(t)

-----------------------------------------------------------------------------
(***************************************************************************)
(* Threads::Suspend, kill and time.                                        *)
(***************************************************************************)

OpenScope(t) ==
    /\ SCOPES
    /\ At(t, "held")
    /\ saved[t] = NoScope
    /\ saved' = [saved EXCEPT ![t] = currentActive]
    /\ currentActive' = ZERO
    /\ UNCHANGED <<current_thread, currentCount, flags, thread_count,
                   lockVars, pc, limit, elapsed>>

CloseScope(t) ==
    /\ current_thread = t
    /\ pc[t] \in {"idle", "held"}
    /\ saved[t] # NoScope
    /\ currentActive' = saved[t]
    /\ saved' = [saved EXCEPT ![t] = NoScope]
    /\ UNCHANGED <<current_thread, currentCount, flags, thread_count,
                   lockVars, pc, limit, elapsed>>

\* kill of another thread that is inside lock().
Kill(t, i) ==
    /\ KILLS
    /\ At(t, "idle") \/ At(t, "held")
    /\ i # t /\ i # 0
    /\ pc[i] \in InLock /\ flags[i] # ENDED
    /\ setFlags(i, ENDED)
    /\ UNCHANGED <<lockVars, threadVars>>

Tick == (TickCountsDown \/ TickSwitches) /\ UNCHANGED <<lockVars, threadVars>>

\* A thread between two locks gives the rest of its slice away.
IdleYield(t) ==
    /\ At(t, "idle")
    /\ yieldCore
    /\ UNCHANGED <<currentActive, flags, thread_count, lockVars, threadVars>>

\* A millisecond passes for every thread in the loop of a lock with a limit.
Millis ==
    /\ elapsed' = [t \in Slots |->
                     IF /\ pc[t] \in InLock \ {"first"}
                        /\ limit[t] # 0 /\ elapsed[t] <= limit[t]
                     THEN elapsed[t] + 1 ELSE elapsed[t]]
    /\ elapsed' # elapsed
    /\ UNCHANGED <<schedVars, lockVars, pc, limit, saved>>

-----------------------------------------------------------------------------
Next ==
    \/ Tick
    \/ Millis
    \/ \E t \in Slots :
        \/ \E ms \in TIMEOUTS : LockCalled(t, ms)
        \/ LockStep(t) \/ TryLock(t) \/ Unlock(t) \/ IdleYield(t)
        \/ OpenScope(t) \/ CloseScope(t)
        \/ \E i \in Slots : Kill(t, i)

Spec == Init /\ [][Next]_vars

\* The timer and the clock keep running, and a thread that has the core keeps
\* executing lock() and leaves its critical section and its scope in the end.
\* It has the core only now and then, hence strong fairness for its steps.
FairSpec ==
    /\ Spec
    /\ SF_vars(Tick) /\ WF_vars(Millis)
    /\ \A t \in Slots :
        SF_vars(LockStep(t)) /\ SF_vars(Unlock(t)) /\ SF_vars(CloseScope(t))

\* What thread 0 needs of it: the others may stop in lock() or keep the mutex, but
\* whoever has the core with a scope open closes it.
MainFairSpec ==
    /\ Spec
    /\ SF_vars(Tick) /\ WF_vars(Millis) /\ SF_vars(LockStep(0))
    /\ \A t \in Slots : WF_vars(CloseScope(t))

-----------------------------------------------------------------------------
(***************************************************************************)
(* Properties.                                                             *)
(***************************************************************************)

Holders == {t \in Slots : pc[t] = "held"}

\* The lock word counts the threads inside the critical section: never two,
\* and never a locked mutex that nobody holds and nobody will unlock.
MutualExclusion == Cardinality(Holders) = state

\* Callers see an abstract lock: a thread that returns from lock() or
\* try_lock() with the mutex is its owner until its own unlock().
NoOwner == NoWaiter
owner == IF Holders = {} THEN NoOwner ELSE CHOOSE t \in Holders : TRUE
Abstract == INSTANCE AbstractLock WITH Threads <- Slots
ImplementsLock == Abstract!Spec

\* The thread that unlock() would restart is stopped in lock() right now, by
\* itself or by a kill, so the restart never touches a thread that went on to
\* something else.  Thread 0 is the exception: it runs though suspended, so its
\* lock() can time out and leave it recorded.
WaiterIsWaiting ==
    waitthread \notin {NoWaiter, 0} =>
        /\ flags[waitthread] \in {SUSPENDED, ENDED}
        /\ pc[waitthread] \in {"yield", "try"}

\* A thread that came out of lock(), with or without the mutex, is not left
\* suspended: it would stop at its next tick and nobody would restart it.
\* Thread 0 is dispatched whatever its flags.
OutOfLockRuns ==
    \A t \in Slots \ {0} : pc[t] \in {"idle", "held"} => flags[t] = RUNNING

\* Thread 0 is never blocked for good on a mutex that is free: it takes it, or
\* another thread does.
MainTakesFreeMutex ==
    (pc[0] \in InLock /\ limit[0] = 0 /\ state = 0) ~> state = 1

\* A lock with a time limit returns in thread 0, suspended or not.
MainTimedLockReturns == (pc[0] \in InLock /\ limit[0] # 0) ~> pc[0] \notin InLock

\* readme.md: lock suspends the blocking thread until unlock.
SuspendedUntilUnlock ==
    \A t \in Slots : (flags[t] = SUSPENDED /\ state = 0) ~> flags[t] = RUNNING

=============================================================================
