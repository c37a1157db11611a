---------------------------- MODULE ThreadScheduler ----------------------------
(***************************************************************************)
(* The scheduler of TeensyThreads: the globals that context_switch and the *)
(* Threads class share, and the operations on them that every other part   *)
(* of the library and of the firmware is built from.  One core runs one    *)
(* thread at a time, so a module that extends this one guards each step of *)
(* thread t with current_thread = t; another thread runs only after        *)
(* getNextThread has dispatched it.                                        *)
(***************************************************************************)
EXTENDS Integers, FiniteSets, FiniteSetsExt

CONSTANTS
    MAX_THREADS,    \* number of slots of threadp, thread 0 included
    DEFAULT_TICKS   \* ticks a thread keeps the core before it is preempted

ASSUME ThreadConstants ==
    /\ MAX_THREADS \in Nat /\ MAX_THREADS > 1
    /\ DEFAULT_TICKS \in Nat

VARIABLES
    currentActive,   \* state of the threading system
    current_thread,  \* slot of the thread that owns the core
    currentCount,    \* ticks left to the running thread
    flags,           \* threadp[i]->flags
    thread_count     \* threads added and not returned from

schedVars == <<currentActive, current_thread, currentCount, flags, thread_count>>

Slots == 0..(MAX_THREADS - 1)

\* State of the threading system.  Threads::Suspend writes a plain 0.
STARTED   == "STARTED"
STOPPED   == "STOPPED"
FIRST_RUN == "FIRST_RUN"
ZERO      == "ZERO"
SystemStates == {STARTED, STOPPED, FIRST_RUN, ZERO}

\* State of a thread.  ENDING is declared by the library and never assigned;
\* a slot whose ThreadInfo was not allocated yet counts as EMPTY.
EMPTY     == "EMPTY"
RUNNING   == "RUNNING"
ENDED     == "ENDED"
SUSPENDED == "SUSPENDED"
ThreadStates == {EMPTY, RUNNING, ENDED, SUSPENDED}

SchedTypeOK ==
    /\ currentActive \in SystemStates
    /\ current_thread \in Slots
    /\ currentCount \in 0..DEFAULT_TICKS
    /\ flags \in [Slots -> ThreadStates]
    /\ thread_count \in Int

\* The constructor: only thread 0 exists and switching has not begun.
SchedInit ==
    /\ currentActive = FIRST_RUN
    /\ current_thread = 0
    /\ currentCount = DEFAULT_TICKS
    /\ flags = [i \in Slots |-> IF i = 0 THEN RUNNING ELSE EMPTY]
    /\ thread_count = 0

-----------------------------------------------------------------------------
(***************************************************************************)
(* Context switch.                                                         *)
(***************************************************************************)

\* Slips of the scan that the properties must notice: suspended threads are
\* taken for runnable ones; the index runs past the table; the scan starts over
\* from slot 1 every time; thread 0 is dispatched only if it is RUNNING.
RunnableAfter_Suspended(i, fl) == {j \in Slots : j > i /\ fl[j] \in {RUNNING, SUSPENDED}}

RunnableAfter(i, fl) == {j \in Slots : j > i /\ fl[j] = RUNNING}

NextThread_Overrun(i, fl) ==
    IF RunnableAfter(i, fl) = {} THEN MAX_THREADS ELSE Min(RunnableAfter(i, fl))
NextThread_FromStart(i, fl) ==
    IF RunnableAfter(0, fl) = {} THEN 0 ELSE Min(RunnableAfter(0, fl))
NextThread_ZeroIfRunning(i, fl) ==
    LET all == {j \in Slots : fl[j] = RUNNING} IN
    IF RunnableAfter(i, fl) # {} THEN Min(RunnableAfter(i, fl))
    ELSE IF all # {} THEN Min(all) ELSE i

\* The round robin wraps to thread 0, which is dispatched whatever its flags.
NextThread(i, fl) ==
    IF RunnableAfter(i, fl) = {} THEN 0 ELSE Min(RunnableAfter(i, fl))

\* The running thread hands the core over, the thread states being fl.
getNextThread(fl) ==
    /\ current_thread' = NextThread(current_thread, fl)
    /\ currentCount' = DEFAULT_TICKS

\* context_switch, entered from the timer interrupt every millisecond.  A tick
\* of a stopped system with no ticks left changes nothing.
TickCountsDown ==
    /\ currentCount > 0
    /\ currentCount' = currentCount - 1
    /\ UNCHANGED <<currentActive, current_thread, flags, thread_count>>

TickSwitches ==
    /\ currentCount = 0
    /\ currentActive = STARTED
    /\ getNextThread(flags)
    /\ UNCHANGED <<currentActive, flags, thread_count>>

\* context_switch_direct, entered by yield(): it skips the tick count but not
\* the check of currentActive, so in a stopped system it returns at once.
yieldCore ==
    IF currentActive = STARTED
    THEN getNextThread(flags)
    ELSE UNCHANGED <<current_thread, currentCount>>

-----------------------------------------------------------------------------
(***************************************************************************)
(* Thread creation and end.  Between stop() and the matching start() no    *)
(* other thread can run, so each of these is one step.                     *)
(***************************************************************************)

FreeSlots == {i \in Slots \ {0} : flags[i] \in {EMPTY, ENDED}}

\* Slips: start() after every addThread; no start() when no slot is free.
ActiveAfterAdd_Always(old) == STARTED
ActiveAfterFailedAdd_Never(old) == STOPPED

\* What addThread leaves in currentActive on each of its two exits.
ActiveAfterAdd(old) == IF old \in {STARTED, FIRST_RUN} THEN STARTED ELSE old
ActiveAfterFailedAdd(old) == IF old = STARTED THEN STARTED ELSE STOPPED

\* addThread when slot i is the first free one.
addThreadIn(i) ==
    /\ FreeSlots # {}
    /\ i = Min(FreeSlots)
    /\ flags' = [flags EXCEPT ![i] = RUNNING]
    /\ thread_count' = thread_count + 1
    /\ currentActive' = ActiveAfterAdd(currentActive)
    /\ UNCHANGED <<current_thread, currentCount>>

addThreadFails ==
    /\ FreeSlots = {}
    /\ currentActive' = ActiveAfterFailedAdd(currentActive)
    /\ UNCHANGED <<current_thread, currentCount, flags, thread_count>>

\* del_process, where a thread function returns to.
delProcess(t) ==
    /\ flags' = [flags EXCEPT ![t] = ENDED]
    /\ thread_count' = thread_count - 1
    /\ UNCHANGED <<currentActive, current_thread, currentCount>>

\* kill, suspend, restart and setState write the flags and nothing else.
setFlags(i, state) ==
    /\ flags' = [flags EXCEPT ![i] = state]
    /\ UNCHANGED <<currentActive, current_thread, currentCount, thread_count>>

=============================================================================
