-------------------------------- MODULE Threads --------------------------------
(***************************************************************************)
(* The Threads class as its callers see it: threads that add, kill,        *)
(* suspend, restart and wait for each other, that open Suspend scopes (or  *)
(* the stop()/start(p) pair, which behaves alike) and return, while the    *)
(* timer preempts them.  The callers are any code that uses the interface  *)
(* as the header and the readme describe it: they close the scopes they    *)
(* open, do not wait inside one, suspend running threads and restart       *)
(* suspended ones.                                                         *)
(***************************************************************************)
EXTENDS ThreadScheduler, Sequences

CONSTANTS
    MAX_NEST,      \* bound: scopes open at once in a thread
    MAX_COUNT,     \* bound: value of thread_count past which none is added
    TIMEOUTS       \* values of timeout_ms that callers pass to wait, 0 for no limit

ASSUME ClientConstants ==
    /\ MAX_NEST \in Nat /\ MAX_COUNT \in Nat
    /\ TIMEOUTS \subseteq Nat /\ TIMEOUTS # {} /\ IsFiniteSet(TIMEOUTS)

VARIABLES
    pc,       \* where thread i is: none, run, poll, read (in wait) or done
    saved,    \* the states its open scopes have to restore, innermost last
    target,   \* the thread it waits for
    limit,    \* timeout_ms of its wait, 0 for none
    elapsed   \* millis() - start of its wait, up to limit + 1

clientVars == <<pc, saved, target, limit, elapsed>>
vars == <<schedVars, clientVars>>

TypeOK ==
    /\ SchedTypeOK
    /\ thread_count \in 0..MAX_COUNT
    /\ pc \in [Slots -> {"none", "run", "poll", "read", "done"}]
    /\ saved \in [Slots -> Seq(SystemStates)]
    /\ \A t \in Slots : Len(saved[t]) <= MAX_NEST
    /\ target \in [Slots -> Slots]
    /\ limit \in [Slots -> TIMEOUTS \union {0}]
    /\ elapsed \in [Slots -> Nat]
    /\ \A t \in Slots : elapsed[t] <= limit[t] + 1

Init ==
    /\ SchedInit
    /\ pc = [i \in Slots |-> IF i = 0 THEN "run" ELSE "none"]
    /\ saved = [i \in Slots |-> << >>]
    /\ target = [i \in Slots |-> 0]
    /\ limit = [i \in Slots |-> 0]
    /\ elapsed = [i \in Slots |-> 0]

\* Thread t owns the core and is between two calls.
Runs(t) == current_thread = t /\ pc[t] = "run"
Waits(t) == pc[t] \in {"poll", "read"}

-----------------------------------------------------------------------------
(***************************************************************************)
(* Suspend scopes and stop()/start(p).                                     *)
(***************************************************************************)

Open(t, state) ==
    /\ Runs(t)
    /\ Len(saved[t]) < MAX_NEST
    /\ saved' = [saved EXCEPT ![t] = Append(@, currentActive)]
    /\ currentActive' = state
    /\ UNCHANGED <<current_thread, currentCount, flags, thread_count,
                   pc, target, limit, elapsed>>

OpenSuspend(t) == Open(t, ZERO)
Stop(t)        == Open(t, STOPPED)

\* ~Suspend, or start(p) with the state the matching stop() returned.
Close(t) ==
    /\ Runs(t)
    /\ saved[t] # << >>
    /\ currentActive' = saved[t][Len(saved[t])]
    /\ saved' = [saved EXCEPT ![t] = SubSeq(@, 1, Len(@) - 1)]
    /\ UNCHANGED <<current_thread, currentCount, flags, thread_count,
                   pc, target, limit, elapsed>>

-----------------------------------------------------------------------------
(***************************************************************************)
(* Life of a thread.                                                       *)
(***************************************************************************)

\* A thread begins its function with no scope open and in no call.  A thread
\* that is handed its own slot goes on running where it was.
AddThread(t) ==
    /\ Runs(t)
    /\ thread_count < MAX_COUNT
    /\ \E i \in Slots :
        /\ addThreadIn(i)
        /\ pc' = [pc EXCEPT ![i] = "run"]
        /\ saved' = IF i = t THEN saved ELSE [saved EXCEPT ![i] = << >>]
        /\ target' = [target EXCEPT ![i] = 0]
        /\ limit' = [limit EXCEPT ![i] = 0]
        /\ elapsed' = [elapsed EXCEPT ![i] = 0]

AddThreadFails(t) ==
    /\ Runs(t)
    /\ addThreadFails
    /\ UNCHANGED clientVars

\* The thread function returns; del_process then spins until it is switched
\* out.  Thread 0 runs main() and never returns.
Return(t) ==
    /\ Runs(t)
    /\ t # 0
    /\ saved[t] = << >>
    /\ delProcess(t)
    /\ pc' = [pc EXCEPT ![t] = "done"]
    /\ UNCHANGED <<saved, target, limit, elapsed>>

Kill(t, i) ==
    /\ Runs(t)
    /\ i # 0 /\ flags[i] \in {RUNNING, SUSPENDED}
    /\ setFlags(i, ENDED)
    /\ UNCHANGED clientVars

SuspendThread(t, i) ==
    /\ Runs(t)
    /\ i # 0 /\ flags[i] = RUNNING
    /\ setFlags(i, SUSPENDED)
    /\ UNCHANGED clientVars

Restart(t, i) ==
    /\ Runs(t)
    /\ flags[i] = SUSPENDED
    /\ setFlags(i, RUNNING)
    /\ UNCHANGED clientVars

-----------------------------------------------------------------------------
(***************************************************************************)
(* yield and wait.                                                         *)
(***************************************************************************)

Yield(t) ==
    /\ Runs(t)
    /\ yieldCore
    /\ UNCHANGED <<currentActive, flags, thread_count, clientVars>>

WaitBegins(t, i, ms) ==
    /\ Runs(t)
    /\ saved[t] = << >>
    /\ i # t /\ flags[i] # EMPTY
    /\ pc' = [pc EXCEPT ![t] = "poll"]
    /\ target' = [target EXCEPT ![t] = i]
    /\ limit' = [limit EXCEPT ![t] = ms]
    /\ elapsed' = [elapsed EXCEPT ![t] = 0]
    /\ UNCHANGED <<schedVars, saved>>

TimedOut(t) == limit[t] # 0 /\ elapsed[t] > limit[t]

LeaveWait(t) ==
    /\ pc' = [pc EXCEPT ![t] = "run"]
    /\ target' = [target EXCEPT ![t] = 0]
    /\ limit' = [limit EXCEPT ![t] = 0]
    /\ elapsed' = [elapsed EXCEPT ![t] = 0]
    /\ UNCHANGED <<schedVars, saved>>

\* The time limit is tested first; past it wait returns -1.
WaitTimesOut(t) ==
    /\ current_thread = t /\ pc[t] = "poll"
    /\ TimedOut(t)
    /\ LeaveWait(t)

WaitPolls(t) ==
    /\ current_thread = t /\ pc[t] = "poll"
    /\ ~TimedOut(t)
    /\ pc' = [pc EXCEPT ![t] = "read"]
    /\ UNCHANGED <<schedVars, saved, target, limit, elapsed>>

\* Any state but RUNNING makes wait return the id.
WaitReturns(t) ==
    /\ current_thread = t /\ pc[t] = "read"
    /\ flags[target[t]] # RUNNING
    /\ LeaveWait(t)

\* Slip: the start time is read inside the loop.
WaitYields_Restarts(t) ==
    /\ current_thread = t /\ pc[t] = "read"
    /\ flags[target[t]] = RUNNING
    /\ pc' = [pc EXCEPT ![t] = "poll"]
    /\ elapsed' = [elapsed EXCEPT ![t] = 0]
    /\ yieldCore
    /\ UNCHANGED <<currentActive, flags, thread_count, saved, target, limit>>

WaitYields(t) ==
    /\ current_thread = t /\ pc[t] = "read"
    /\ flags[target[t]] = RUNNING
    /\ pc' = [pc EXCEPT ![t] = "poll"]
    /\ yieldCore
    /\ UNCHANGED <<currentActive, flags, thread_count,
                   saved, target, limit, elapsed>>

\* A millisecond passes for every wait with a time limit.
Millis ==
    /\ elapsed' = [t \in Slots |->
                     IF limit[t] # 0 /\ elapsed[t] <= limit[t]
                     THEN elapsed[t] + 1 ELSE elapsed[t]]
    /\ elapsed' # elapsed
    /\ UNCHANGED <<schedVars, pc, saved, target, limit>>

-----------------------------------------------------------------------------
Closes == \E t \in Slots : Close(t)
LeavesOutermost == \E t \in Slots : Close(t) /\ saved'[t] = << >>
WaitStep(t) == WaitTimesOut(t) \/ WaitPolls(t) \/ WaitReturns(t) \/ WaitYields(t)
Tick == (TickCountsDown \/ TickSwitches) /\ UNCHANGED clientVars

Next ==
    \/ Tick
    \/ Millis
    \/ \E t \in Slots :
        \/ OpenSuspend(t) \/ Stop(t) \/ Close(t)
        \/ AddThread(t) \/ AddThreadFails(t) \/ Return(t)
        \/ Yield(t) \/ WaitStep(t)
        \/ \E i \in Slots :
            \/ Kill(t, i) \/ SuspendThread(t, i) \/ Restart(t, i)
            \/ \E ms \in TIMEOUTS : WaitBegins(t, i, ms)

Spec == Init /\ [][Next]_vars

\* The timer interrupts and the millisecond clock never stop; a tick is not
\* synchronised with the code it interrupts, so a thread that keeps opening
\* and closing scopes does not dodge it for ever; a thread inside wait keeps
\* executing when it has the core; and a caller closes every scope it opens,
\* down to the outermost one.
FairSpec ==
    /\ Spec
    /\ SF_vars(Tick) /\ WF_vars(Millis)
    /\ WF_vars(Closes) /\ SF_vars(LeavesOutermost)
    /\ \A t \in Slots : SF_vars(WaitStep(t))

-----------------------------------------------------------------------------
(***************************************************************************)
(* Properties.                                                             *)
(***************************************************************************)

\* A thread that holds a Suspend scope or a stop() keeps the core until it
\* closes it, whatever it calls meanwhile: addThread, which stops and starts
\* the system itself, must put back what it found.
ScopeIsExclusive ==
    \A t \in Slots : saved[t] # << >> => current_thread = t

\* The state of the system as it is outside every scope: what the outermost
\* scope will restore, or the current state if none is open.
BaseState == IF saved[current_thread] = << >> THEN currentActive
                                             ELSE saved[current_thread][1]

\* Once the system is started, no path through addThread, del_process or a nest
\* of scopes leaves preemption off: it is on again outside the scopes.
StartedForGood == [][BaseState = STARTED => BaseState' = STARTED]_vars

\* A thread stopped by someone else (killed or suspended) does nothing until
\* it is made RUNNING again: its place in the code and its scopes stand still.
StoppedStandsStill ==
    [][\A t \in Slots \ {0} :
        (flags[t] # RUNNING /\ flags'[t] # RUNNING /\ current_thread # t)
          => UNCHANGED <<pc[t], saved[t]>> /\ current_thread' # t]_vars

\* Round robin: once the system is started, a thread that stays RUNNING gets
\* the core again and again, whatever scopes the others open.  A thread first
\* added inside a scope waits for someone to start the system.
EveryThreadRuns ==
    \A t \in Slots :
        []<>(current_thread = t \/ flags[t] # RUNNING \/ BaseState # STARTED)

\* A wait with a time limit returns, unless its caller is stopped meanwhile: a
\* thread is not for ever RUNNING and inside one.
TimedWaitReturns ==
    \A t \in Slots : []<>(~Waits(t) \/ limit[t] = 0 \/ flags[t] # RUNNING)

=============================================================================
