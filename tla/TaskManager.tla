------------------------------ MODULE TaskManager ------------------------------
(***************************************************************************)
(* TaskManager and its TimedTasks: setup() adds the tasks, then task_loop  *)
(* calls service() for ever, which asks each task in turn whether it is    *)
(* due.  Time is millis(), a counter that wraps; it goes on between any    *)
(* two steps, while a task function runs as well.                          *)
(***************************************************************************)
EXTENDS Integers, Sequences

CONSTANTS
    CLOCK,      \* number of values of millis(): 2^32 in the firmware
    PERIODS,    \* task_period_ms of the tasks setup() adds, in order
    LOOP_BOUND  \* most milliseconds between two looks at the same task

Tasks == 1..Len(PERIODS)

\* The loop comes round early enough for the wrapped difference to be exact.
ASSUME TaskConstants ==
    /\ CLOCK \in Nat \ {0}
    /\ PERIODS \in Seq(Nat \ {0})
    /\ LOOP_BOUND \in Nat \ {0}
    /\ \A i \in Tasks : PERIODS[i] + LOOP_BOUND <= CLOCK

VARIABLES
    now,     \* millis()
    phase,   \* setup or loop
    added,   \* size of timed_tasks
    last,    \* last_execute_ms of each task, as the uint32 it is used as
    cursor,  \* task that service() is at, 0 between two rounds
    running, \* whether its task_function is executing
    ran,     \* history: the task function has returned before
    since,   \* history: milliseconds since it returned, or since add_task
    gap      \* history: milliseconds since service() last looked at the task

vars == <<now, phase, added, last, cursor, running, ran, since, gap>>

Times == 0..(CLOCK - 1)

TypeOK ==
    /\ now \in Times
    /\ phase \in {"setup", "loop"}
    /\ added \in 0..Len(PERIODS)
    /\ last \in [Tasks -> Times]
    /\ cursor \in 0..added
    /\ running \in BOOLEAN
    /\ ran \in [Tasks -> BOOLEAN]
    /\ since \in [Tasks -> Nat]
    /\ gap \in [Tasks -> 0..LOOP_BOUND]

\* millis() counts from power-up.
Init ==
    /\ now = 0
    /\ phase = "setup"
    /\ added = 0
    /\ last = [i \in Tasks |-> 0]
    /\ cursor = 0
    /\ running = FALSE
    /\ ran = [i \in Tasks |-> FALSE]
    /\ since = [i \in Tasks |-> 0]
    /\ gap = [i \in Tasks |-> 0]

-----------------------------------------------------------------------------
\* Slip: the difference of signed readings, negative once the clock wrapped.
Minus_Signed(a, b) == a - b

\* Unsigned subtraction of two readings.
Minus(a, b) == IF a >= b THEN a - b ELSE a - b + CLOCK

\* add_task of the next TimedTask; its last_execute_ms is 0 - millis().
add_task ==
    /\ phase = "setup"
    /\ added < Len(PERIODS)
    /\ added' = added + 1
    /\ last' = [last EXCEPT ![added + 1] = Minus(0, now)]
    /\ since' = [since EXCEPT ![added + 1] = 0]
    /\ gap' = [gap EXCEPT ![added + 1] = 0]
    /\ UNCHANGED <<now, phase, cursor, running, ran>>

\* setup() starts the thread of task_loop when the tasks are in place.
StartLoop ==
    /\ phase = "setup"
    /\ added = Len(PERIODS)
    /\ phase' = "loop"
    /\ UNCHANGED <<now, added, last, cursor, running, ran, since, gap>>

service ==
    /\ phase = "loop"
    /\ cursor = 0 /\ added > 0
    /\ cursor' = 1
    /\ UNCHANGED <<now, phase, added, last, running, ran, since, gap>>

\* Slip: the round ends before the last task.
NextCursor_Short == IF cursor + 1 < added THEN cursor + 1 ELSE 0

\* The loop of service() over timed_tasks.
NextCursor == IF cursor < added THEN cursor + 1 ELSE 0

\* Slip: a task is due one millisecond early.
Due_Early(i) == Minus(now, last[i]) + 1 >= PERIODS[i]

Due(i) == Minus(now, last[i]) >= PERIODS[i]

\* execute(): the test, which either starts the task function or passes on to
\* the next task.
Starts(i) ==
    /\ cursor = i /\ ~running
    /\ Due(i)
    /\ running' = TRUE
    /\ gap' = [gap EXCEPT ![i] = 0]
    /\ UNCHANGED <<now, phase, added, last, cursor, ran, since>>

Skips(i) ==
    /\ cursor = i /\ ~running
    /\ ~Due(i)
    /\ cursor' = NextCursor
    /\ gap' = [gap EXCEPT ![i] = 0]
    /\ UNCHANGED <<now, phase, added, last, running, ran, since>>

\* The task function has returned: the time is read again and stored.
Finishes(i) ==
    /\ cursor = i /\ running
    /\ running' = FALSE
    /\ last' = [last EXCEPT ![i] = now]
    /\ cursor' = NextCursor
    /\ ran' = [ran EXCEPT ![i] = TRUE]
    /\ since' = [since EXCEPT ![i] = 0]
    /\ UNCHANGED <<now, phase, added, gap>>

\* One millisecond.  The loop keeps up: no task waits longer than LOOP_BOUND
\* for service() to look at it, the running time of the tasks included.
Millis ==
    /\ \A i \in 1..added : gap[i] < LOOP_BOUND
    /\ now' = IF now = CLOCK - 1 THEN 0 ELSE now + 1
    /\ since' = [i \in Tasks |-> IF i <= added THEN since[i] + 1 ELSE since[i]]
    /\ gap' = [i \in Tasks |-> IF i <= added THEN gap[i] + 1 ELSE gap[i]]
    /\ UNCHANGED <<phase, added, last, cursor, running, ran>>

-----------------------------------------------------------------------------
TaskStep == \E i \in Tasks : Starts(i) \/ Skips(i) \/ Finishes(i)
Step == add_task \/ StartLoop \/ service \/ TaskStep
Next == Step \/ Millis

Spec == Init /\ [][Next]_vars

\* The clock runs, and the thread of task_loop gets the core (Threads.tla) and
\* every task function returns.
FairSpec == Spec /\ WF_vars(Step) /\ WF_vars(Millis)

-----------------------------------------------------------------------------
\* A task function is not started again before its period has passed since it
\* returned, wherever the clock wraps in between and however late it is looked
\* at.
PeriodKept ==
    [][\A i \in Tasks : Starts(i) /\ ran[i] => since[i] >= PERIODS[i]]_vars

\* A task that has run is, unless it is running, never overdue by more than one
\* round of the loop.
IsRunning(i) == cursor = i /\ running
Punctual ==
    \A i \in 1..added : ran[i] /\ ~IsRunning(i) => since[i] < PERIODS[i] + LOOP_BOUND

\* No task is forgotten.
EveryTaskRuns == \A i \in Tasks : []<>IsRunning(i)

\* The start value of last_execute_ms makes a task due at the first look ("enable
\* instant execution upon scheduling", TaskManager.h:20).
InstantExecution == [][\A i \in Tasks : Skips(i) => ran[i]]_vars

=============================================================================
