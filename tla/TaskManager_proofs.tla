--------------------------- MODULE TaskManager_proofs ---------------------------
(***************************************************************************)
(* Proofs of the type invariant and of the two timing properties of        *)
(* TaskManager, for every clock, list of periods and loop bound that       *)
(* satisfy TaskConstants.                                                  *)
(***************************************************************************)
EXTENDS TaskManager, TLAPS

Difference(i) == Minus(now, last[i])

\* A task that has run: the wrapped difference is the time since it returned,
\* as long as that fits the clock, and it was not due when it was last looked
\* at.
RanInv(i) ==
    ran[i] =>
        /\ i <= added
        /\ since[i] < CLOCK => Difference(i) = since[i]
        /\ ~IsRunning(i) => since[i] - gap[i] < PERIODS[i]

\* A task that has not run yet: it was never looked at, or it was not due at
\* the last look, and the first look came at most LOOP_BOUND after add_task.
FreshInv(i) ==
    ~ran[i] /\ i <= added /\ ~IsRunning(i) =>
        \/ since[i] = gap[i]
        \/ /\ gap[i] <= Difference(i)
           /\ Difference(i) - gap[i] < PERIODS[i]
           /\ since[i] <= LOOP_BOUND + Difference(i)

TaskInv == \A i \in Tasks : RanInv(i) /\ FreshInv(i)

\* Between two rounds of the loop no task function is executing.
RunningInv == running => cursor # 0

IInv == TypeOK /\ RunningInv /\ TaskInv

\* What the constants look like to arithmetic.
LEMMA ConstantFacts ==
    /\ Len(PERIODS) \in Nat
    /\ CLOCK \in Nat /\ CLOCK > 0
    /\ LOOP_BOUND \in Nat /\ LOOP_BOUND > 0
    /\ \A i \in Tasks :
         /\ i \in Nat /\ i > 0 /\ i <= Len(PERIODS)
         /\ PERIODS[i] \in Nat /\ PERIODS[i] > 0
         /\ PERIODS[i] + LOOP_BOUND <= CLOCK
BY TaskConstants DEF Tasks

\* Unsigned subtraction of two readings is a reading.
LEMMA MinusType == ASSUME NEW a \in Times, NEW b \in Times PROVE Minus(a, b) \in Times
BY TaskConstants DEF Times, Minus

\* A step of the clock adds one to the difference unless that wraps.
LEMMA MinusStep ==
    ASSUME NEW a \in Times, NEW b \in Times,
           NEW c, c = IF a = CLOCK - 1 THEN 0 ELSE a + 1,
           Minus(a, b) + 1 < CLOCK
    PROVE  Minus(c, b) = Minus(a, b) + 1
BY TaskConstants DEF Times, Minus

\* A reading subtracted from itself is zero.
LEMMA MinusSelf == ASSUME NEW a \in Times PROVE Minus(a, a) = 0
BY TaskConstants DEF Times, Minus

-----------------------------------------------------------------------------
\* The invariant holds before the first add_task.
LEMMA InitInv == Init => IInv
<1> SUFFICES ASSUME Init PROVE IInv
  OBVIOUS
<1>1. TypeOK
  <2>1. 0 \in Times /\ 0 \in 0..LOOP_BOUND /\ 0 \in 0..Len(PERIODS)
    BY ConstantFacts DEF Times
  <2>2. now \in Times /\ added \in 0..Len(PERIODS) /\ cursor \in 0..added
    BY <2>1 DEF Init
  <2>3. /\ last \in [Tasks -> Times] /\ since \in [Tasks -> Nat]
        /\ gap \in [Tasks -> 0..LOOP_BOUND]
    BY <2>1 DEF Init
  <2>4. ran \in [Tasks -> BOOLEAN] /\ running \in BOOLEAN
    BY DEF Init
  <2> QED BY <2>2, <2>3, <2>4 DEF Init, TypeOK
<1>2. ASSUME NEW i \in Tasks PROVE RanInv(i) /\ FreshInv(i)
  BY ConstantFacts, <1>2 DEF Init, RanInv, FreshInv
<1> QED BY <1>1, <1>2 DEF IInv, TaskInv, RunningInv, Init

\* Every step keeps the types.
LEMMA TypeStep == TypeOK /\ [Next]_vars => TypeOK'
<1> SUFFICES ASSUME TypeOK, [Next]_vars PROVE TypeOK'
  OBVIOUS
<1> USE ConstantFacts DEF TypeOK
<1>1. CASE add_task
  <2>1. Minus(0, now) \in Times
    <3>1. 0 \in Times
      BY DEF Times
    <3> QED BY <3>1, MinusType
  <2>2. added + 1 \in Tasks
    BY <1>1 DEF add_task, Tasks
  <2>3. last' \in [Tasks -> Times] /\ since' \in [Tasks -> Nat]
        /\ gap' \in [Tasks -> 0..LOOP_BOUND]
    BY <1>1, <2>1, <2>2 DEF add_task
  <2> QED BY <1>1, <2>3 DEF add_task
<1>2. CASE StartLoop
  BY <1>2 DEF StartLoop
<1>3. CASE service
  BY <1>3 DEF service
<1>4. CASE TaskStep
  <2>1. PICK i \in Tasks : Starts(i) \/ Skips(i) \/ Finishes(i)
    BY <1>4 DEF TaskStep
  <2>2. CASE Starts(i)
    BY <2>2 DEF Starts
  <2>3. CASE Skips(i)
    BY <2>3 DEF Skips, NextCursor
  <2>4. CASE Finishes(i)
    <3>1. cursor' \in 0..added'
      BY <2>4 DEF Finishes, NextCursor
    <3> QED BY <2>4, <3>1 DEF Finishes
  <2> QED BY <2>1, <2>2, <2>3, <2>4
<1>5. CASE Millis
  <2>1. now' \in Times
    BY <1>5 DEF Millis, Times
  <2>2. since' \in [Tasks -> Nat]
    BY <1>5 DEF Millis
  <2>3. gap' \in [Tasks -> 0..LOOP_BOUND]
    <3>1. ASSUME NEW i \in Tasks, i <= added PROVE gap[i] + 1 \in 0..LOOP_BOUND
      BY <1>5, <3>1 DEF Millis
    <3> QED BY <1>5, <3>1 DEF Millis
  <2> QED BY <1>5, <2>1, <2>2, <2>3 DEF Millis
<1>6. CASE UNCHANGED vars
  BY <1>6 DEF vars
<1> QED BY <1>1, <1>2, <1>3, <1>4, <1>5, <1>6 DEF Next, Step

-----------------------------------------------------------------------------
\* Types of what the invariant speaks about, for one task.
LEMMA TaskFacts ==
    ASSUME TypeOK, NEW i \in Tasks
    PROVE  /\ now \in Times /\ last[i] \in Times
           /\ Difference(i) \in 0..(CLOCK - 1)
           /\ since[i] \in Nat /\ gap[i] \in 0..LOOP_BOUND
           /\ added \in Nat /\ added <= Len(PERIODS)
           /\ cursor \in Nat /\ cursor <= added
           /\ ran[i] \in BOOLEAN /\ running \in BOOLEAN
<1>1. now \in Times /\ last[i] \in Times
  BY DEF TypeOK
<1>2. Difference(i) \in 0..(CLOCK - 1)
  BY <1>1, MinusType DEF Difference, Times
<1>3. added \in Nat /\ added <= Len(PERIODS) /\ cursor \in Nat /\ cursor <= added
  BY ConstantFacts DEF TypeOK
<1> QED BY <1>1, <1>2, <1>3 DEF TypeOK

\* The same as bare arithmetic on the numbers of one task.
LEMMA TaskNumbers ==
    ASSUME TypeOK, NEW i \in Tasks
    PROVE  /\ Difference(i) \in Int /\ Difference(i) < CLOCK
           /\ since[i] \in Int /\ gap[i] \in Int /\ gap[i] <= LOOP_BOUND
           /\ PERIODS[i] \in Int /\ LOOP_BOUND \in Int /\ CLOCK \in Int
           /\ PERIODS[i] + LOOP_BOUND <= CLOCK
BY ConstantFacts, TaskFacts

\* A task that is added keeps the invariant of every task.
LEMMA AddKeeps ==
    ASSUME TypeOK, TaskInv, add_task, NEW i \in Tasks
    PROVE  RanInv(i)' /\ FreshInv(i)'
<1>1. RanInv(i) /\ FreshInv(i)
  BY DEF TaskInv
<1>2. CASE i = added + 1
  <2>1. ~ran[i] /\ ran'[i] = ran[i]
    BY <1>1, <1>2, TaskFacts DEF RanInv, add_task
  <2>2. since'[i] = 0 /\ gap'[i] = 0
    BY <1>2 DEF add_task, TypeOK
  <2> QED BY <2>1, <2>2 DEF RanInv, FreshInv
<1>3. CASE i # added + 1
  <2>1. since'[i] = since[i] /\ gap'[i] = gap[i] /\ last'[i] = last[i]
    BY <1>3 DEF add_task, TypeOK
  <2>2. i <= added' <=> i <= added
    BY <1>3, ConstantFacts, TaskFacts DEF add_task
  <2>3. Difference(i)' = Difference(i)
    BY <2>1 DEF Difference, Minus, add_task
  <2>4. IsRunning(i)' <=> IsRunning(i)
    BY DEF IsRunning, add_task
  <2>5. ran'[i] = ran[i]
    BY DEF add_task
  <2> QED BY <1>1, <2>1, <2>2, <2>3, <2>4, <2>5 DEF RanInv, FreshInv
<1> QED BY <1>2, <1>3

\* A look at a task that is not due: its time so far is less than its period.
LEMMA SkipsKeeps ==
    ASSUME TypeOK, TaskInv, NEW k \in Tasks, Skips(k), NEW i \in Tasks
    PROVE  RanInv(i)' /\ FreshInv(i)'
<1>1. RanInv(i) /\ FreshInv(i)
  BY DEF TaskInv
<1>2. /\ since'[i] = since[i] /\ ran'[i] = ran[i] /\ added' = added
      /\ Difference(i)' = Difference(i)
      /\ ~IsRunning(i) /\ ~IsRunning(i)'
  BY DEF Skips, Difference, Minus, IsRunning
<1>3. CASE i = k
  <2>1. gap'[i] = 0
    BY <1>3 DEF Skips, TypeOK
  <2>2. Difference(i) < PERIODS[i]
    BY <1>3, ConstantFacts, TaskFacts DEF Skips, Due, Difference
  <2>3. i <= added
    BY <1>3, TaskFacts DEF Skips
  <2>4. CASE ran[i]
    <3>1. since[i] < PERIODS[i]
      <4>1. since[i] - gap[i] < PERIODS[i]
        BY <1>1, <1>2, <2>4 DEF RanInv
      <4>2. since[i] < CLOCK
        <5>1. /\ since[i] \in Int /\ gap[i] \in Int /\ gap[i] <= LOOP_BOUND
              /\ PERIODS[i] \in Int /\ LOOP_BOUND \in Int /\ CLOCK \in Int
              /\ PERIODS[i] + LOOP_BOUND <= CLOCK
          BY TaskNumbers
        <5> QED BY <4>1, <5>1
      <4>3. Difference(i) = since[i]
        BY <1>1, <2>4, <4>2 DEF RanInv
      <4> QED BY <2>2, <4>3
    <3> QED BY <1>1, <1>2, <2>1, <2>3, <2>4, <3>1, ConstantFacts, TaskFacts
            DEF RanInv, FreshInv
  <2>5. CASE ~ran[i]
    <3>1. since[i] <= LOOP_BOUND + Difference(i)
      BY <1>1, <1>2, <2>3, <2>5, ConstantFacts, TaskFacts DEF FreshInv
    <3> QED BY <1>1, <1>2, <2>1, <2>2, <2>5, <3>1, ConstantFacts, TaskFacts
            DEF RanInv, FreshInv
  <2> QED BY <2>4, <2>5
<1>4. CASE i # k
  <2>1. gap'[i] = gap[i]
    BY <1>4 DEF Skips, TypeOK
  <2> QED BY <1>1, <1>2, <2>1 DEF RanInv, FreshInv
<1> QED BY <1>3, <1>4

\* A task that is due starts.
LEMMA StartsKeeps ==
    ASSUME TypeOK, TaskInv, NEW k \in Tasks, Starts(k), NEW i \in Tasks
    PROVE  RanInv(i)' /\ FreshInv(i)'
<1>1. RanInv(i) /\ FreshInv(i)
  BY DEF TaskInv
<1>2. /\ since'[i] = since[i] /\ ran'[i] = ran[i] /\ added' = added
      /\ Difference(i)' = Difference(i)
  BY DEF Starts, Difference, Minus
<1>3. CASE i = k
  <2>1. IsRunning(i)'
    BY <1>3 DEF Starts, IsRunning
  <2> QED BY <1>1, <1>2, <2>1 DEF RanInv, FreshInv
<1>4. CASE i # k
  <2>1. gap'[i] = gap[i] /\ ~IsRunning(i)
    BY <1>4 DEF Starts, TypeOK, IsRunning
  <2> QED BY <1>1, <1>2, <2>1 DEF RanInv, FreshInv
<1> QED BY <1>3, <1>4

\* A task function returns and the time is stored.
LEMMA FinishesKeeps ==
    ASSUME TypeOK, TaskInv, NEW k \in Tasks, Finishes(k), NEW i \in Tasks
    PROVE  RanInv(i)' /\ FreshInv(i)'
<1>1. RanInv(i) /\ FreshInv(i)
  BY DEF TaskInv
<1>2. gap'[i] = gap[i] /\ added' = added /\ now' = now
  BY DEF Finishes
<1>3. CASE i = k
  <2>1. ran'[i] /\ since'[i] = 0
    BY <1>3 DEF Finishes, TypeOK
  <2>2. Difference(i)' = 0
    <3>1. last'[i] = now
      BY <1>3 DEF Finishes, TypeOK
    <3> QED BY <1>2, <3>1, MinusSelf, TaskFacts DEF Difference
  <2>3. i <= added
    BY <1>3, TaskFacts DEF Finishes
  <2>4. 0 - gap[i] < PERIODS[i]
    <3>1. gap[i] \in Nat /\ PERIODS[i] \in Nat /\ PERIODS[i] > 0
      BY ConstantFacts, TaskFacts
    <3> QED BY <3>1
  <2> QED BY <1>2, <2>1, <2>2, <2>3, <2>4 DEF RanInv, FreshInv
<1>4. CASE i # k
  <2>1. since'[i] = since[i] /\ ran'[i] = ran[i] /\ last'[i] = last[i]
    BY <1>4 DEF Finishes, TypeOK
  <2>2. Difference(i)' = Difference(i)
    BY <1>2, <2>1 DEF Difference, Minus
  <2>3. ~IsRunning(i)
    BY <1>4 DEF Finishes, IsRunning
  <2> QED BY <1>1, <1>2, <2>1, <2>2, <2>3 DEF RanInv, FreshInv
<1> QED BY <1>3, <1>4

\* A millisecond: as long as the difference does not wrap it grows with the
\* time; the loop bound is what keeps it from wrapping unseen.
LEMMA MillisKeeps ==
    ASSUME TypeOK, TaskInv, Millis, NEW i \in Tasks
    PROVE  RanInv(i)' /\ FreshInv(i)'
<1>1. RanInv(i) /\ FreshInv(i)
  BY DEF TaskInv
<1>2. ran'[i] = ran[i] /\ added' = added /\ (IsRunning(i)' <=> IsRunning(i))
  BY DEF Millis, IsRunning
<1>3. CASE i <= added
  <2>1. since'[i] = since[i] + 1 /\ gap'[i] = gap[i] + 1
    BY <1>3 DEF Millis
  <2>2. gap[i] < LOOP_BOUND
    BY <1>3, ConstantFacts, TaskFacts DEF Millis
  <2>3. Difference(i) + 1 < CLOCK => Difference(i)' = Difference(i) + 1
    <3>1. SUFFICES ASSUME Minus(now, last[i]) + 1 < CLOCK
                   PROVE  Minus(now', last[i]) = Minus(now, last[i]) + 1
      BY DEF Difference, Minus, Millis
    <3>2. now' = IF now = CLOCK - 1 THEN 0 ELSE now + 1
      BY DEF Millis
    <3> QED BY <3>1, <3>2, MinusStep, TaskFacts
  <2>4. CASE ran[i]
    <3>1. since'[i] < CLOCK => Difference(i)' = since'[i]
      <4>1. SUFFICES ASSUME since[i] + 1 < CLOCK PROVE Difference(i)' = since[i] + 1
        BY <2>1
      <4>2. Difference(i) = since[i]
        BY <1>1, <2>4, <4>1, ConstantFacts, TaskFacts DEF RanInv
      <4> QED BY <2>3, <4>1, <4>2
    <3>2. ~IsRunning(i)' => since'[i] - gap'[i] < PERIODS[i]
      <4>1. ~IsRunning(i) => since[i] - gap[i] < PERIODS[i]
        BY <1>1, <2>4 DEF RanInv
      <4>2. since[i] \in Int /\ gap[i] \in Int /\ PERIODS[i] \in Int
        BY ConstantFacts, TaskFacts
      <4>3. since[i] - gap[i] < PERIODS[i] => (since[i] + 1) - (gap[i] + 1) < PERIODS[i]
        BY <4>2
      <4> QED BY <1>2, <2>1, <4>1, <4>3
    <3> QED BY <1>2, <1>3, <2>4, <3>1, <3>2 DEF RanInv, FreshInv
  <2>5. CASE ~ran[i]
    <3>1. CASE IsRunning(i)
      BY <1>2, <2>5, <3>1 DEF RanInv, FreshInv
    <3>2. CASE since[i] = gap[i]
      BY <1>2, <2>1, <2>5, <3>2 DEF RanInv, FreshInv
    <3>3. CASE /\ gap[i] <= Difference(i)
               /\ Difference(i) - gap[i] < PERIODS[i]
               /\ since[i] <= LOOP_BOUND + Difference(i)
      <4>1. Difference(i) + 1 < CLOCK
        <5>1. /\ Difference(i) \in Int /\ gap[i] \in Int
              /\ PERIODS[i] \in Int /\ LOOP_BOUND \in Int /\ CLOCK \in Int
              /\ PERIODS[i] + LOOP_BOUND <= CLOCK
          BY TaskNumbers
        <5> QED BY <2>2, <3>3, <5>1
      <4>2. Difference(i)' = Difference(i) + 1
        BY <2>3, <4>1
      <4>3. /\ gap[i] + 1 <= Difference(i) + 1
            /\ (Difference(i) + 1) - (gap[i] + 1) < PERIODS[i]
            /\ since[i] + 1 <= LOOP_BOUND + (Difference(i) + 1)
        <5>1. /\ Difference(i) \in Int /\ gap[i] \in Int /\ since[i] \in Int
              /\ PERIODS[i] \in Int /\ LOOP_BOUND \in Int
          BY ConstantFacts, TaskFacts
        <5> QED BY <3>3, <5>1
      <4> QED BY <1>2, <2>1, <2>5, <4>2, <4>3 DEF RanInv, FreshInv
    <3> QED BY <1>1, <1>3, <2>5, <3>1, <3>2, <3>3 DEF FreshInv
  <2> QED BY <2>4, <2>5
<1>4. CASE ~(i <= added)
  BY <1>1, <1>2, <1>4 DEF RanInv, FreshInv
<1> QED BY <1>3, <1>4

\* A task function runs only where service() is.
LEMMA RunningStep == TypeOK /\ RunningInv /\ [Next]_vars => RunningInv'
<1> SUFFICES ASSUME TypeOK, RunningInv, [Next]_vars PROVE RunningInv'
  OBVIOUS
<1>1. CASE TaskStep
  <2>1. PICK i \in Tasks : Starts(i) \/ Skips(i) \/ Finishes(i)
    BY <1>1 DEF TaskStep
  <2>2. i # 0
    BY DEF Tasks
  <2> QED BY <2>1, <2>2 DEF Starts, Skips, Finishes, RunningInv
<1> QED BY <1>1 DEF Next, Step, RunningInv, vars, add_task, StartLoop, service, Millis

\* Every step keeps the invariant.
LEMMA InvStep == IInv /\ [Next]_vars => IInv'
<1> SUFFICES ASSUME IInv, [Next]_vars PROVE IInv'
  OBVIOUS
<1>1. TypeOK /\ RunningInv /\ TaskInv /\ TypeOK' /\ RunningInv'
  BY TypeStep, RunningStep DEF IInv
<1>2. SUFFICES ASSUME NEW i \in Tasks PROVE RanInv(i)' /\ FreshInv(i)'
  BY <1>1 DEF IInv, TaskInv
<1>3. RanInv(i) /\ FreshInv(i)
  BY <1>1 DEF TaskInv
<1>4. CASE add_task
  BY <1>1, <1>4, AddKeeps
<1>5. CASE StartLoop
  BY <1>3, <1>5 DEF StartLoop, RanInv, FreshInv, Difference, Minus, IsRunning
<1>6. CASE service
  <2>1. ~running
    BY <1>1, <1>6 DEF service, RunningInv
  <2> QED BY <1>3, <1>6, <2>1
          DEF service, RanInv, FreshInv, Difference, Minus, IsRunning
<1>7. CASE TaskStep
  <2>1. PICK k \in Tasks : Starts(k) \/ Skips(k) \/ Finishes(k)
    BY <1>7 DEF TaskStep
  <2> QED BY <1>1, <2>1, StartsKeeps, SkipsKeeps, FinishesKeeps
<1>8. CASE Millis
  BY <1>1, <1>8, MillisKeeps
<1>9. CASE UNCHANGED vars
  BY <1>3, <1>9 DEF vars, RanInv, FreshInv, Difference, Minus, IsRunning
<1> QED BY <1>4, <1>5, <1>6, <1>7, <1>8, <1>9 DEF Next, Step

-----------------------------------------------------------------------------
\* IInv is an invariant of every behaviour of the task loop.
THEOREM Invariant == Spec => []IInv
BY InitInv, InvStep, PTL DEF Spec

\* The variables of the task manager keep their types; above all, the stored
\* time of a task is always a reading of the clock.
THEOREM TypeCorrect == Spec => []TypeOK
<1>1. IInv => TypeOK
  BY DEF IInv
<1> QED BY <1>1, Invariant, PTL

\* execute() never starts a task function again before its period has passed
\* since it returned, on a clock of any width and wherever it wraps.
THEOREM PeriodIsKept == Spec => PeriodKept
<1>1. IInv /\ [Next]_vars =>
        [\A i \in Tasks : Starts(i) /\ ran[i] => since[i] >= PERIODS[i]]_vars
  <2> SUFFICES ASSUME IInv, NEW i \in Tasks, Starts(i), ran[i]
               PROVE  since[i] >= PERIODS[i]
    OBVIOUS
  <2>1. TypeOK /\ RanInv(i)
    BY DEF IInv, TaskInv
  <2>2. Difference(i) >= PERIODS[i]
    BY DEF Starts, Due, Difference
  <2>3. CASE since[i] < CLOCK
    BY <2>1, <2>2, <2>3 DEF RanInv
  <2>4. CASE ~(since[i] < CLOCK)
    BY <2>1, <2>4, ConstantFacts, TaskFacts
  <2> QED BY <2>3, <2>4
<1> QED BY <1>1, Invariant, PTL DEF Spec, PeriodKept

\* No task that has run is overdue by more than one round of the loop, on any clock
\* that is wide enough for the longest period and that round.
THEOREM TasksArePunctual == Spec => []Punctual
<1>1. IInv => Punctual
  <2> SUFFICES ASSUME IInv, NEW i \in 1..added, ran[i], ~IsRunning(i)
               PROVE  since[i] < PERIODS[i] + LOOP_BOUND
    BY DEF Punctual
  <2>1. i \in Tasks /\ i <= added
    BY ConstantFacts DEF IInv, TypeOK, Tasks
  <2>2. TypeOK /\ since[i] - gap[i] < PERIODS[i]
    BY <2>1 DEF IInv, TaskInv, RanInv
  <2>3. /\ since[i] \in Int /\ gap[i] \in Int /\ gap[i] <= LOOP_BOUND
        /\ PERIODS[i] \in Int /\ LOOP_BOUND \in Int
    BY <2>1, <2>2, TaskNumbers
  <2> QED BY <2>2, <2>3
<1> QED BY <1>1, Invariant, PTL

\* The first run comes within a period and two rounds of the loop: one until the
\* first look, for which the difference may wrap, and one after it.
FirstRunSoon ==
    \A i \in 1..added : ~ran[i] /\ ~IsRunning(i) => since[i] < PERIODS[i] + 2 * LOOP_BOUND

\* A task that is added waits for its first run no longer than for any other, but for
\* a round of the loop, whatever the clock says when its start value is taken.
THEOREM FirstWaitIsBounded == Spec => []FirstRunSoon
<1>1. IInv => FirstRunSoon
  <2> SUFFICES ASSUME IInv, NEW i \in 1..added, ~ran[i], ~IsRunning(i)
               PROVE  since[i] < PERIODS[i] + 2 * LOOP_BOUND
    BY DEF FirstRunSoon
  <2>1. i \in Tasks /\ i <= added
    BY ConstantFacts DEF IInv, TypeOK, Tasks
  <2>2. TypeOK /\ FreshInv(i)
    BY <2>1 DEF IInv, TaskInv
  <2>3. /\ Difference(i) \in Int
        /\ since[i] \in Int /\ gap[i] \in Int /\ gap[i] <= LOOP_BOUND
        /\ PERIODS[i] \in Int /\ PERIODS[i] > 0
        /\ LOOP_BOUND \in Int /\ LOOP_BOUND > 0
    BY <2>1, <2>2, ConstantFacts, TaskNumbers
  <2>4. \/ since[i] = gap[i]
        \/ /\ Difference(i) - gap[i] < PERIODS[i]
           /\ since[i] <= LOOP_BOUND + Difference(i)
    BY <2>1, <2>2 DEF FreshInv
  <2> QED BY <2>3, <2>4
<1> QED BY <1>1, Invariant, PTL

=============================================================================
