----------------------------- MODULE Threads_proofs -----------------------------
(***************************************************************************)
(* Proofs that a Suspend scope, and a stop() that was not undone yet, keep *)
(* the core to their thread, that preemption never stays off, that a       *)
(* stopped thread stands still, and that the types hold, for any number of *)
(* threads, any slice and any nesting.                                     *)
(***************************************************************************)
EXTENDS Threads, FiniteSetTheorems, WellFoundedInduction, TLAPS

(***************************************************************************)
(* The scheduler's operations.                                             *)
(***************************************************************************)

\* A set of naturals that is not empty has a least element: the slot
\* that a scan takes.
LEMMA LeastNatural ==
    ASSUME NEW S \in SUBSET Nat, S # {}
    PROVE  \E x \in S : \A y \in S : x <= y
<1>1. PICK x \in S : \A y \in S : <<y, x>> \notin OpToRel(<, Nat)
  BY NatLessThanWellFounded, WFMin, Zenon
<1>2. ASSUME NEW y \in S PROVE x <= y
  <2>1. x \in Nat /\ y \in Nat
    OBVIOUS
  <2>2. ~(y < x)
    BY <1>1, <2>1, Zenon DEF OpToRel
  <2> QED BY <2>1, <2>2
<1> QED BY <1>2

\* Slot 0 is a slot, and slots are naturals.
LEMMA SlotFacts == 0 \in Slots /\ Slots \subseteq Nat
BY ThreadConstants DEF Slots

\* The scan of getNextThread returns a slot of the table, never the index one
\* past it, whatever the states of the threads.
LEMMA NextThreadIsSlot ==
    ASSUME NEW i \in Slots, NEW fl PROVE NextThread(i, fl) \in Slots
<1>1. CASE RunnableAfter(i, fl) = {}
  BY <1>1, SlotFacts DEF NextThread
<1>2. CASE RunnableAfter(i, fl) # {}
  <2> DEFINE R == RunnableAfter(i, fl)
  <2>1. R \subseteq Slots /\ R \in SUBSET Nat
    BY SlotFacts DEF RunnableAfter
  <2>2. \E x \in R : \A y \in R : x <= y
    BY <1>2, <2>1, LeastNatural
  <2>3. Min(R) \in R
    BY <2>2 DEF Min
  <2> QED BY <1>2, <2>1, <2>3 DEF NextThread
<1> QED BY <1>1, <1>2

\* The scan dispatches a RUNNING thread or thread 0.
LEMMA DispatchedRuns ==
    ASSUME NEW i \in Slots, NEW fl PROVE NextThread(i, fl) = 0 \/ fl[NextThread(i, fl)] = RUNNING
<1>1. CASE RunnableAfter(i, fl) # {}
  <2> DEFINE R == RunnableAfter(i, fl)
  <2>1. R \in SUBSET Nat
    BY SlotFacts DEF RunnableAfter
  <2>2. \E x \in R : \A y \in R : x <= y
    BY <1>1, <2>1, LeastNatural
  <2>3. Min(R) \in R
    BY <2>2 DEF Min
  <2> QED BY <1>1, <2>3 DEF NextThread, RunnableAfter
<1> QED BY <1>1 DEF NextThread

\* A tick of the timer keeps the scheduler's types.
LEMMA TickKeepsTypes ==
    ASSUME SchedTypeOK, TickCountsDown \/ TickSwitches PROVE SchedTypeOK'
<1>1. CASE TickCountsDown
  BY <1>1, ThreadConstants DEF SchedTypeOK, TickCountsDown
<1>2. CASE TickSwitches
  BY <1>2, ThreadConstants, NextThreadIsSlot
     DEF SchedTypeOK, TickSwitches, getNextThread
<1> QED BY <1>1, <1>2

\* yield() keeps the scheduler's types.
LEMMA YieldKeepsTypes ==
    ASSUME SchedTypeOK, yieldCore, UNCHANGED <<currentActive, flags, thread_count>>
    PROVE  SchedTypeOK'
<1>1. CASE currentActive = STARTED
  BY <1>1, ThreadConstants, NextThreadIsSlot DEF SchedTypeOK, yieldCore, getNextThread
<1>2. CASE currentActive # STARTED
  BY <1>2 DEF SchedTypeOK, yieldCore
<1> QED BY <1>1, <1>2

\* kill, suspend, restart and setState keep the scheduler's types.
LEMMA SetFlagsKeepsTypes ==
    ASSUME SchedTypeOK, NEW i \in Slots, NEW s \in ThreadStates, setFlags(i, s)
    PROVE  SchedTypeOK'
BY DEF SchedTypeOK, setFlags

\* addThread keeps the scheduler's types.
LEMMA AddKeepsTypes ==
    ASSUME SchedTypeOK, NEW i \in Slots, addThreadIn(i) PROVE SchedTypeOK'
BY DEF SchedTypeOK, addThreadIn, ActiveAfterAdd, SystemStates, ThreadStates

-----------------------------------------------------------------------------

\* What the system is inside a scope; neither lets context_switch go on.
Inside == {ZERO, STOPPED}

\* The scopes of a thread: only the outermost one can restore a started system,
\* and while any is open the system is not started.
ScopesOf(t) ==
    saved[t] # << >> =>
        /\ current_thread = t
        /\ currentActive \in Inside
        /\ \A k \in 2..Len(saved[t]) : saved[t][k] \in Inside

IInv ==
    /\ currentActive \in SystemStates
    /\ saved \in [Slots -> Seq(SystemStates)]
    /\ \A t \in Slots : ScopesOf(t)

\* The invariant holds when only thread 0 exists.
LEMMA InitInv == Init => IInv
BY DEF Init, SchedInit, IInv, ScopesOf, SystemStates

\* A started system has no scope open anywhere.
LEMMA NoScopeWhenStarted ==
    ASSUME IInv, currentActive = STARTED, NEW t \in Slots
    PROVE  saved[t] = << >>
BY DEF IInv, ScopesOf, Inside, STARTED, ZERO, STOPPED

\* A Suspend scope or a stop() that opens records the state it found.
LEMMA OpenKeeps ==
    ASSUME IInv, NEW t \in Slots, NEW s \in Inside, Open(t, s)
    PROVE  IInv'
<1>1. saved[t] \in Seq(SystemStates) /\ currentActive \in SystemStates
  BY DEF IInv
<1>2. saved' = [saved EXCEPT ![t] = Append(saved[t], currentActive)]
      /\ currentActive' = s /\ current_thread' = current_thread /\ current_thread = t
  BY DEF Open, Runs
<1>3. saved' \in [Slots -> Seq(SystemStates)] /\ currentActive' \in SystemStates
  BY <1>1, <1>2 DEF IInv, Inside, SystemStates
<1>4. ASSUME NEW u \in Slots PROVE ScopesOf(u)'
  <2>1. CASE u = t
    <3>1. saved'[t] = Append(saved[t], currentActive)
      BY <1>2 DEF IInv
    <3>2. ASSUME NEW k \in 2..Len(saved'[t]) PROVE saved'[t][k] \in Inside
      <4>1. CASE k <= Len(saved[t])
        <5>1. saved'[t][k] = saved[t][k] /\ saved[t] # << >>
          BY <1>1, <3>1, <4>1
        <5> QED BY <1>1, <4>1, <5>1 DEF IInv, ScopesOf
      <4>2. CASE ~(k <= Len(saved[t]))
        <5>1. saved'[t][k] = currentActive /\ saved[t] # << >>
          BY <1>1, <3>1, <4>2
        <5> QED BY <5>1 DEF IInv, ScopesOf
      <4> QED BY <4>1, <4>2
    <3> QED BY <1>2, <2>1, <3>2 DEF ScopesOf
  <2>2. CASE u # t
    BY <1>2, <2>2 DEF IInv, ScopesOf
  <2> QED BY <2>1, <2>2
<1> QED BY <1>3, <1>4 DEF IInv

\* The innermost scope that closes restores what it recorded.
LEMMA CloseKeeps ==
    ASSUME IInv, NEW t \in Slots, Close(t)
    PROVE  IInv'
<1> DEFINE n == Len(saved[t])
<1>1. saved[t] \in Seq(SystemStates) /\ n \in Nat /\ n > 0
  BY DEF IInv, Close
<1>2. /\ currentActive' = saved[t][n]
      /\ saved' = [saved EXCEPT ![t] = SubSeq(saved[t], 1, n - 1)]
      /\ current_thread' = current_thread /\ current_thread = t
  BY DEF Close, Runs
<1>3. /\ SubSeq(saved[t], 1, n - 1) \in Seq(SystemStates)
      /\ Len(SubSeq(saved[t], 1, n - 1)) = n - 1
      /\ \A k \in 1..(n - 1) : SubSeq(saved[t], 1, n - 1)[k] = saved[t][k]
  BY <1>1
<1>4. saved' \in [Slots -> Seq(SystemStates)] /\ currentActive' \in SystemStates
  BY <1>1, <1>2, <1>3 DEF IInv
<1>5. ASSUME NEW u \in Slots PROVE ScopesOf(u)'
  <2>1. CASE u = t
    <3>1. saved'[t] = SubSeq(saved[t], 1, n - 1)
      BY <1>2 DEF IInv
    <3>2. \A k \in 2..n : saved[t][k] \in Inside
      BY <1>1 DEF IInv, ScopesOf
    <3>3. SUFFICES ASSUME saved'[t] # << >> PROVE ScopesOf(t)'
      BY <2>1 DEF ScopesOf
    <3>4. n >= 2
      BY <1>1, <1>3, <3>1, <3>3
    <3>5. currentActive' \in Inside
      BY <1>1, <1>2, <3>2, <3>4
    <3>6. \A k \in 2..Len(saved'[t]) : saved'[t][k] \in Inside
      BY <1>1, <1>3, <3>1, <3>2
    <3> QED BY <1>2, <3>5, <3>6 DEF ScopesOf
  <2>2. CASE u # t
    <3>1. saved'[u] = saved[u] /\ saved[u] = << >>
      BY <1>2, <2>2 DEF IInv, ScopesOf
    <3> QED BY <3>1 DEF ScopesOf
  <2> QED BY <2>1, <2>2
<1> QED BY <1>4, <1>5 DEF IInv

\* addThread puts back the state it found unless that was FIRST_RUN or STARTED,
\* which a thread inside a scope never sees.
LEMMA AddKeeps ==
    ASSUME IInv, NEW t \in Slots, AddThread(t) \/ AddThreadFails(t)
    PROVE  IInv'
<1>1. /\ current_thread' = current_thread
      /\ currentActive' \in SystemStates
      /\ currentActive \in Inside => currentActive' \in Inside
  BY DEF IInv, AddThread, AddThreadFails, addThreadIn, addThreadFails, ActiveAfterAdd,
         ActiveAfterFailedAdd, Inside, SystemStates, ZERO, STOPPED, STARTED, FIRST_RUN
<1>2. /\ saved' \in [Slots -> Seq(SystemStates)]
      /\ \A u \in Slots : saved'[u] \in {saved[u], << >>}
  <2>1. CASE AddThread(t)
    <3>1. PICK i \in Slots :
            saved' = IF i = t THEN saved ELSE [saved EXCEPT ![i] = << >>]
      BY <2>1 DEF AddThread
    <3> QED BY <3>1 DEF IInv
  <2>2. CASE AddThreadFails(t)
    BY <2>2 DEF AddThreadFails, clientVars, IInv
  <2> QED BY <2>1, <2>2
<1> QED BY <1>1, <1>2 DEF IInv, ScopesOf

\* The core changes hands only in a started system.
LEMMA SwitchKeeps ==
    ASSUME IInv, UNCHANGED <<currentActive, saved>>,
           yieldCore \/ TickCountsDown \/ TickSwitches \/ UNCHANGED current_thread
    PROVE  IInv'
<1>1. CASE currentActive = STARTED
  BY <1>1, NoScopeWhenStarted DEF IInv, ScopesOf
<1>2. CASE currentActive # STARTED
  <2>1. current_thread' = current_thread
    BY <1>2 DEF yieldCore, TickCountsDown, TickSwitches
  <2> QED BY <2>1 DEF IInv, ScopesOf
<1> QED BY <1>1, <1>2

\* Every step keeps the invariant.
LEMMA InvStep == IInv /\ [Next]_vars => IInv'
<1> SUFFICES ASSUME IInv, [Next]_vars PROVE IInv'
  OBVIOUS
<1>1. CASE Tick
  BY <1>1, SwitchKeeps DEF Tick, TickCountsDown, TickSwitches, clientVars
<1>2. CASE Millis
  BY <1>2, SwitchKeeps DEF Millis, schedVars
<1>3. ASSUME NEW t \in Slots, OpenSuspend(t) \/ Stop(t) PROVE IInv'
  BY <1>3, OpenKeeps DEF OpenSuspend, Stop, Inside
<1>4. ASSUME NEW t \in Slots, Close(t) PROVE IInv'
  BY <1>4, CloseKeeps
<1>5. ASSUME NEW t \in Slots, AddThread(t) \/ AddThreadFails(t) PROVE IInv'
  BY <1>5, AddKeeps
<1>6. ASSUME NEW t \in Slots, Return(t) PROVE IInv'
  BY <1>6, SwitchKeeps DEF Return, delProcess
<1>7. ASSUME NEW t \in Slots, Yield(t) PROVE IInv'
  BY <1>7, SwitchKeeps DEF Yield, clientVars
<1>8. ASSUME NEW t \in Slots, WaitStep(t) PROVE IInv'
  BY <1>8, SwitchKeeps
     DEF WaitStep, WaitTimesOut, WaitPolls, WaitReturns, WaitYields, LeaveWait, schedVars
<1>9. ASSUME NEW t \in Slots, NEW i \in Slots,
             Kill(t, i) \/ SuspendThread(t, i) \/ Restart(t, i)
      PROVE  IInv'
  BY <1>9, SwitchKeeps DEF Kill, SuspendThread, Restart, setFlags, clientVars
<1>10. ASSUME NEW t \in Slots, NEW i \in Slots, NEW ms \in TIMEOUTS, WaitBegins(t, i, ms)
       PROVE  IInv'
  BY <1>10, SwitchKeeps DEF WaitBegins, schedVars
<1>11. CASE UNCHANGED vars
  BY <1>11, SwitchKeeps DEF vars, schedVars, clientVars
<1> QED BY <1>1, <1>2, <1>3, <1>4, <1>5, <1>6, <1>7, <1>8, <1>9, <1>10, <1>11 DEF Next

-----------------------------------------------------------------------------
\* IInv is an invariant of every behaviour of the library's callers.
THEOREM Invariant == Spec => []IInv
BY InitInv, InvStep, PTL DEF Spec

\* No other thread runs while a Suspend scope or a stop() is open, whatever its
\* thread calls meanwhile, addThread above all.
THEOREM ScopesAreExclusive == Spec => []ScopeIsExclusive
<1>1. IInv => ScopeIsExclusive
  BY DEF IInv, ScopesOf, ScopeIsExclusive
<1> QED BY <1>1, Invariant, PTL

-----------------------------------------------------------------------------
(***************************************************************************)
(* Types.  thread_count does not become negative because every thread that *)
(* can still return has been counted once.                                 *)
(***************************************************************************)

Places == {"none", "run", "poll", "read", "done"}

ClientTypes ==
    /\ pc \in [Slots -> Places]
    /\ saved \in [Slots -> Seq(SystemStates)]
    /\ \A t \in Slots : Len(saved[t]) <= MAX_NEST
    /\ target \in [Slots -> Slots]
    /\ limit \in [Slots -> TIMEOUTS \union {0}]
    /\ elapsed \in [Slots -> Nat]
    /\ \A t \in Slots : elapsed[t] <= limit[t] + 1

\* The threads that may return, and hence take one off the count.
MayReturn == {t \in Slots \ {0} : pc[t] \in {"run", "poll", "read"}}

CountInv ==
    /\ thread_count \in Int
    /\ thread_count <= MAX_COUNT
    /\ Cardinality(MayReturn) <= thread_count

TInv == SchedTypeOK /\ ClientTypes /\ CountInv

\* Slots are finitely many, and so are the threads that may return.
LEMMA MayReturnFinite == IsFiniteSet(MayReturn) /\ Cardinality(MayReturn) \in Nat
<1>1. IsFiniteSet(Slots)
  BY ThreadConstants, FS_Interval DEF Slots
<1>2. MayReturn \in SUBSET Slots
  BY DEF MayReturn
<1>3. IsFiniteSet(MayReturn)
  BY <1>1, <1>2, FS_Subset
<1> QED BY <1>3, FS_CardinalityType

\* A step that lets nobody new return and leaves the count alone.
LEMMA CountStays ==
    ASSUME CountInv, MayReturn' \subseteq MayReturn, thread_count' = thread_count
    PROVE  CountInv'
<1>1. MayReturn' \in SUBSET MayReturn
  OBVIOUS
<1>2. Cardinality(MayReturn') <= Cardinality(MayReturn) /\ Cardinality(MayReturn') \in Nat
  BY <1>1, MayReturnFinite, FS_Subset, FS_CardinalityType
<1> QED BY <1>2, MayReturnFinite DEF CountInv

\* The types hold when only thread 0 exists.
LEMMA InitTypes == Init => TInv
<1> SUFFICES ASSUME Init PROVE TInv
  OBVIOUS
<1>1. SchedTypeOK
  BY ThreadConstants, SlotFacts DEF Init, SchedInit, SchedTypeOK, SystemStates, ThreadStates
<1>2. ClientTypes
  <2>1. << >> \in Seq(SystemStates) /\ Len(<< >>) = 0
    OBVIOUS
  <2> QED BY <2>1, ClientConstants, SlotFacts DEF Init, ClientTypes, Places
<1>3. CountInv
  <2>1. MayReturn = {}
    BY DEF Init, MayReturn
  <2> QED BY <2>1, FS_EmptySet, ClientConstants DEF Init, SchedInit, CountInv
<1> QED BY <1>1, <1>2, <1>3 DEF TInv

\* Only the scopes move.
LEMMA ScopeKeepsTypes ==
    ASSUME TInv, NEW t \in Slots, OpenSuspend(t) \/ Stop(t) \/ Close(t) PROVE TInv'
<1>1. /\ currentActive' \in SystemStates
      /\ saved' \in [Slots -> Seq(SystemStates)]
      /\ \A u \in Slots : Len(saved'[u]) <= MAX_NEST
  <2>1. CASE OpenSuspend(t) \/ Stop(t)
    <3>1. /\ Len(saved[t]) < MAX_NEST
          /\ saved' = [saved EXCEPT ![t] = Append(saved[t], currentActive)]
          /\ currentActive' \in {ZERO, STOPPED}
      BY <2>1 DEF OpenSuspend, Stop, Open
    <3>2. saved[t] \in Seq(SystemStates) /\ currentActive \in SystemStates
      BY DEF TInv, ClientTypes, SchedTypeOK
    <3>3. /\ Append(saved[t], currentActive) \in Seq(SystemStates)
          /\ Len(Append(saved[t], currentActive)) = Len(saved[t]) + 1
          /\ Len(saved[t]) \in Nat
      BY <3>2
    <3>4. saved' \in [Slots -> Seq(SystemStates)] /\ currentActive' \in SystemStates
      BY <3>1, <3>3 DEF TInv, ClientTypes, SystemStates
    <3>5. \A u \in Slots : Len(saved'[u]) <= MAX_NEST
      BY <3>1, <3>3, ClientConstants DEF TInv, ClientTypes
    <3> QED BY <3>4, <3>5
  <2>2. CASE Close(t)
    <3> DEFINE n == Len(saved[t])
    <3>1. /\ saved[t] # << >> /\ currentActive' = saved[t][n]
          /\ saved' = [saved EXCEPT ![t] = SubSeq(saved[t], 1, n - 1)]
      BY <2>2 DEF Close
    <3>2. saved[t] \in Seq(SystemStates) /\ n \in Nat /\ n > 0 /\ n <= MAX_NEST
      BY <3>1 DEF TInv, ClientTypes
    <3>3. /\ SubSeq(saved[t], 1, n - 1) \in Seq(SystemStates)
          /\ Len(SubSeq(saved[t], 1, n - 1)) = n - 1
          /\ saved[t][n] \in SystemStates
      BY <3>2
    <3>4. saved' \in [Slots -> Seq(SystemStates)] /\ currentActive' \in SystemStates
      BY <3>1, <3>3 DEF TInv, ClientTypes
    <3>5. \A u \in Slots : Len(saved'[u]) <= MAX_NEST
      BY <3>1, <3>2, <3>3, ClientConstants DEF TInv, ClientTypes
    <3> QED BY <3>4, <3>5
  <2> QED BY <2>1, <2>2
<1>2. UNCHANGED <<current_thread, currentCount, flags, thread_count, pc, target, limit, elapsed>>
  BY DEF OpenSuspend, Stop, Open, Close
<1>3. CountInv'
  BY <1>2, CountStays DEF TInv, MayReturn
<1> QED BY <1>1, <1>2, <1>3 DEF TInv, SchedTypeOK, ClientTypes

\* addThread counts the thread it makes runnable.
LEMMA AddKeepsAllTypes ==
    ASSUME TInv, NEW t \in Slots, AddThread(t) PROVE TInv'
<1>1. PICK i \in Slots :
        /\ addThreadIn(i)
        /\ pc' = [pc EXCEPT ![i] = "run"]
        /\ saved' = IF i = t THEN saved ELSE [saved EXCEPT ![i] = << >>]
        /\ target' = [target EXCEPT ![i] = 0]
        /\ limit' = [limit EXCEPT ![i] = 0]
        /\ elapsed' = [elapsed EXCEPT ![i] = 0]
  BY DEF AddThread
<1>2. SchedTypeOK'
  BY <1>1, AddKeepsTypes DEF TInv
<1>3. ClientTypes'
  <2>1. << >> \in Seq(SystemStates) /\ Len(<< >>) = 0
    OBVIOUS
  <2>2. pc' \in [Slots -> Places] /\ target' \in [Slots -> Slots]
    BY <1>1, SlotFacts DEF TInv, ClientTypes, Places
  <2>3. /\ saved' \in [Slots -> Seq(SystemStates)]
        /\ \A u \in Slots : Len(saved'[u]) <= MAX_NEST
    BY <1>1, <2>1, ClientConstants DEF TInv, ClientTypes
  <2>4. /\ limit' \in [Slots -> TIMEOUTS \union {0}]
        /\ elapsed' \in [Slots -> Nat]
        /\ \A u \in Slots : elapsed'[u] <= limit'[u] + 1
    BY <1>1 DEF TInv, ClientTypes
  <2> QED BY <2>2, <2>3, <2>4 DEF ClientTypes
<1>4. CountInv'
  <2>1. thread_count' = thread_count + 1 /\ thread_count < MAX_COUNT
    BY <1>1 DEF AddThread, addThreadIn
  <2>2. MayReturn' \in SUBSET (MayReturn \union {i})
    BY <1>1 DEF MayReturn, TInv, ClientTypes
  <2>3. /\ IsFiniteSet(MayReturn \union {i})
        /\ Cardinality(MayReturn \union {i}) <= Cardinality(MayReturn) + 1
        /\ Cardinality(MayReturn \union {i}) \in Nat
    <3>1. IsFiniteSet(MayReturn)
      BY MayReturnFinite
    <3>2. /\ IsFiniteSet(MayReturn \union {i})
          /\ Cardinality(MayReturn \union {i})
               = IF i \in MayReturn THEN Cardinality(MayReturn) ELSE Cardinality(MayReturn) + 1
      BY <3>1, FS_AddElement
    <3> QED BY <3>2, MayReturnFinite
  <2>4. /\ Cardinality(MayReturn') <= Cardinality(MayReturn \union {i})
        /\ Cardinality(MayReturn') \in Nat
    BY <2>2, <2>3, FS_Subset, FS_CardinalityType
  <2> QED BY <2>1, <2>3, <2>4, MayReturnFinite, ClientConstants DEF TInv, CountInv
<1> QED BY <1>2, <1>3, <1>4 DEF TInv

\* A thread that returns was counted, and can return no more.
LEMMA ReturnKeepsTypes ==
    ASSUME TInv, NEW t \in Slots, Return(t) PROVE TInv'
<1>1. /\ t # 0 /\ pc[t] = "run"
      /\ pc' = [pc EXCEPT ![t] = "done"]
      /\ flags' = [flags EXCEPT ![t] = ENDED]
      /\ thread_count' = thread_count - 1
      /\ UNCHANGED <<currentActive, current_thread, currentCount, saved, target, limit, elapsed>>
  BY DEF Return, Runs, delProcess
<1>2. thread_count \in Int
  BY DEF TInv, CountInv
<1>3. SchedTypeOK'
  BY <1>1, <1>2 DEF TInv, SchedTypeOK, ThreadStates
<1>4. ClientTypes'
  BY <1>1 DEF TInv, ClientTypes, Places
<1>5. CountInv'
  <2>1. MayReturn' = MayReturn \ {t} /\ t \in MayReturn
    BY <1>1 DEF MayReturn, TInv, ClientTypes
  <2>2. Cardinality(MayReturn') = Cardinality(MayReturn) - 1
    BY <2>1, MayReturnFinite, FS_RemoveElement
  <2> QED BY <1>1, <2>2, MayReturnFinite, ClientConstants DEF TInv, CountInv
<1> QED BY <1>3, <1>4, <1>5 DEF TInv

\* wait moves its caller between its places and nothing else.
LEMMA WaitKeepsTypes ==
    ASSUME TInv, NEW t \in Slots,
           WaitStep(t) \/ \E i \in Slots, ms \in TIMEOUTS : WaitBegins(t, i, ms)
    PROVE  TInv'
<1>1. /\ pc[t] \in {"run", "poll", "read"}
      /\ \E place \in {"run", "poll", "read"} : pc' = [pc EXCEPT ![t] = place]
  BY DEF WaitStep, WaitTimesOut, WaitPolls, WaitReturns, WaitYields, LeaveWait, WaitBegins, Runs
<1>2. UNCHANGED <<saved, thread_count>>
  BY DEF WaitStep, WaitTimesOut, WaitPolls, WaitReturns, WaitYields, LeaveWait, WaitBegins, schedVars
<1>3. SchedTypeOK'
  <2>1. CASE WaitYields(t)
    BY <2>1, YieldKeepsTypes DEF WaitYields, TInv
  <2>2. CASE UNCHANGED schedVars
    BY <2>2 DEF schedVars, TInv, SchedTypeOK
  <2> QED BY <2>1, <2>2 DEF WaitStep, WaitTimesOut, WaitPolls, WaitReturns, LeaveWait, WaitBegins
<1>4. /\ target' \in [Slots -> Slots]
      /\ limit' \in [Slots -> TIMEOUTS \union {0}]
      /\ elapsed' \in [Slots -> Nat]
      /\ \A u \in Slots : elapsed'[u] <= limit'[u] + 1
  <2>1. CASE UNCHANGED <<target, limit, elapsed>>
    BY <2>1 DEF TInv, ClientTypes
  <2>2. CASE \E i \in Slots, ms \in TIMEOUTS \union {0} :
               /\ target' = [target EXCEPT ![t] = i]
               /\ limit' = [limit EXCEPT ![t] = ms]
               /\ elapsed' = [elapsed EXCEPT ![t] = 0]
    BY <2>2, ClientConstants DEF TInv, ClientTypes
  <2> QED BY <2>1, <2>2, SlotFacts
          DEF WaitStep, WaitTimesOut, WaitPolls, WaitReturns, WaitYields, LeaveWait, WaitBegins
<1>5. pc' \in [Slots -> Places] /\ MayReturn' \subseteq MayReturn
  BY <1>1 DEF TInv, ClientTypes, Places, MayReturn
<1>6. CountInv'
  BY <1>2, <1>5, CountStays DEF TInv
<1> QED BY <1>2, <1>3, <1>4, <1>5, <1>6 DEF TInv, ClientTypes

\* A millisecond counts for the waits whose limit has not passed.
LEMMA MillisKeepsTypes == ASSUME TInv, Millis PROVE TInv'
<1>1. elapsed' = [t \in Slots |-> IF limit[t] # 0 /\ elapsed[t] <= limit[t]
                                  THEN elapsed[t] + 1 ELSE elapsed[t]]
      /\ UNCHANGED <<schedVars, pc, saved, target, limit>>
  BY DEF Millis
<1>2. limit \in [Slots -> Nat]
  <2>1. TIMEOUTS \union {0} \subseteq Nat
    BY ClientConstants
  <2>2. limit \in [Slots -> TIMEOUTS \union {0}]
    BY DEF TInv, ClientTypes
  <2> QED BY <2>1, <2>2
<1>3. elapsed' \in [Slots -> Nat] /\ \A t \in Slots : elapsed'[t] <= limit'[t] + 1
  BY <1>1, <1>2 DEF TInv, ClientTypes
<1>4. CountInv'
  BY <1>1, CountStays DEF TInv, MayReturn, schedVars
<1> QED BY <1>1, <1>3, <1>4 DEF TInv, ClientTypes, SchedTypeOK, schedVars

\* A step of the scheduler alone.
LEMMA SchedKeepsTypes ==
    ASSUME TInv, SchedTypeOK', UNCHANGED <<thread_count, clientVars>> PROVE TInv'
<1>1. CountInv'
  BY CountStays DEF TInv, MayReturn, clientVars
<1> QED BY <1>1 DEF TInv, ClientTypes, clientVars

\* Every step keeps the types.
LEMMA TypeStep == TInv /\ [Next]_vars => TInv'
<1> SUFFICES ASSUME TInv, [Next]_vars PROVE TInv'
  OBVIOUS
<1>1. CASE Tick
  BY <1>1, TickKeepsTypes, SchedKeepsTypes DEF Tick, TickCountsDown, TickSwitches, TInv
<1>2. CASE Millis
  BY <1>2, MillisKeepsTypes
<1>3. ASSUME NEW t \in Slots, OpenSuspend(t) \/ Stop(t) \/ Close(t) PROVE TInv'
  BY <1>3, ScopeKeepsTypes
<1>4. ASSUME NEW t \in Slots, AddThread(t) PROVE TInv'
  BY <1>4, AddKeepsAllTypes
<1>5. ASSUME NEW t \in Slots, AddThreadFails(t) PROVE TInv'
  BY <1>5, SchedKeepsTypes
     DEF AddThreadFails, addThreadFails, ActiveAfterFailedAdd, TInv, SchedTypeOK, SystemStates
<1>6. ASSUME NEW t \in Slots, Return(t) PROVE TInv'
  BY <1>6, ReturnKeepsTypes
<1>7. ASSUME NEW t \in Slots, Yield(t) PROVE TInv'
  BY <1>7, YieldKeepsTypes, SchedKeepsTypes DEF Yield, TInv
<1>8. ASSUME NEW t \in Slots, WaitStep(t) PROVE TInv'
  BY <1>8, WaitKeepsTypes
<1>9. ASSUME NEW t \in Slots, NEW i \in Slots, Kill(t, i) \/ SuspendThread(t, i) \/ Restart(t, i)
      PROVE  TInv'
  <2>1. PICK s \in ThreadStates : setFlags(i, s)
    BY <1>9 DEF Kill, SuspendThread, Restart, ThreadStates
  <2>2. SchedTypeOK'
    BY <2>1, SetFlagsKeepsTypes DEF TInv
  <2> QED BY <1>9, <2>1, <2>2, SchedKeepsTypes DEF Kill, SuspendThread, Restart, setFlags
<1>10. ASSUME NEW t \in Slots, NEW i \in Slots, NEW ms \in TIMEOUTS, WaitBegins(t, i, ms)
       PROVE  TInv'
  BY <1>10, WaitKeepsTypes
<1>11. CASE UNCHANGED vars
  BY <1>11, SchedKeepsTypes DEF vars, schedVars, TInv, SchedTypeOK
<1> QED BY <1>1, <1>2, <1>3, <1>4, <1>5, <1>6, <1>7, <1>8, <1>9, <1>10, <1>11 DEF Next

\* The scheduler and its callers keep their types, thread_count is never negative.
THEOREM TypeCorrect == Spec => []TypeOK
<1>1. TInv => TypeOK
  BY MayReturnFinite DEF TInv, ClientTypes, CountInv, TypeOK, Places
<1> QED BY <1>1, InitTypes, TypeStep, PTL DEF Spec

-----------------------------------------------------------------------------
(***************************************************************************)
(* What a step may never do.                                               *)
(***************************************************************************)

\* Opening a scope keeps the state that the outermost one restores.
LEMMA OpenKeepsBase ==
    ASSUME IInv, BaseState = STARTED, NEW t \in Slots, NEW s \in Inside, Open(t, s)
    PROVE  BaseState' = STARTED
<1>1. /\ current_thread' = t /\ current_thread = t
      /\ saved' = [saved EXCEPT ![t] = Append(saved[t], currentActive)]
  BY DEF Open, Runs
<1>2. saved[t] \in Seq(SystemStates) /\ currentActive \in SystemStates
  BY DEF IInv
<1>3. saved'[t] = Append(saved[t], currentActive)
  BY <1>1 DEF IInv
<1>4. saved'[t] # << >>
  BY <1>2, <1>3
<1>5. CASE saved[t] = << >>
  <2>1. saved'[t][1] = currentActive
    BY <1>2, <1>3, <1>5
  <2> QED BY <1>1, <1>4, <1>5, <2>1 DEF BaseState
<1>6. CASE saved[t] # << >>
  <2>1. saved'[t][1] = saved[t][1]
    BY <1>2, <1>3, <1>6
  <2> QED BY <1>1, <1>4, <1>6, <2>1 DEF BaseState
<1> QED BY <1>5, <1>6

\* So does closing one, and the outermost one restores it.
LEMMA CloseKeepsBase ==
    ASSUME IInv, BaseState = STARTED, NEW t \in Slots, Close(t)
    PROVE  BaseState' = STARTED
<1> DEFINE n == Len(saved[t])
<1>1. /\ current_thread' = t /\ current_thread = t /\ saved[t] # << >>
      /\ currentActive' = saved[t][n]
      /\ saved' = [saved EXCEPT ![t] = SubSeq(saved[t], 1, n - 1)]
  BY DEF Close, Runs
<1>2. saved[t] \in Seq(SystemStates) /\ n \in Nat /\ n > 0
  BY <1>1 DEF IInv
<1>3. saved'[t] = SubSeq(saved[t], 1, n - 1) /\ saved[t][1] = STARTED
  BY <1>1 DEF IInv, BaseState
<1>4. CASE n = 1
  <2>1. saved'[t] = << >>
    BY <1>2, <1>3, <1>4
  <2> QED BY <1>1, <1>3, <1>4, <2>1 DEF BaseState
<1>5. CASE n # 1
  <2>1. saved'[t] # << >> /\ saved'[t][1] = saved[t][1]
    <3>1. n - 1 \in Nat /\ 1 \in 1..(n - 1)
      <4>1. \A m \in Nat : m > 0 /\ m # 1 => m - 1 \in Nat /\ 1 \in 1..(m - 1)
        OBVIOUS
      <4> HIDE DEF n
      <4> QED BY <1>2, <1>5, <4>1
    <3>2. /\ Len(SubSeq(saved[t], 1, n - 1)) = n - 1
          /\ \A k \in 1..(n - 1) : SubSeq(saved[t], 1, n - 1)[k] = saved[t][k]
      BY <1>2, <3>1
    <3>3. SubSeq(saved[t], 1, n - 1) # << >>
      <4>1. n - 1 # 0
        <5> HIDE DEF n
        <5> QED BY <3>1
      <4>2. Len(<< >>) = 0
        OBVIOUS
      <4> QED BY <3>2, <4>1, <4>2, Zenon
    <3> QED BY <1>3, <3>1, <3>2, <3>3
  <2> QED BY <1>1, <1>3, <2>1 DEF BaseState
<1> QED BY <1>4, <1>5

\* addThread starts the system again when it found it started, and leaves it as it
\* was inside a scope.
LEMMA AddKeepsBase ==
    ASSUME IInv, current_thread \in Slots, BaseState = STARTED, NEW t \in Slots,
           AddThread(t) \/ AddThreadFails(t)
    PROVE  BaseState' = STARTED
<1>1. /\ current_thread' = current_thread /\ current_thread = t
      /\ currentActive = STARTED => currentActive' = STARTED
  BY DEF AddThread, AddThreadFails, addThreadIn, addThreadFails, ActiveAfterAdd,
         ActiveAfterFailedAdd, Runs
<1>2. saved'[t] = saved[t]
  <2>1. CASE AddThread(t)
    <3>1. PICK i \in Slots :
            saved' = IF i = t THEN saved ELSE [saved EXCEPT ![i] = << >>]
      BY <2>1 DEF AddThread
    <3> QED BY <3>1 DEF IInv
  <2>2. CASE AddThreadFails(t)
    BY <2>2 DEF AddThreadFails, clientVars
  <2> QED BY <2>1, <2>2
<1> QED BY <1>1, <1>2 DEF BaseState

\* The core changes hands only outside every scope.
LEMMA SwitchKeepsBase ==
    ASSUME IInv, current_thread \in Slots, current_thread' \in Slots, BaseState = STARTED,
           UNCHANGED <<currentActive, saved>>,
           yieldCore \/ TickCountsDown \/ TickSwitches \/ UNCHANGED current_thread
    PROVE  BaseState' = STARTED
<1>1. CASE currentActive = STARTED
  <2>1. saved[current_thread'] = << >>
    BY <1>1, NoScopeWhenStarted
  <2> QED BY <1>1, <2>1 DEF BaseState
<1>2. CASE currentActive # STARTED
  <2>1. current_thread' = current_thread
    BY <1>2 DEF yieldCore, TickCountsDown, TickSwitches
  <2> QED BY <2>1 DEF BaseState
<1> QED BY <1>1, <1>2

\* No path through addThread, del_process or a nest of scopes leaves preemption off
\* once the system is started.
THEOREM PreemptionStays == Spec => StartedForGood
<1>1. ASSUME IInv, TInv, TInv', [Next]_vars, BaseState = STARTED
      PROVE  BaseState' = STARTED
  <2>1. current_thread \in Slots /\ current_thread' \in Slots
    BY <1>1 DEF TInv, SchedTypeOK
  <2>2. CASE Tick
    BY <1>1, <2>1, <2>2, SwitchKeepsBase DEF Tick, TickCountsDown, TickSwitches, clientVars
  <2>3. CASE Millis
    BY <1>1, <2>1, <2>3, SwitchKeepsBase DEF Millis, schedVars
  <2>4. ASSUME NEW t \in Slots, OpenSuspend(t) \/ Stop(t) PROVE BaseState' = STARTED
    BY <1>1, <2>4, OpenKeepsBase DEF OpenSuspend, Stop, Inside
  <2>5. ASSUME NEW t \in Slots, Close(t) PROVE BaseState' = STARTED
    BY <1>1, <2>5, CloseKeepsBase
  <2>6. ASSUME NEW t \in Slots, AddThread(t) \/ AddThreadFails(t) PROVE BaseState' = STARTED
    BY <1>1, <2>1, <2>6, AddKeepsBase
  <2>7. ASSUME NEW t \in Slots, Return(t) PROVE BaseState' = STARTED
    BY <1>1, <2>1, <2>7, SwitchKeepsBase DEF Return, delProcess
  <2>8. ASSUME NEW t \in Slots, Yield(t) PROVE BaseState' = STARTED
    BY <1>1, <2>1, <2>8, SwitchKeepsBase DEF Yield, clientVars
  <2>9. ASSUME NEW t \in Slots, WaitStep(t) PROVE BaseState' = STARTED
    BY <1>1, <2>1, <2>9, SwitchKeepsBase
       DEF WaitStep, WaitTimesOut, WaitPolls, WaitReturns, WaitYields, LeaveWait, schedVars
  <2>10. ASSUME NEW t \in Slots, NEW i \in Slots,
                Kill(t, i) \/ SuspendThread(t, i) \/ Restart(t, i)
         PROVE  BaseState' = STARTED
    BY <1>1, <2>1, <2>10, SwitchKeepsBase DEF Kill, SuspendThread, Restart, setFlags, clientVars
  <2>11. ASSUME NEW t \in Slots, NEW i \in Slots, NEW ms \in TIMEOUTS, WaitBegins(t, i, ms)
         PROVE  BaseState' = STARTED
    BY <1>1, <2>1, <2>11, SwitchKeepsBase DEF WaitBegins, schedVars
  <2>12. CASE UNCHANGED vars
    BY <1>1, <2>1, <2>12, SwitchKeepsBase DEF vars, schedVars, clientVars
  <2> QED BY <1>1, <2>2, <2>3, <2>4, <2>5, <2>6, <2>7, <2>8, <2>9, <2>10, <2>11, <2>12 DEF Next
<1>2. IInv /\ TInv /\ TInv' /\ [Next]_vars => [BaseState = STARTED => BaseState' = STARTED]_vars
  BY <1>1
<1>3. Spec => []TInv
  BY InitTypes, TypeStep, PTL DEF Spec
<1> QED BY <1>2, <1>3, Invariant, PTL DEF Spec, StartedForGood

\* A thread that someone else killed or suspended does nothing, and is not
\* dispatched, until it is made RUNNING again.
THEOREM StoppedThreadsRest == Spec => StoppedStandsStill
<1> DEFINE Rests(t) ==
      (flags[t] # RUNNING /\ flags'[t] # RUNNING /\ current_thread # t)
        => UNCHANGED <<pc[t], saved[t]>> /\ current_thread' # t
<1>1. ASSUME TInv, [Next]_vars, NEW t \in Slots \ {0}, flags[t] # RUNNING,
             flags'[t] # RUNNING, current_thread # t
      PROVE  pc'[t] = pc[t] /\ saved'[t] = saved[t] /\ current_thread' # t
  <2> DEFINE Still == pc'[t] = pc[t] /\ saved'[t] = saved[t] /\ current_thread' # t
  <2>1. /\ current_thread \in Slots
        /\ NextThread(current_thread, flags) # t
    BY <1>1, DispatchedRuns DEF TInv, SchedTypeOK
  <2>2. pc \in [Slots -> Places] /\ saved \in [Slots -> Seq(SystemStates)]
        /\ flags \in [Slots -> ThreadStates]
    BY <1>1 DEF TInv, ClientTypes, SchedTypeOK
  <2>3. CASE Tick
    BY <1>1, <2>1, <2>3 DEF Tick, TickCountsDown, TickSwitches, getNextThread, clientVars
  <2>4. CASE Millis
    BY <1>1, <2>4 DEF Millis, schedVars
  <2>5. ASSUME NEW u \in Slots, OpenSuspend(u) \/ Stop(u) \/ Close(u) PROVE Still
    BY <1>1, <2>2, <2>5 DEF OpenSuspend, Stop, Open, Close, Runs
  <2>6. ASSUME NEW u \in Slots, AddThread(u) PROVE Still
    <3>1. PICK i \in Slots :
            /\ addThreadIn(i)
            /\ pc' = [pc EXCEPT ![i] = "run"]
            /\ saved' = IF i = u THEN saved ELSE [saved EXCEPT ![i] = << >>]
      BY <2>6 DEF AddThread
    <3>2. i # t /\ current_thread' = current_thread
      BY <1>1, <2>2, <3>1 DEF addThreadIn
    <3> QED BY <1>1, <2>2, <3>1, <3>2
  <2>7. ASSUME NEW u \in Slots, AddThreadFails(u) PROVE Still
    BY <1>1, <2>7 DEF AddThreadFails, addThreadFails, clientVars
  <2>8. ASSUME NEW u \in Slots, Return(u) PROVE Still
    BY <1>1, <2>2, <2>8 DEF Return, Runs, delProcess
  <2>9. ASSUME NEW u \in Slots, Yield(u) PROVE Still
    BY <1>1, <2>1, <2>9 DEF Yield, yieldCore, getNextThread, clientVars
  <2>10. ASSUME NEW u \in Slots, WaitStep(u) PROVE Still
    <3>1. CASE WaitYields(u)
      BY <1>1, <2>1, <2>2, <3>1 DEF WaitYields, yieldCore, getNextThread
    <3>2. CASE WaitTimesOut(u) \/ WaitPolls(u) \/ WaitReturns(u)
      BY <1>1, <2>2, <3>2 DEF WaitTimesOut, WaitPolls, WaitReturns, LeaveWait, schedVars
    <3> QED BY <2>10, <3>1, <3>2 DEF WaitStep
  <2>11. ASSUME NEW u \in Slots, NEW i \in Slots,
                Kill(u, i) \/ SuspendThread(u, i) \/ Restart(u, i)
         PROVE  Still
    BY <1>1, <2>11 DEF Kill, SuspendThread, Restart, setFlags, clientVars
  <2>12. ASSUME NEW u \in Slots, NEW i \in Slots, NEW ms \in TIMEOUTS, WaitBegins(u, i, ms)
         PROVE  Still
    BY <1>1, <2>2, <2>12 DEF WaitBegins, Runs, schedVars
  <2>13. CASE UNCHANGED vars
    BY <1>1, <2>13 DEF vars, schedVars, clientVars
  <2> QED BY <1>1, <2>3, <2>4, <2>5, <2>6, <2>7, <2>8, <2>9, <2>10, <2>11, <2>12, <2>13 DEF Next
<1>2. TInv /\ [Next]_vars => [\A t \in Slots \ {0} : Rests(t)]_vars
  BY <1>1
<1>3. Spec => []TInv
  BY InitTypes, TypeStep, PTL DEF Spec
<1> QED BY <1>2, <1>3, PTL DEF Spec, StoppedStandsStill

=============================================================================
