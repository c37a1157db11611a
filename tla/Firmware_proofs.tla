--------------------------- MODULE Firmware_proofs ---------------------------
(***************************************************************************)
(* The order of setup() keeps the Wire library and the vector of tasks to  *)
(* one thread, for any number of slots, fans and addresses, whatever fails *)
(* on the bus and wherever the timer preempts.                             *)
(***************************************************************************)
EXTENDS Firmware, FiniteSetTheorems, WellFoundedInduction, TLAPS

(***************************************************************************)
(* The scheduler's operations.                                             *)
(***************************************************************************)

\* A set of naturals that is not empty has a least element: the slot
\* that a scan takes.
LEMMA LeastNatural ==
    ASSUME NEW S \in SUBSET Nat, S # {}
    PROVE  \E x \in S : \A y \in S : x <= y
<1>1. PICK x \in S : \A y \in S : <<y, x>> \notin OpToRel(<, Nat)
  BY NatLessThanWellFounded, WFMin, Zenon
<1>2. ASSUME NEW y \in S PROVE x <= y
  <2>1. x \in Nat /\ y \in Nat
    OBVIOUS
  <2>2. ~(y < x)
    BY <1>1, <2>1, Zenon DEF OpToRel
  <2> QED BY <2>1, <2>2
<1> QED BY <1>2

\* Slot 0 is a slot, and slots are naturals.
LEMMA SlotFacts == 0 \in Slots /\ Slots \subseteq Nat
BY ThreadConstants DEF Slots

\* The scan of getNextThread returns a slot of the table, never the index one
\* past it, whatever the states of the threads.
LEMMA NextThreadIsSlot ==
    ASSUME NEW i \in Slots, NEW fl PROVE NextThread(i, fl) \in Slots
<1>1. CASE RunnableAfter(i, fl) = {}
  BY <1>1, SlotFacts DEF NextThread
<1>2. CASE RunnableAfter(i, fl) # {}
  <2> DEFINE R == RunnableAfter(i, fl)
  <2>1. R \subseteq Slots /\ R \in SUBSET Nat
    BY SlotFacts DEF RunnableAfter
  <2>2. \E x \in R : \A y \in R : x <= y
    BY <1>2, <2>1, LeastNatural
  <2>3. Min(R) \in R
    BY <2>2 DEF Min
  <2> QED BY <1>2, <2>1, <2>3 DEF NextThread
<1> QED BY <1>1, <1>2

\* addThread takes a free slot, never slot 0.
LEMMA AddTakesFreeSlot ==
    ASSUME NEW i, addThreadIn(i) PROVE i \in FreeSlots
<1>1. FreeSlots \in SUBSET Nat
  BY SlotFacts DEF FreeSlots
<1>2. \E x \in FreeSlots : \A y \in FreeSlots : x <= y
  BY <1>1, LeastNatural DEF addThreadIn
<1>3. Min(FreeSlots) \in FreeSlots
  BY <1>2 DEF Min
<1> QED BY <1>3 DEF addThreadIn

\* A tick of the timer keeps the scheduler's types.
LEMMA TickKeepsTypes ==
    ASSUME SchedTypeOK, TickCountsDown \/ TickSwitches PROVE SchedTypeOK'
<1>1. CASE TickCountsDown
  BY <1>1, ThreadConstants DEF SchedTypeOK, TickCountsDown
<1>2. CASE TickSwitches
  BY <1>2, ThreadConstants, NextThreadIsSlot
     DEF SchedTypeOK, TickSwitches, getNextThread
<1> QED BY <1>1, <1>2

\* yield() keeps the scheduler's types.
LEMMA YieldKeepsTypes ==
    ASSUME SchedTypeOK, yieldCore, UNCHANGED <<currentActive, flags, thread_count>>
    PROVE  SchedTypeOK'
<1>1. CASE currentActive = STARTED
  BY <1>1, ThreadConstants, NextThreadIsSlot DEF SchedTypeOK, yieldCore, getNextThread
<1>2. CASE currentActive # STARTED
  BY <1>2 DEF SchedTypeOK, yieldCore
<1> QED BY <1>1, <1>2

\* addThread keeps the scheduler's types.
LEMMA AddKeepsTypes ==
    ASSUME SchedTypeOK, NEW i \in Slots, addThreadIn(i) PROVE SchedTypeOK'
BY DEF SchedTypeOK, addThreadIn, ActiveAfterAdd, SystemStates, ThreadStates

-----------------------------------------------------------------------------

Booting == BootCalls \union {"add_task", "add_task_loop"}
Started0 == {"add_led_loop", "main"}
TaskPlaces == TaskCalls \union {"look"}

\* Thread 0 is in setup(); the other threads are where their functions go.
PlaceInv ==
    /\ pc \in [Slots -> Places]
    /\ pc[0] \in Booting \union Started0
    /\ \A t \in Slots \ {0} : pc[t] \in {"none"} \union TaskPlaces \union LedPlaces

\* A free slot has no thread; thread 0 is alone until it adds the task loop,
\* and only one thread runs the task loop.
AloneInv ==
    /\ flags \in [Slots -> ThreadStates]
    /\ \A i \in FreeSlots : pc[i] = "none"
    /\ pc[0] \in Booting => \A t \in Slots \ {0} : pc[t] = "none"
    /\ \A t, u \in Slots \ {0} :
          pc[t] \in TaskPlaces /\ pc[u] \in TaskPlaces => t = u

\* A thread inside a Wire call is at a place that makes one.
CallInv == inWire \subseteq {t \in Slots : pc[t] \in WireCalls}

AddedInv == pc[0] \in Started0 \union {"add_task_loop"} => added

IInv == PlaceInv /\ AloneInv /\ CallInv /\ AddedInv

\* All places are different.
USE DEF Booting, Started0, TaskPlaces, WireCalls, BootCalls, TaskCalls,
        SetupPlaces, LedPlaces, Places

-----------------------------------------------------------------------------
\* The invariant holds when setup() begins.
LEMMA InitInv == Init => IInv
<1> SUFFICES ASSUME Init PROVE IInv
  OBVIOUS
<1>1. flags \in [Slots -> ThreadStates]
  BY DEF Init, SchedInit, ThreadStates
<1>2. PlaceInv /\ CallInv /\ AddedInv
  BY SlotFacts DEF Init, ManagerInit, PlaceInv, CallInv, AddedInv
<1>3. AloneInv
  BY <1>1, SlotFacts DEF Init, AloneInv, FreeSlots
<1> QED BY <1>2, <1>3 DEF IInv

\* A thread that moves from one place of its procedure to another, or not at
\* all, and begins or ends a Wire call of its own.
Moves(t, from, to) ==
    /\ pc[t] = from
    /\ pc' = [pc EXCEPT ![t] = to]
    /\ flags' = flags

\* A move of thread 0 within the boot, to the addition of the task at most.
LEMMA BootKeeps ==
    ASSUME IInv, NEW from \in BootCalls, NEW to \in BootCalls \union {"add_task"},
           NEW t \in Slots, Moves(t, from, to), added' = added, inWire' = inWire \ {t}
    PROVE  IInv'
<1>1. t = 0
  BY DEF IInv, PlaceInv, Moves
<1>2. PlaceInv' /\ AloneInv'
  BY <1>1 DEF IInv, PlaceInv, AloneInv, FreeSlots, Moves
<1>3. CallInv' /\ AddedInv'
  BY <1>1, <1>2 DEF IInv, PlaceInv, CallInv, AddedInv, Moves
<1> QED BY <1>2, <1>3 DEF IInv

\* A move of the task loop.
LEMMA TaskKeeps ==
    ASSUME IInv, NEW from \in TaskPlaces, NEW to \in TaskPlaces,
           NEW t \in Slots, Moves(t, from, to), added' = added,
           inWire' = inWire \ {t} \/ (inWire' = inWire /\ from \notin WireCalls)
    PROVE  IInv'
<1>1. t # 0
  BY DEF IInv, PlaceInv, Moves
<1>2. PlaceInv' /\ AloneInv'
  BY <1>1, SlotFacts DEF IInv, PlaceInv, AloneInv, FreeSlots, Moves
<1>3. CallInv' /\ AddedInv'
  BY <1>1, <1>2, SlotFacts DEF IInv, PlaceInv, CallInv, AddedInv, Moves
<1> QED BY <1>2, <1>3 DEF IInv

\* A move of the loop that blinks the light.
LEMMA LedKeeps ==
    ASSUME IInv, NEW from \in LedPlaces, NEW to \in LedPlaces,
           NEW t \in Slots, Moves(t, from, to), added' = added, inWire' = inWire
    PROVE  IInv'
<1>1. t # 0
  BY DEF IInv, PlaceInv, Moves
<1>2. PlaceInv' /\ AloneInv'
  BY <1>1, SlotFacts DEF IInv, PlaceInv, AloneInv, FreeSlots, Moves
<1>3. CallInv' /\ AddedInv'
  BY <1>1, <1>2, SlotFacts DEF IInv, PlaceInv, CallInv, AddedInv, Moves
<1> QED BY <1>2, <1>3 DEF IInv

\* Whatever leaves the places, the flags, the calls and the tasks alone.
LEMMA StandsStillKeeps ==
    ASSUME IInv, UNCHANGED <<pc, flags, inWire, added>> PROVE IInv'
BY DEF IInv, PlaceInv, AloneInv, CallInv, AddedInv, FreeSlots

-----------------------------------------------------------------------------
\* The Wire calls of setup().
LEMMA BootStep == ASSUME IInv, NEW t \in Slots, Boot(t) PROVE IInv'
<1> USE DEF SetupNext, Goto, CallDone, Moves, Environment
<1>1. flags' = flags /\ added' = added /\ t \in inWire /\ inWire' = inWire \ {t}
  BY DEF Boot, schedVars, Probe, FirstCheck, FirstBegin, FirstMode, FirstSet,
         PsuDump, Command
<1>2. PICK from \in BootCalls : pc[t] = from
  BY DEF Boot, Probe, FirstCheck, FirstBegin, FirstMode, FirstSet, PsuDump
<1>3. \E to \in BootCalls \union {"add_task"} : pc' = [pc EXCEPT ![t] = to]
  <2>1. CASE Probe(t, SetupNext("init"))
    <3>1. CASE UNCHANGED pc
      <4>1. pc' = [pc EXCEPT ![t] = "probe"]
        BY <2>1, <3>1 DEF Probe, IInv, PlaceInv
      <4> QED BY <4>1
    <3>2. CASE pc' = [pc EXCEPT ![t] = "check"]
      BY <3>2
    <3> QED BY <2>1, <3>1, <3>2 DEF Probe
  <2>2. CASE FirstCheck(t, SetupNext("fans"))
    BY <2>2 DEF FirstCheck
  <2>3. CASE FirstBegin(t)
    BY <2>3 DEF FirstBegin, Command
  <2>4. CASE FirstMode(t)
    BY <2>4 DEF FirstMode, Command
  <2>5. CASE FirstSet(t, SetupNext("fans"))
    BY <2>5 DEF FirstSet, Command
  <2>6. CASE PsuDump(t, SetupNext("psu"))
    BY <2>6 DEF PsuDump
  <2> QED BY <2>1, <2>2, <2>3, <2>4, <2>5, <2>6 DEF Boot
<1> QED BY <1>1, <1>2, <1>3, BootKeeps

\* add_task and the two calls of addThread.
LEMMA SetupStep == ASSUME IInv, NEW t \in Slots, Setup(t) PROVE IInv'
<1> USE DEF SetupNext, Goto, Environment
<1>1. CASE AddTask(t)
  <2>1. t = 0
    BY <1>1 DEF AddTask, IInv, PlaceInv
  <2>2. PlaceInv' /\ AloneInv'
    BY <1>1, <2>1 DEF AddTask, IInv, PlaceInv, AloneInv, FreeSlots, schedVars
  <2>3. CallInv' /\ AddedInv'
    BY <1>1, <2>1, <2>2 DEF AddTask, IInv, PlaceInv, CallInv, AddedInv
  <2> QED BY <2>2, <2>3 DEF IInv
<1>2. ASSUME NEW place \in {"add_task_loop", "add_led_loop"},
             NEW function \in {"look", "led_on"},
             (place = "add_task_loop") <=> (function = "look"),
             AddLoop(t, place, function)
      PROVE  IInv'
  <2>1. PICK i \in Slots : /\ addThreadIn(i)
                           /\ pc' = [pc EXCEPT ![t] = SetupNext(place), ![i] = function]
    BY <1>2 DEF AddLoop
  <2>2. i # 0 /\ pc[i] = "none"
    BY <2>1, AddTakesFreeSlot DEF IInv, AloneInv, FreeSlots
  <2>3. t = 0 /\ pc[0] = place
    BY <1>2 DEF AddLoop, IInv, PlaceInv
  <2>4. /\ flags' = [flags EXCEPT ![i] = RUNNING]
        /\ added' = added /\ inWire' = inWire
    BY <1>2, <2>1 DEF AddLoop, addThreadIn
  <2>5. /\ pc'[0] \in Started0 /\ pc'[i] = function
        /\ \A u \in Slots \ {0, i} : pc'[u] = pc[u]
        /\ pc' \in [Slots -> Places]
    BY <2>1, <2>2, <2>3, SlotFacts DEF IInv, PlaceInv
  <2>6. PlaceInv'
    BY <2>5 DEF IInv, PlaceInv
  <2>7. flags' \in [Slots -> ThreadStates] /\ FreeSlots' \subseteq FreeSlots \ {i}
    BY <2>4, <2>2 DEF IInv, AloneInv, FreeSlots, ThreadStates, RUNNING, EMPTY, ENDED
  <2>8. \A j \in FreeSlots' : pc'[j] = "none"
    BY <2>5, <2>7 DEF IInv, AloneInv, FreeSlots
  <2>9. \A u, w \in Slots \ {0} :
           pc'[u] \in TaskPlaces /\ pc'[w] \in TaskPlaces => u = w
    <3>1. CASE place = "add_task_loop"
      BY <3>1, <2>3, <2>5 DEF IInv, AloneInv
    <3>2. CASE place = "add_led_loop"
      BY <3>2, <1>2, <2>5 DEF IInv, AloneInv
    <3> QED BY <3>1, <3>2
  <2>10. AloneInv'
    BY <2>5, <2>7, <2>8, <2>9 DEF AloneInv
  <2>11. CallInv' /\ AddedInv'
    BY <2>2, <2>3, <2>4, <2>5 DEF IInv, CallInv, AddedInv
  <2> QED BY <2>6, <2>10, <2>11 DEF IInv
<1> QED BY <1>1, <1>2 DEF Setup

\* The fan scan of the task loop.
LEMMA ScanStep == ASSUME IInv, NEW t \in Slots, FanScanDue(t) \/ FanScan(t) PROVE IInv'
<1> USE DEF Goto, CallDone, Moves, Environment
<1>1. CASE FanScanDue(t)
  <2>1. Moves(t, "look", "read") /\ added' = added /\ inWire' = inWire
    BY <1>1 DEF FanScanDue, schedVars
  <2> QED BY <2>1, TaskKeeps
<1>2. CASE FanScan(t)
  <2>1. flags' = flags /\ added' = added /\ inWire' = inWire \ {t}
    BY <1>2 DEF FanScan, schedVars, ScanRead, ScanBegin, ScanMode, ScanSet, Command
  <2>2. PICK from \in TaskPlaces : pc[t] = from
    BY <1>2 DEF FanScan, ScanRead, ScanBegin, ScanMode, ScanSet
  <2>3. \E to \in TaskPlaces : pc' = [pc EXCEPT ![t] = to]
    BY <1>2 DEF FanScan, ScanRead, ScanBegin, ScanMode, ScanSet, Command, PastFan
  <2> QED BY <2>1, <2>2, <2>3, TaskKeeps
<1> QED BY <1>1, <1>2

\* The light.
LEMMA LedStep == ASSUME IInv, NEW t \in Slots, LedWrite(t) \/ DelayEnds(t) PROVE IInv'
<1> USE DEF Goto, Moves, LedUnchanged, schedVars
<1>1. flags' = flags /\ added' = added /\ inWire' = inWire
  BY DEF LedWrite, DelayEnds
<1>2. PICK from \in LedPlaces : pc[t] = from
  BY DEF LedWrite, DelayEnds
<1>3. \E to \in LedPlaces : pc' = [pc EXCEPT ![t] = to]
  BY DEF LedWrite, DelayEnds
<1> QED BY <1>1, <1>2, <1>3, LedKeeps

\* Every step keeps the invariant.
LEMMA InvStep == IInv /\ [Next]_vars => IInv'
<1> SUFFICES ASSUME IInv, [Next]_vars PROVE IInv'
  OBVIOUS
<1>1. CASE Tick \/ World \/ UNCHANGED vars \/ \E t \in Slots : Delays(t)
  <2>1. UNCHANGED <<pc, flags, inWire, added>>
    BY <1>1 DEF Tick, TickCountsDown, TickSwitches, World, SpeedChanges,
       ControllerResets, Heals, Delays, DelayYields, vars, managerVars, schedVars
  <2> QED BY <2>1, StandsStillKeeps
<1>2. ASSUME NEW t \in Slots, Works(t) PROVE IInv'
  <2>1. CASE WireCall(t)
    BY <2>1 DEF WireCall, CallBegins, schedVars, IInv, PlaceInv, AloneInv, CallInv,
                AddedInv, FreeSlots
  <2> QED BY <1>2, <2>1, BootStep, SetupStep, ScanStep, LedStep DEF Works
<1> QED BY <1>1, <1>2 DEF Next

-----------------------------------------------------------------------------
\* IInv is an invariant of every behaviour of the firmware.
THEOREM Invariant == Spec => []IInv
BY InitInv, InvStep, PTL DEF Spec

\* No two threads are ever inside Wire calls at once: setup() on thread 0 and
\* the fan scan of the task loop never overlap.
THEOREM WireIsNeverShared == Spec => []WireIsExclusive
<1>1. IInv => WireIsExclusive
  <2> SUFFICES ASSUME IInv PROVE WireIsExclusive
    OBVIOUS
  <2>1. \A t, u \in inWire : t = u
    BY DEF IInv, PlaceInv, AloneInv, CallInv
  <2>2. CASE inWire = {}
    BY <2>2, FS_EmptySet DEF WireIsExclusive
  <2>3. CASE inWire # {}
    <3>1. PICK t : inWire = {t}
      BY <2>1, <2>3
    <3> QED BY <3>1, FS_Singleton DEF WireIsExclusive
  <2> QED BY <2>2, <2>3
<1> QED BY <1>1, Invariant, PTL

\* The task loop finds the vector of tasks complete.
THEOREM TasksSettled == Spec => []TasksAreSettled
<1>1. IInv => TasksAreSettled
  BY DEF IInv, PlaceInv, AloneInv, AddedInv, TasksAreSettled
<1> QED BY <1>1, Invariant, PTL

-----------------------------------------------------------------------------
(***************************************************************************)
(* Types.                                                                  *)
(***************************************************************************)

\* The types that IInv says nothing about.
RestOK == added \in BOOLEAN /\ led \in {"HIGH", "LOW"} /\ blink \in 0..(BLINKS - 1)
DataOK == SchedTypeOK /\ ManagerTypeOK /\ RestOK

\* The loop over the fans stays among them.
LEMMA NextFanIsFan == ASSUME NEW f \in Fans PROVE NextFan(f) \in Fans
BY FanConstants DEF Fans, NextFan

\* A scan that is past a fan goes on with one.
LEMMA PastFanKeeps ==
    ASSUME fan \in Fans, NEW t, NEW idle, PastFan(t, idle) PROVE fan' \in Fans
BY NextFanIsFan DEF PastFan

\* A command leaves the controller with a mode and with a target or none.
LEMMA CommandKeeps ==
    ASSUME ManagerTypeOK, NEW t, NEW next, NEW outcomes,
           outcomes \in {Configured, ModeSet, SpeedSet}, Command(t, outcomes, next)
    PROVE  /\ controller' \in [mode : {"other", "closed_loop"}, target : BOOLEAN]
           /\ inWire' \subseteq Threads
<1> DEFINE States == [mode : {"other", "closed_loop"}, target : BOOLEAN]
<1>1. controller \in States
  BY DEF ManagerTypeOK
<1>2. Configured \subseteq States /\ ModeSet \subseteq States /\ SpeedSet \subseteq States
  BY <1>1 DEF Configured, ModeSet, SpeedSet
<1> QED BY <1>1, <1>2 DEF Command, CallDone, ManagerTypeOK

\* The calls of setup() keep the types.
LEMMA BootTypes == ASSUME DataOK, NEW t \in Slots, Boot(t) PROVE DataOK'
<1> USE DEF Environment
<1>1. SchedTypeOK' /\ RestOK'
  BY DEF Boot, DataOK, SchedTypeOK, RestOK, schedVars
<1>2. ManagerTypeOK'
  <2>1. CASE Probe(t, SetupNext("init"))
    <3>1. detected' \subseteq Addresses
      BY <2>1 DEF Probe, DetectedAfter, ProbeResults, DataOK, ManagerTypeOK
    <3>2. address' \in Addresses
      BY <2>1, FanConstants DEF Probe, DataOK, ManagerTypeOK, Addresses
    <3> QED BY <2>1, <3>1, <3>2 DEF Probe, CallDone, DataOK, ManagerTypeOK
  <2>2. CASE FirstCheck(t, SetupNext("fans")) \/ PsuDump(t, SetupNext("psu"))
    BY <2>2 DEF FirstCheck, PsuDump, CallDone, DataOK, ManagerTypeOK
  <2>3. CASE FirstBegin(t)
    BY <2>3, CommandKeeps DEF FirstBegin, DataOK, ManagerTypeOK
  <2>4. CASE FirstMode(t)
    BY <2>4, CommandKeeps DEF FirstMode, DataOK, ManagerTypeOK
  <2>5. CASE FirstSet(t, SetupNext("fans"))
    BY <2>5, CommandKeeps DEF FirstSet, DataOK, ManagerTypeOK
  <2> QED BY <2>1, <2>2, <2>3, <2>4, <2>5 DEF Boot
<1> QED BY <1>1, <1>2 DEF DataOK

\* So do the addition of the task and of the threads.
LEMMA SetupTypes == ASSUME DataOK, NEW t \in Slots, Setup(t) PROVE DataOK'
<1> USE DEF Environment
<1>1. CASE AddTask(t)
  BY <1>1 DEF AddTask, DataOK, SchedTypeOK, ManagerTypeOK, RestOK, schedVars
<1>2. ASSUME NEW place, NEW function, AddLoop(t, place, function) PROVE DataOK'
  <2>1. SchedTypeOK'
    BY <1>2, AddKeepsTypes DEF AddLoop, DataOK
  <2>2. ManagerTypeOK' /\ RestOK'
    BY <1>2 DEF AddLoop, DataOK, ManagerTypeOK, RestOK
  <2> QED BY <2>1, <2>2 DEF DataOK
<1> QED BY <1>1, <1>2 DEF Setup

\* So does the fan scan.
LEMMA ScanTypes == ASSUME DataOK, NEW t \in Slots, FanScanDue(t) \/ FanScan(t) PROVE DataOK'
<1> USE DEF Environment
<1>1. SchedTypeOK' /\ RestOK'
  BY DEF FanScanDue, FanScan, DataOK, SchedTypeOK, RestOK, schedVars
<1>2. ManagerTypeOK'
  <2>1. CASE FanScanDue(t)
    BY <2>1 DEF FanScanDue, DataOK, ManagerTypeOK
  <2>2. CASE ScanRead(t, "look")
    <3>1. fan' \in Fans
      BY <2>2, PastFanKeeps DEF ScanRead, DataOK, ManagerTypeOK
    <3> QED BY <2>2, <3>1 DEF ScanRead, CallDone, DataOK, ManagerTypeOK
  <2>3. CASE ScanBegin(t)
    BY <2>3, CommandKeeps DEF ScanBegin, DataOK, ManagerTypeOK
  <2>4. CASE ScanMode(t)
    BY <2>4, CommandKeeps DEF ScanMode, DataOK, ManagerTypeOK
  <2>5. CASE ScanSet(t, "look")
    <3>1. fan' \in Fans
      BY <2>5, PastFanKeeps DEF ScanSet, DataOK, ManagerTypeOK
    <3>2. controller' \in [mode : {"other", "closed_loop"}, target : BOOLEAN]
      BY <2>5 DEF ScanSet, SpeedSet, DataOK, ManagerTypeOK
    <3> QED BY <2>5, <3>1, <3>2 DEF ScanSet, CallDone, DataOK, ManagerTypeOK
  <2> QED BY <2>1, <2>2, <2>3, <2>4, <2>5 DEF FanScan
<1> QED BY <1>1, <1>2 DEF DataOK

\* So does the light.
LEMMA LedTypes == ASSUME DataOK, NEW t \in Slots, LedWrite(t) \/ DelayEnds(t) PROVE DataOK'
<1> USE DEF LedUnchanged, Environment
<1>1. SchedTypeOK' /\ ManagerTypeOK' /\ added' = added
  BY DEF LedWrite, DelayEnds, DataOK, SchedTypeOK, ManagerTypeOK, schedVars
<1>2. led' \in {"HIGH", "LOW"} /\ blink' \in 0..(BLINKS - 1)
  BY FirmwareConstants DEF LedWrite, DelayEnds, DataOK, RestOK
<1> QED BY <1>1, <1>2 DEF DataOK, RestOK

\* So do the timer, the bus and the fans.
LEMMA OutsideTypes == ASSUME DataOK, Tick \/ World PROVE DataOK'
<1> USE DEF Environment
<1>1. CASE Tick
  <2>1. SchedTypeOK'
    BY <1>1, TickKeepsTypes DEF Tick, DataOK
  <2> QED BY <1>1, <2>1 DEF Tick, DataOK, ManagerTypeOK, RestOK, managerVars
<1>2. CASE World
  <2>1. SchedTypeOK' /\ RestOK'
    BY <1>2 DEF World, DataOK, SchedTypeOK, RestOK, schedVars
  <2>2. ASSUME NEW f \in Fans, NEW s \in SPEEDS, SpeedChanges(f, s) PROVE ManagerTypeOK'
    <3>1. speed' \in [Fans -> SPEEDS]
      BY <2>2 DEF SpeedChanges, DataOK, ManagerTypeOK
    <3> QED BY <2>2, <3>1 DEF SpeedChanges, DataOK, ManagerTypeOK
  <2>3. CASE ControllerResets
    <3>1. controller' \in [mode : {"other", "closed_loop"}, target : BOOLEAN]
      BY <2>3 DEF ControllerResets
    <3> QED BY <2>1, <2>3, <3>1 DEF ControllerResets, DataOK, ManagerTypeOK
  <2>4. CASE Heals
    <3>1. healthy' \in BOOLEAN
      BY <2>4, Zenon DEF Heals
    <3> QED BY <2>1, <2>4, <3>1 DEF Heals, DataOK, ManagerTypeOK
  <2> QED BY <1>2, <2>1, <2>2, <2>3, <2>4 DEF World, DataOK
<1> QED BY <1>1, <1>2

\* Every step keeps the types.
LEMMA TypesStep == DataOK /\ [Next]_vars => DataOK'
<1> SUFFICES ASSUME DataOK, [Next]_vars PROVE DataOK'
  OBVIOUS
<1>1. ASSUME NEW t \in Slots, Works(t) PROVE DataOK'
  <2>1. CASE WireCall(t)
    BY <2>1, FirmwareConstants DEF WireCall, CallBegins, Environment, DataOK, SchedTypeOK,
       ManagerTypeOK, RestOK, schedVars
  <2> QED BY <1>1, <2>1, BootTypes, SetupTypes, ScanTypes, LedTypes DEF Works
<1>2. ASSUME NEW t \in Slots, Delays(t) PROVE DataOK'
  <2>1. SchedTypeOK'
    BY <1>2, YieldKeepsTypes DEF Delays, DelayYields, DataOK
  <2> QED BY <1>2, <2>1 DEF Delays, DelayYields, DataOK, ManagerTypeOK, RestOK, managerVars
<1>3. CASE UNCHANGED vars
  BY <1>3 DEF vars, schedVars, managerVars, DataOK, SchedTypeOK, ManagerTypeOK, RestOK
<1> QED BY <1>1, <1>2, <1>3, OutsideTypes DEF Next

\* Every variable keeps its type: no loop index leaves its range, no slot its table.
THEOREM TypeCorrect == Spec => []TypeOK
<1>1. ASSUME Init PROVE DataOK
  <2>1. SchedTypeOK
    <3>1. 0 \in Slots /\ DEFAULT_TICKS \in 0..DEFAULT_TICKS
      BY SlotFacts, ThreadConstants
    <3> QED BY <1>1, <3>1 DEF Init, SchedInit, SchedTypeOK, SystemStates, ThreadStates
  <2>2. ManagerTypeOK
    <3>1. 1 \in Addresses /\ 0 \in Fans
      BY FanConstants DEF Addresses, Fans
    <3>2. fan_begun \in BOOLEAN
      BY <1>1, Zenon DEF Init, ManagerInit
    <3>3. controller \in [mode : {"other", "closed_loop"}, target : BOOLEAN]
      BY <1>1 DEF Init, ManagerInit
    <3> QED BY <1>1, <3>1, <3>2, <3>3 DEF Init, ManagerInit, ManagerTypeOK
  <2>3. RestOK
    <3>1. added \in BOOLEAN
      BY <1>1, Zenon DEF Init
    <3> QED BY <1>1, <3>1, FirmwareConstants DEF Init, RestOK
  <2> QED BY <2>1, <2>2, <2>3 DEF DataOK
<1>2. IInv /\ DataOK => TypeOK
  BY DEF IInv, PlaceInv, DataOK, RestOK, TypeOK
<1> QED BY <1>1, <1>2, TypesStep, Invariant, PTL DEF Spec

=============================================================================
