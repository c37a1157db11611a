-------------------------------- MODULE Firmware --------------------------------
(***************************************************************************)
(* main.cpp: setup() on thread 0 scans the bus, brings the fans up, fills  *)
(* the task manager and starts two threads; from then on task_loop scans   *)
(* the fans whenever their period has passed (TaskManager.tla has the      *)
(* timing), status_led_loop blinks, and thread 0 spins in loop().  The     *)
(* timer preempts all of it, and the first thread runs while setup() is    *)
(* not over.                                                               *)
(***************************************************************************)
EXTENDS ThreadScheduler, I2CManager

CONSTANT BLINKS  \* status_led_blinks

ASSUME FirmwareConstants ==
    /\ MAX_THREADS > 2
    /\ BLINKS \in Nat \ {0}
    /\ Threads = Slots

VARIABLES
    added,  \* whether the fan scan is in timed_tasks
    led,    \* level of LED_BUILTIN
    blink   \* loop variable of status_led_loop

vars == <<schedVars, managerVars, added, led, blink>>

\* Where setup(), task_loop and status_led_loop are outside Wire calls.
SetupPlaces == {"add_task", "add_task_loop", "add_led_loop", "main"}
LedPlaces == {"led_on", "delay_on", "led_off", "delay_off", "pause"}
Places == WireCalls \union SetupPlaces \union LedPlaces \union {"none", "look"}

TypeOK ==
    /\ SchedTypeOK
    /\ ManagerTypeOK
    /\ pc \in [Slots -> Places]
    /\ added \in BOOLEAN
    /\ led \in {"HIGH", "LOW"}
    /\ blink \in 0..(BLINKS - 1)

Init ==
    /\ SchedInit
    /\ ManagerInit
    /\ pc = [t \in Slots |-> IF t = 0 THEN "probe" ELSE "none"]
    /\ added = FALSE
    /\ led = "HIGH"
    /\ blink = 0

-----------------------------------------------------------------------------
(***************************************************************************)
(* setup()                                                                 *)
(***************************************************************************)

\* Slips: the task loop is started before the fans are brought up, or before it
\* has its task.
SetupNext_LoopFirst(place) ==
    [init |-> "add_task", add_task |-> "add_task_loop", add_task_loop |-> "check",
     fans |-> "psu", psu |-> "add_led_loop", add_led_loop |-> "main"][place]
SetupNext_TaskLate(place) ==
    [init |-> "check", fans |-> "psu", psu |-> "add_task_loop",
     add_task_loop |-> "add_task", add_task |-> "add_led_loop",
     add_led_loop |-> "main"][place]

\* The order of setup().
SetupNext(place) ==
    [init |-> "check", fans |-> "psu", psu |-> "add_task",
     add_task |-> "add_task_loop", add_task_loop |-> "add_led_loop",
     add_led_loop |-> "main"][place]

AddTask(t) ==
    /\ pc[t] = "add_task"
    /\ added' = TRUE
    /\ Goto(t, SetupNext("add_task"))
    /\ UNCHANGED <<schedVars, detected, fan_begun, inWire, address, fan,
                   controller, Environment, led, blink>>

\* addThread: the first one starts the system.
AddLoop(t, place, function) ==
    /\ pc[t] = place
    /\ \E i \in Slots :
        /\ addThreadIn(i)
        /\ pc' = [pc EXCEPT ![t] = SetupNext(place), ![i] = function]
    /\ UNCHANGED <<detected, fan_begun, inWire, address, fan,
                   controller, Environment, added, led, blink>>

Boot(t) ==
    /\ \/ Probe(t, SetupNext("init"))
       \/ FirstCheck(t, SetupNext("fans"))
       \/ FirstBegin(t) \/ FirstMode(t) \/ FirstSet(t, SetupNext("fans"))
       \/ PsuDump(t, SetupNext("psu"))
    /\ UNCHANGED <<schedVars, added, led, blink>>

Setup(t) ==
    \/ AddTask(t)
    \/ AddLoop(t, "add_task_loop", "look")
    \/ AddLoop(t, "add_led_loop", "led_on")

-----------------------------------------------------------------------------
(***************************************************************************)
(* task_loop: the one task becomes due now and then.                       *)
(***************************************************************************)

FanScanDue(t) ==
    /\ pc[t] = "look"
    /\ added
    /\ Goto(t, "read")
    /\ UNCHANGED <<schedVars, detected, fan_begun, inWire, address, fan,
                   controller, Environment, added, led, blink>>

FanScan(t) ==
    /\ ScanRead(t, "look") \/ ScanBegin(t) \/ ScanMode(t) \/ ScanSet(t, "look")
    /\ UNCHANGED <<schedVars, added, led, blink>>

WireCall(t) == CallBegins(t) /\ UNCHANGED <<schedVars, added, led, blink>>

-----------------------------------------------------------------------------
(***************************************************************************)
(* status_led_loop.                                                        *)
(***************************************************************************)

LedUnchanged == UNCHANGED <<schedVars, detected, fan_begun, inWire, address, fan,
                            controller, Environment, added>>

LedWrite(t) ==
    /\ \/ pc[t] = "led_on"  /\ led' = "HIGH" /\ Goto(t, "delay_on")
       \/ pc[t] = "led_off" /\ led' = "LOW"  /\ Goto(t, "delay_off")
    /\ UNCHANGED blink
    /\ LedUnchanged

\* threads.delay() gives the core away until its time has passed.
DelayYields(t) ==
    /\ pc[t] \in {"delay_on", "delay_off", "pause"}
    /\ yieldCore
    /\ UNCHANGED <<currentActive, flags, thread_count, managerVars, added, led, blink>>

DelayEnds(t) ==
    /\ \/ pc[t] = "delay_on" /\ Goto(t, "led_off") /\ UNCHANGED blink
       \/ /\ pc[t] = "delay_off"
          /\ IF blink + 1 < BLINKS
             THEN blink' = blink + 1 /\ Goto(t, "led_on")
             ELSE blink' = 0 /\ Goto(t, "pause")
       \/ pc[t] = "pause" /\ Goto(t, "led_on") /\ UNCHANGED blink
    /\ UNCHANGED led
    /\ LedUnchanged

-----------------------------------------------------------------------------
\* A step of the thread that has the core, other than waiting.
Works(t) ==
    /\ current_thread = t
    /\ \/ WireCall(t) \/ Boot(t) \/ Setup(t)
       \/ FanScanDue(t) \/ FanScan(t) \/ LedWrite(t) \/ DelayEnds(t)

Delays(t) == current_thread = t /\ DelayYields(t)

Tick == /\ TickCountsDown \/ TickSwitches
        /\ UNCHANGED <<managerVars, added, led, blink>>

World ==
    /\ \/ \E f \in Fans, s \in SPEEDS : SpeedChanges(f, s)
       \/ ControllerResets \/ Heals
    /\ UNCHANGED <<schedVars, added, led, blink>>

Next == Tick \/ World \/ \E t \in Slots : Works(t) \/ Delays(t)

Spec == Init /\ [][Next]_vars

\* The timer goes on, and a thread that gets the core again and again gets on:
\* Wire calls end (TeensyI2CMaster.tla), periods and delays pass.
FairSpec ==
    /\ Spec
    /\ SF_vars(Tick)
    /\ \A t \in Slots : SF_vars(Works(t))

-----------------------------------------------------------------------------
(***************************************************************************)
(* Properties.                                                             *)
(***************************************************************************)

\* Wire and the driver are not made for two threads (readme of the threads
\* library), and no mutex guards them: the order of setup() alone keeps the fan
\* scan off the bus while thread 0 is inside a Wire call.
WireIsExclusive == Cardinality(inWire) <= 1

\* timed_tasks is a vector that service() walks without a lock: it is complete
\* before the task loop can run.
TasksAreSettled == (\E t \in Slots \ {0} : pc[t] # "none") => added

\* The fans are looked at again and again, every one of them, however the other
\* threads spend their time and whatever fails on the bus.
EveryFanIsScanned ==
    \A f \in Fans : []<>(fan = f /\ \E t \in Slots \ {0} : pc[t] = "read")

\* The light goes on and off for ever, also when the bus or the fans fail.
LedBlinks == []<>(led = "HIGH") /\ []<>(led = "LOW")

\* When begin_fan_control found fan 0 in range, a fan found out of range later
\* gets the controller commanded, once the commands get through.
Booted == pc[0] \notin BootCalls
FanIsControlled ==
    \A f \in Fans :
        (Booted /\ ~fan_begun /\ healthy)
          ~> (Controlled \/ speed[f] \in FAN_MIN_SPEED..FAN_MAX_SPEED)

=============================================================================
